------------------------------ MODULE Scheduler ------------------------------
(***************************************************************************)
(* SchedulingSystem: one thread that runs one-shot and periodic callbacks. *)
(*                                                                         *)
(* ProcessTasks collects the due callbacks under mutex_, runs them with    *)
(* the mutex released, takes it again, erases the finished one-shots and   *)
(* waits on cv_ until next_wake_time, which it computed BEFORE it ran the  *)
(* callbacks.  AddTask and RemoveTask notify after they released the       *)
(* mutex, and Deinitialize requests the stop and notifies without taking   *)
(* it.  A notification that finds the thread not waiting is lost.          *)
(*                                                                         *)
(* Time is counted down: left[t] is how far task t's scheduled_time_point  *)
(* is away (AddTask reads the clock just before it takes the mutex; here   *)
(* both are one moment).  A task id is used once, as next_id hands them    *)
(* out.  An operator named X_Y is a mutant of X: the code with the mistake *)
(* Y, used to show that a property can fail.                               *)
(***************************************************************************)
EXTENDS Integers, FiniteSets

CONSTANTS
  Tasks,      \* task ids
  Once,       \* the tasks added with ScheduleAfter
  Interval,   \* per task, interval (at least 15 ms, so never zero)
  Never       \* steady_clock::time_point::max(), above every interval

ASSUME SchedulerAssumption ==
  /\ Once \subseteq Tasks
  /\ Never \in Nat
  /\ Interval \in [Tasks -> 1 .. (Never - 1)]

VARIABLES
  tasks,          \* keys of tasks_
  left,           \* per task, time until its scheduled_time_point
  pc,             \* where the scheduler thread is in ProcessTasks
  callbacks,      \* collected and not yet run
  deleted_tasks,  \* collected one-shots
  wake,           \* time until next_wake_time
  seen,           \* the tasks next_wake_time was computed from
  notified,       \* the waiting thread has been notified
  notifies,       \* calls that changed tasks_ and have yet to notify
  stop,           \* stop_requested
  main_pc,        \* where the main thread is in Deinitialize
  added,          \* history: ids ever handed out
  removed,        \* history: ids given to RemoveTask
  runs            \* history: how often a task ran (0, 1, or more: 2)

timeVars == <<left, wake>>
histVars == <<added, removed, runs>>
vars == <<tasks, timeVars, pc, callbacks, deleted_tasks, seen, notified,
          notifies, stop, main_pc, histVars>>

(* The scheduler thread holds mutex_ here, and nobody else can take it. *)
LockHeld == pc \in {"loop", "before_wait", "before_empty_wait"}

Waiting == pc \in {"wait", "empty_wait"}

MinOf(S) == CHOOSE x \in S : \A y \in S : x <= y

Init ==
  /\ tasks = {}
  /\ left = Interval
  /\ pc = "top"
  /\ callbacks = {} /\ deleted_tasks = {} /\ seen = {}
  /\ wake = Never
  /\ notified = FALSE
  /\ notifies = 0
  /\ stop = FALSE
  /\ main_pc = "running"
  /\ added = {} /\ removed = {}
  /\ runs = [t \in Tasks |-> 0]

-----------------------------------------------------------------------------
(* Callers, on any thread and from callbacks.                              *)

(* AddTask up to the end of its critical section. *)
AddTask(t) ==
  /\ t \notin added
  /\ ~ LockHeld
  /\ tasks' = tasks \cup {t}
  /\ left' = [left EXCEPT ![t] = Interval[t]]
  /\ added' = added \cup {t}
  /\ notifies' = notifies + 1
  /\ UNCHANGED <<wake, pc, callbacks, deleted_tasks, seen, notified, stop,
                 main_pc, removed, runs>>

RemoveTask_KeepsTask(t) ==
  /\ t \in added \ removed
  /\ ~ LockHeld
  /\ removed' = removed \cup {t}
  /\ notifies' = notifies + 1
  /\ UNCHANGED <<tasks, timeVars, pc, callbacks, deleted_tasks, seen, notified,
                 stop, main_pc, added, runs>>

RemoveTask(t) ==
  /\ t \in added \ removed
  /\ ~ LockHeld
  /\ tasks' = tasks \ {t}
  /\ removed' = removed \cup {t}
  /\ notifies' = notifies + 1
  /\ UNCHANGED <<timeVars, pc, callbacks, deleted_tasks, seen, notified, stop,
                 main_pc, added, runs>>

(* cv_.notify_one() at the end of AddTask and RemoveTask. *)
Notify ==
  /\ notifies > 0
  /\ notifies' = notifies - 1
  /\ notified' = (notified \/ Waiting)
  /\ UNCHANGED <<tasks, timeVars, pc, callbacks, deleted_tasks, seen, stop,
                 main_pc, histVars>>

(* Deinitialize: request_stop; notify_one; then the thread is joined. *)
RequestStop ==
  /\ main_pc = "running"
  /\ stop' = TRUE
  /\ main_pc' = "notifying"
  /\ UNCHANGED <<tasks, timeVars, pc, callbacks, deleted_tasks, seen, notified,
                 notifies, histVars>>

NotifyStop ==
  /\ main_pc = "notifying"
  /\ main_pc' = "joining"
  /\ notified' = (notified \/ Waiting)
  /\ UNCHANGED <<tasks, timeVars, pc, callbacks, deleted_tasks, seen, notifies,
                 stop, histVars>>

Join ==
  /\ main_pc = "joining"
  /\ pc = "exited"
  /\ main_pc' = "joined"
  /\ UNCHANGED <<tasks, timeVars, pc, callbacks, deleted_tasks, seen, notified,
                 notifies, stop, histVars>>

-----------------------------------------------------------------------------
(* ProcessTasks.                                                           *)

(* The outer loop's condition, and taking the mutex. *)
Top ==
  /\ pc = "top"
  /\ pc' = IF stop THEN "exited" ELSE "loop"
  /\ UNCHANGED <<tasks, timeVars, callbacks, deleted_tasks, seen, notified,
                 notifies, stop, main_pc, histVars>>

(* The inner loop up to lock.unlock(): the callbacks of the due tasks are  *)
(* collected, next_wake_time is the earliest time point of the tasks       *)
(* awaited.                                                                *)
CollectDue(due, collected, newLeft, awaited) ==
  /\ pc = "loop"
  /\ tasks # {}
  /\ callbacks' = collected
  /\ deleted_tasks' = due \cap Once
  /\ left' = newLeft
  /\ wake' = MinOf({newLeft[t] : t \in awaited} \cup {Never})
  /\ seen' = tasks \ (due \cap Once)
  /\ pc' = "run"
  /\ UNCHANGED <<tasks, notified, notifies, stop, main_pc, histVars>>

DueTasks == {t \in tasks : left[t] = 0}

(* scheduled_time_point of the due tasks moves n intervals ahead. *)
Rescheduled(n) ==
  [t \in Tasks |-> IF t \in DueTasks THEN n * Interval[t] ELSE left[t]]

Collect_AwaitsOthers ==
  CollectDue(DueTasks, DueTasks, Rescheduled(1), tasks \ DueTasks)

Collect_DropsOneShots ==
  CollectDue(DueTasks, DueTasks \ Once, Rescheduled(1), tasks \ (DueTasks \cap Once))

Collect ==
  CollectDue(DueTasks, DueTasks, Rescheduled(1), tasks \ (DueTasks \cap Once))

RunCallback(t) ==
  /\ pc = "run"
  /\ t \in callbacks
  /\ callbacks' = callbacks \ {t}
  /\ runs' = [runs EXCEPT ![t] = IF @ = 2 THEN 2 ELSE @ + 1]
  /\ UNCHANGED <<tasks, timeVars, pc, deleted_tasks, seen, notified, notifies,
                 stop, main_pc, added, removed>>

Relock_KeepsOneShots ==
  /\ pc = "run"
  /\ callbacks = {}
  /\ pc' = "before_wait"
  /\ UNCHANGED <<tasks, timeVars, callbacks, deleted_tasks, seen, notified,
                 notifies, stop, main_pc, histVars>>

(* lock.lock() and the erasure of the one-shots. *)
Relock ==
  /\ pc = "run"
  /\ callbacks = {}
  /\ tasks' = tasks \ deleted_tasks
  /\ pc' = "before_wait"
  /\ UNCHANGED <<timeVars, callbacks, deleted_tasks, seen, notified, notifies,
                 stop, main_pc, histVars>>

(* cv_.wait_until blocks and releases the mutex. *)
BeginWait ==
  /\ pc = "before_wait"
  /\ pc' = "wait"
  /\ notified' = FALSE
  /\ UNCHANGED <<tasks, timeVars, callbacks, deleted_tasks, seen, notifies,
                 stop, main_pc, histVars>>

EndWait_IgnoresStop ==
  /\ pc = "wait"
  /\ notified \/ wake = 0
  /\ pc' = "loop"
  /\ UNCHANGED <<tasks, timeVars, callbacks, deleted_tasks, seen, notified,
                 notifies, stop, main_pc, histVars>>

(* It returns when notified or at next_wake_time; the stop is checked. *)
EndWait ==
  /\ pc = "wait"
  /\ notified \/ wake = 0
  /\ pc' = IF stop THEN "exited" ELSE "loop"
  /\ UNCHANGED <<tasks, timeVars, callbacks, deleted_tasks, seen, notified,
                 notifies, stop, main_pc, histVars>>

(* cv_.wait with a predicate: the predicate is evaluated under the mutex,  *)
(* then the thread blocks; request_stop can fall in between.               *)
CheckEmpty ==
  /\ pc = "loop"
  /\ tasks = {}
  /\ pc' = IF stop THEN "exited" ELSE "before_empty_wait"
  /\ UNCHANGED <<tasks, timeVars, callbacks, deleted_tasks, seen, notified,
                 notifies, stop, main_pc, histVars>>

BeginEmptyWait ==
  /\ pc = "before_empty_wait"
  /\ pc' = "empty_wait"
  /\ notified' = FALSE
  /\ UNCHANGED <<tasks, timeVars, callbacks, deleted_tasks, seen, notifies,
                 stop, main_pc, histVars>>

(* Notified: the predicate again, and then the stop or the outer loop. *)
EndEmptyWait ==
  /\ pc = "empty_wait"
  /\ notified
  /\ pc' = IF stop THEN "exited"
           ELSE IF tasks # {} THEN "top" ELSE "before_empty_wait"
  /\ UNCHANGED <<tasks, timeVars, callbacks, deleted_tasks, seen, notified,
                 notifies, stop, main_pc, histVars>>

(* A condition variable may wake its waiter for no reason. *)
SpuriousWake ==
  /\ Waiting
  /\ ~ notified
  /\ notified' = TRUE
  /\ UNCHANGED <<tasks, timeVars, pc, callbacks, deleted_tasks, seen, notifies,
                 stop, main_pc, histVars>>

(* Time passes. *)
Down(n) == IF n = 0 THEN 0 ELSE n - 1

Tick ==
  /\ left' = [t \in Tasks |-> IF t \in tasks THEN Down(left[t]) ELSE left[t]]
  /\ wake' = IF wake = Never THEN Never ELSE Down(wake)
  /\ timeVars' # timeVars
  /\ UNCHANGED <<tasks, pc, callbacks, deleted_tasks, seen, notified, notifies,
                 stop, main_pc, histVars>>

-----------------------------------------------------------------------------

ThreadNext ==
  \/ Top
  \/ Collect
  \/ \E t \in Tasks : RunCallback(t)
  \/ Relock
  \/ BeginWait
  \/ EndWait
  \/ CheckEmpty
  \/ BeginEmptyWait
  \/ EndEmptyWait

MainNext == RequestStop \/ NotifyStop \/ Join

Next ==
  \/ ThreadNext
  \/ MainNext
  \/ \E t \in Tasks : AddTask(t) \/ RemoveTask(t)
  \/ Notify
  \/ SpuriousWake
  \/ Tick

Spec == Init /\ [][Next]_vars

(* Threads that can run do run, and time passes. *)
FairSpec ==
  /\ Spec
  /\ WF_vars(ThreadNext) /\ WF_vars(Notify) /\ WF_vars(Tick)
  /\ WF_vars(NotifyStop) /\ WF_vars(Join)

-----------------------------------------------------------------------------

FlagsOK == notified \in BOOLEAN /\ stop \in BOOLEAN

(* Time points stay within one interval of now; tasks_ and the collected   *)
(* callbacks hold tasks.                                                   *)
TypeOK ==
  /\ tasks \subseteq Tasks /\ callbacks \subseteq Tasks
  /\ deleted_tasks \subseteq Tasks /\ seen \subseteq Tasks
  /\ left \in [Tasks -> 0 .. (Never - 1)]
  /\ wake \in 0 .. Never
  /\ pc \in {"top", "loop", "run", "before_wait", "wait", "before_empty_wait",
             "empty_wait", "exited"}
  /\ FlagsOK
  /\ notifies \in Nat
  /\ main_pc \in {"running", "notifying", "joining", "joined"}
  /\ added \subseteq Tasks /\ removed \subseteq Tasks
  /\ runs \in [Tasks -> 0 .. 2]

(* A one-shot callback runs at most once, although it stays in tasks_      *)
(* while the callbacks run and its time point is moved on.                 *)
OneShotAtMostOnce == \A t \in Once : runs[t] <= 1

(* The thread never sleeps past the time point of a task it knew when it   *)
(* computed next_wake_time, however long the callbacks took.               *)
NoOversleep ==
  pc = "wait" => \A t \in tasks \cap seen : wake <= left[t]

(* RemoveTask does not wait for a callback that is collected, but once no  *)
(* collected callback of the task is left, it never runs again.            *)
RemovedStaysQuiet ==
  [][\A t \in removed \ callbacks : runs'[t] = runs[t] /\ t \notin callbacks']_vars

(* A periodic task that has run keeps the thread awake as long as it is    *)
(* registered: it is in every next_wake_time that is computed.             *)
KeptAwake == \E t \in tasks \ Once : runs[t] > 0

(* Every task that is added runs, unless it is removed or the scheduler is *)
(* stopped first, as long as a periodic task keeps the thread awake: a     *)
(* notification that is lost while callbacks run delays it only.           *)
RunsWhileAwake ==
  \A t \in Tasks :
    (t \in tasks /\ runs[t] = 0)
      ~> (runs[t] > 0 \/ t \in removed \/ stop \/ ~ KeptAwake)

(* Deinitialize joins the thread, although it requests the stop and        *)
(* notifies without the mutex, as long as a periodic task keeps it awake.  *)
StopWhileAwake == stop ~> (main_pc = "joined" \/ ~ KeptAwake)
-----------------------------------------------------------------------------
(* The inductive invariant behind the safety properties.                   *)

(* Ids are used once, and a task that was removed does not come back. *)
IdInv ==
  /\ tasks \cup removed \cup seen \cup callbacks \subseteq added
  /\ tasks \cap removed = {}

(* A one-shot that is collected, or has run, is erased before the thread   *)
(* looks for due tasks again.                                              *)
OnceInv ==
  /\ callbacks # {} => pc = "run"
  /\ \A t \in Once \cap callbacks : runs[t] = 0 /\ t \in deleted_tasks
  /\ \A t \in Once : runs[t] > 0 =>
       /\ runs[t] = 1 /\ t \in added
       /\ t \in tasks => pc = "run" /\ t \in deleted_tasks

(* next_wake_time holds until the thread sleeps. *)
WakeInv ==
  pc \in {"run", "before_wait", "wait"} => \A t \in tasks \cap seen : wake <= left[t]

SchedulerInv == TypeOK /\ IdInv /\ OnceInv /\ WakeInv

=============================================================================
