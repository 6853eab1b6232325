--------------------------- MODULE SchedulerProofs ---------------------------
(***************************************************************************)
(* Proofs about Scheduler, for any set of tasks and any intervals: a       *)
(* one-shot runs at most once, the thread never sleeps past a task it      *)
(* knew, and a removed task stays quiet.                                   *)
(***************************************************************************)
EXTENDS Scheduler, WellFoundedInduction, NaturalsInduction, TLAPS

(* The earliest of a set of time points is one of them. *)
LEMMA MinOfProperty ==
  ASSUME NEW S, S \subseteq Nat, S # {}
  PROVE  MinOf(S) \in S /\ \A x \in S : MinOf(S) <= x
<1>1. PICK m \in S : \A x \in S : <<x, m>> \notin OpToRel(<, Nat)
  BY WFMin, NatLessThanWellFounded
<1>2. \A x \in S : ~ (x < m)
  BY <1>1 DEF OpToRel
<1>3. \A x \in S : m <= x
  BY <1>2
<1> QED BY <1>3 DEF MinOf

-----------------------------------------------------------------------------

LEMMA InitSchedulerInv == Init => SchedulerInv
<1> SUFFICES ASSUME Init PROVE SchedulerInv
  OBVIOUS
<1> USE DEF Init
<1>0. FlagsOK
  BY Zenon DEF FlagsOK
<1>1. TypeOK
  BY <1>0, SchedulerAssumption DEF TypeOK
<1>2. IdInv
  BY DEF IdInv
<1>3. OnceInv
  BY SchedulerAssumption DEF OnceInv
<1>4. WakeInv
  BY DEF WakeInv
<1> QED BY <1>1, <1>2, <1>3, <1>4 DEF SchedulerInv

(* A step that only moves the thread between its waits, notifies it or     *)
(* asks it to stop leaves what the invariant is about alone.               *)
LEMMA QuietStep ==
  ASSUME SchedulerInv, FlagsOK', notifies' \in Nat,
         pc' \in {"top", "loop", "run", "before_wait", "wait", "before_empty_wait",
                  "empty_wait", "exited"},
         main_pc' \in {"running", "notifying", "joining", "joined"},
         pc' = "run" <=> pc = "run",
         pc' \in {"run", "before_wait", "wait"} => pc \in {"run", "before_wait", "wait"},
         tasks' = tasks, left' = left, wake' = wake, callbacks' = callbacks,
         deleted_tasks' = deleted_tasks, seen' = seen, added' = added, removed' = removed,
         runs' = runs
  PROVE  SchedulerInv'
<1> USE DEF SchedulerInv
<1>1. TypeOK'
  BY DEF TypeOK
<1>2. IdInv'
  BY DEF IdInv
<1>3. OnceInv'
  BY DEF OnceInv
<1>4. WakeInv'
  BY DEF WakeInv
<1> QED BY <1>1, <1>2, <1>3, <1>4

LEMMA ThreadWaits ==
  ASSUME SchedulerInv,
         Top \/ BeginWait \/ EndWait \/ CheckEmpty \/ BeginEmptyWait \/ EndEmptyWait
  PROVE  SchedulerInv'
<1> USE DEF timeVars, histVars
<1>1. /\ tasks' = tasks /\ left' = left /\ wake' = wake /\ callbacks' = callbacks
      /\ deleted_tasks' = deleted_tasks /\ seen' = seen /\ added' = added /\ removed' = removed
      /\ runs' = runs /\ main_pc' = main_pc /\ notifies' = notifies /\ stop' = stop
  BY DEF Top, BeginWait, EndWait, CheckEmpty, BeginEmptyWait, EndEmptyWait
<1>2. /\ notified' = notified \/ notified' = FALSE
      /\ pc' # "run" /\ pc # "run"
      /\ pc' \in {"run", "before_wait", "wait"} => pc \in {"run", "before_wait", "wait"}
      /\ pc' \in {"top", "loop", "run", "before_wait", "wait", "before_empty_wait",
                  "empty_wait", "exited"}
  <2>1. CASE Top
    BY <2>1 DEF Top
  <2>2. CASE BeginWait
    BY <2>2 DEF BeginWait
  <2>3. CASE EndWait
    BY <2>3 DEF EndWait
  <2>4. CASE CheckEmpty
    BY <2>4 DEF CheckEmpty
  <2>5. CASE BeginEmptyWait
    BY <2>5 DEF BeginEmptyWait
  <2>6. CASE EndEmptyWait
    BY <2>6 DEF EndEmptyWait
  <2> QED BY <2>1, <2>2, <2>3, <2>4, <2>5, <2>6
<1>3. FlagsOK'
  BY <1>1, <1>2, Zenon DEF FlagsOK, SchedulerInv, TypeOK
<1>4. main_pc \in {"running", "notifying", "joining", "joined"} /\ notifies \in Nat
  BY DEF SchedulerInv, TypeOK
<1> QED BY <1>1, <1>2, <1>3, <1>4, QuietStep

LEMMA Notifications ==
  ASSUME SchedulerInv, MainNext \/ Notify \/ SpuriousWake
  PROVE  SchedulerInv'
<1> USE DEF timeVars, histVars
<1>0. /\ main_pc \in {"running", "notifying", "joining", "joined"} /\ notifies \in Nat
      /\ pc \in {"top", "loop", "run", "before_wait", "wait", "before_empty_wait",
                 "empty_wait", "exited"}
  BY DEF SchedulerInv, TypeOK
<1>1. /\ tasks' = tasks /\ left' = left /\ wake' = wake /\ callbacks' = callbacks
      /\ deleted_tasks' = deleted_tasks /\ seen' = seen /\ added' = added /\ removed' = removed
      /\ runs' = runs /\ pc' = pc
  BY DEF MainNext, RequestStop, NotifyStop, Join, Notify, SpuriousWake
<1>2. /\ main_pc' \in {"running", "notifying", "joining", "joined"}
      /\ notifies' \in Nat
  BY <1>0 DEF MainNext, RequestStop, NotifyStop, Join, Notify, SpuriousWake
<1>3. FlagsOK'
  <2> USE DEF FlagsOK, SchedulerInv, TypeOK
  <2>1. CASE RequestStop
    BY <2>1, Zenon DEF RequestStop
  <2>2. CASE NotifyStop
    BY <2>2, Zenon DEF NotifyStop
  <2>3. CASE Join
    BY <2>3, Zenon DEF Join
  <2>4. CASE Notify
    BY <2>4, Zenon DEF Notify
  <2>5. CASE SpuriousWake
    BY <2>5, Zenon DEF SpuriousWake
  <2> QED BY <2>1, <2>2, <2>3, <2>4, <2>5 DEF MainNext
<1> QED BY <1>0, <1>1, <1>2, <1>3, QuietStep

-----------------------------------------------------------------------------

(* A new id is not one that next_wake_time was computed from. *)
LEMMA AddTaskInv ==
  ASSUME SchedulerInv, NEW t \in Tasks, AddTask(t)
  PROVE  SchedulerInv'
<1> USE DEF SchedulerInv
<1>1. /\ t \notin added /\ tasks' = tasks \cup {t} /\ added' = added \cup {t}
      /\ left' = [left EXCEPT ![t] = Interval[t]] /\ notifies' = notifies + 1
      /\ wake' = wake /\ pc' = pc /\ callbacks' = callbacks /\ deleted_tasks' = deleted_tasks
      /\ seen' = seen /\ notified' = notified /\ stop' = stop /\ main_pc' = main_pc
      /\ removed' = removed /\ runs' = runs
  BY DEF AddTask
<1>2. FlagsOK'
  BY <1>1, Zenon DEF FlagsOK, TypeOK
<1>3. left \in [Tasks -> 0 .. (Never - 1)] /\ left' \in [Tasks -> 0 .. (Never - 1)]
  <2>1. left \in [Tasks -> 0 .. (Never - 1)]
    BY DEF TypeOK
  <2>2. Interval[t] \in 0 .. (Never - 1)
    BY SchedulerAssumption
  <2> QED BY <1>1, <2>1, <2>2
<1>4. TypeOK'
  BY <1>1, <1>2, <1>3 DEF TypeOK
<1>5. IdInv'
  BY <1>1 DEF IdInv
<1>6. OnceInv'
  BY <1>1 DEF OnceInv, IdInv
<1>7. WakeInv'
  <2>1. tasks' \cap seen' = tasks \cap seen /\ t \notin seen /\ seen \subseteq Tasks
    BY <1>1 DEF IdInv, TypeOK
  <2>2. \A u \in tasks \cap seen : left'[u] = left[u]
    BY <1>1, <1>3, <2>1
  <2> QED BY <1>1, <2>1, <2>2 DEF WakeInv
<1> QED BY <1>4, <1>5, <1>6, <1>7

LEMMA RemoveTaskInv ==
  ASSUME SchedulerInv, NEW t \in Tasks, RemoveTask(t)
  PROVE  SchedulerInv'
<1> USE DEF SchedulerInv
<1>1. /\ t \in added \ removed /\ tasks' = tasks \ {t} /\ removed' = removed \cup {t}
      /\ notifies' = notifies + 1 /\ left' = left
      /\ wake' = wake /\ pc' = pc /\ callbacks' = callbacks /\ deleted_tasks' = deleted_tasks
      /\ seen' = seen /\ notified' = notified /\ stop' = stop /\ main_pc' = main_pc
      /\ added' = added /\ runs' = runs
  BY DEF RemoveTask, timeVars
<1>2. FlagsOK'
  BY <1>1, Zenon DEF FlagsOK, TypeOK
<1>4. TypeOK'
  BY <1>1, <1>2 DEF TypeOK
<1>5. IdInv'
  BY <1>1 DEF IdInv
<1>6. OnceInv'
  BY <1>1 DEF OnceInv
<1>7. WakeInv'
  BY <1>1 DEF WakeInv
<1> QED BY <1>4, <1>5, <1>6, <1>7

(* The collected one-shots are exactly the ones that are erased after the  *)
(* callbacks, and no one-shot in tasks_ has run.                           *)
LEMMA CollectInv ==
  ASSUME SchedulerInv, Collect
  PROVE  SchedulerInv'
<1> USE DEF SchedulerInv
<1> DEFINE points == {Rescheduled(1)[t] : t \in tasks \ (DueTasks \cap Once)} \cup {Never}
<1>1. /\ pc = "loop" /\ pc' = "run" /\ callbacks' = DueTasks
      /\ deleted_tasks' = DueTasks \cap Once /\ left' = Rescheduled(1)
      /\ wake' = MinOf(points) /\ seen' = tasks \ (DueTasks \cap Once)
      /\ tasks' = tasks /\ notified' = notified /\ notifies' = notifies /\ stop' = stop
      /\ main_pc' = main_pc /\ added' = added /\ removed' = removed /\ runs' = runs
  BY DEF Collect, CollectDue, histVars
<1>2. FlagsOK'
  BY <1>1, Zenon DEF FlagsOK, TypeOK
<1>3. DueTasks \subseteq tasks /\ tasks \subseteq Tasks
  BY DEF DueTasks, TypeOK
<1>4. Rescheduled(1) \in [Tasks -> 0 .. (Never - 1)]
  BY SchedulerAssumption DEF TypeOK, Rescheduled
<1>5. points \subseteq 0 .. Never /\ points \subseteq Nat /\ points # {}
  BY <1>3, <1>4, SchedulerAssumption
<1> HIDE DEF points
<1>6. wake' \in points /\ \A x \in points : wake' <= x
  BY <1>1, <1>5, MinOfProperty
<1>7. wake' \in 0 .. Never
  BY <1>5, <1>6
<1>8. TypeOK'
  BY <1>1, <1>2, <1>3, <1>4, <1>7 DEF TypeOK
<1>9. IdInv'
  BY <1>1, <1>3 DEF IdInv
<1>10. OnceInv'
  <2>1. \A t \in Once : t \in tasks => ~ (runs[t] > 0)
    BY <1>1 DEF OnceInv
  <2>2. \A t \in Once \cap DueTasks : runs[t] = 0
    BY <1>3, <2>1 DEF TypeOK
  <2>3. \A t \in Once : runs[t] > 0 => runs[t] = 1 /\ t \in added /\ t \notin tasks
    BY <2>1 DEF OnceInv
  <2> QED BY <1>1, <2>2, <2>3 DEF OnceInv
<1>11. WakeInv'
  <2>1. \A t \in seen' : Rescheduled(1)[t] \in points
    BY <1>1 DEF points
  <2> QED BY <1>1, <1>6, <2>1 DEF WakeInv
<1> QED BY <1>8, <1>9, <1>10, <1>11

LEMMA RunCallbackInv ==
  ASSUME SchedulerInv, NEW t \in Tasks, RunCallback(t)
  PROVE  SchedulerInv'
<1> USE DEF SchedulerInv
<1>1. /\ pc = "run" /\ t \in callbacks /\ callbacks' = callbacks \ {t}
      /\ runs' = [runs EXCEPT ![t] = IF runs[t] = 2 THEN 2 ELSE runs[t] + 1]
      /\ tasks' = tasks /\ left' = left /\ wake' = wake /\ pc' = pc
      /\ deleted_tasks' = deleted_tasks /\ seen' = seen /\ notified' = notified
      /\ notifies' = notifies /\ stop' = stop /\ main_pc' = main_pc
      /\ added' = added /\ removed' = removed
  BY DEF RunCallback, timeVars
<1>2. FlagsOK'
  BY <1>1, Zenon DEF FlagsOK, TypeOK
<1>3. runs \in [Tasks -> 0 .. 2] /\ runs' \in [Tasks -> 0 .. 2]
  BY <1>1 DEF TypeOK
<1>4. TypeOK'
  BY <1>1, <1>2, <1>3 DEF TypeOK
<1>5. IdInv'
  BY <1>1 DEF IdInv
<1>6. OnceInv'
  <2>1. \A u \in Tasks : u # t => runs'[u] = runs[u]
    BY <1>1, <1>3
  <2>2. t \in Once => runs'[t] = 1 /\ t \in added /\ t \in deleted_tasks
    BY <1>1, <1>3 DEF OnceInv, IdInv
  <2>3. Once \subseteq Tasks
    BY SchedulerAssumption
  <2> QED BY <1>1, <2>1, <2>2, <2>3 DEF OnceInv
<1>7. WakeInv'
  BY <1>1 DEF WakeInv
<1> QED BY <1>4, <1>5, <1>6, <1>7

(* The erasure of the one-shots, before anybody can look at tasks_. *)
LEMMA RelockInv ==
  ASSUME SchedulerInv, Relock
  PROVE  SchedulerInv'
<1> USE DEF SchedulerInv
<1>1. /\ pc = "run" /\ pc' = "before_wait" /\ callbacks = {} /\ callbacks' = callbacks
      /\ tasks' = tasks \ deleted_tasks
      /\ left' = left /\ wake' = wake /\ deleted_tasks' = deleted_tasks /\ seen' = seen
      /\ notified' = notified /\ notifies' = notifies /\ stop' = stop /\ main_pc' = main_pc
      /\ added' = added /\ removed' = removed /\ runs' = runs
  BY DEF Relock, timeVars, histVars
<1>2. FlagsOK'
  BY <1>1, Zenon DEF FlagsOK, TypeOK
<1>3. TypeOK'
  BY <1>1, <1>2 DEF TypeOK
<1>4. IdInv'
  BY <1>1 DEF IdInv
<1>5. OnceInv'
  BY <1>1 DEF OnceInv
<1>6. WakeInv'
  BY <1>1 DEF WakeInv
<1> QED BY <1>3, <1>4, <1>5, <1>6

(* next_wake_time comes nearer with the time points it was computed from;  *)
(* it is Never only when no registered task is among them.                 *)
LEMMA TickInv ==
  ASSUME SchedulerInv, Tick
  PROVE  SchedulerInv'
<1> USE DEF SchedulerInv
<1>1. /\ left' = [t \in Tasks |-> IF t \in tasks THEN Down(left[t]) ELSE left[t]]
      /\ wake' = (IF wake = Never THEN Never ELSE Down(wake))
      /\ tasks' = tasks /\ pc' = pc /\ callbacks' = callbacks
      /\ deleted_tasks' = deleted_tasks /\ seen' = seen /\ notified' = notified
      /\ notifies' = notifies /\ stop' = stop /\ main_pc' = main_pc
      /\ added' = added /\ removed' = removed /\ runs' = runs
  BY DEF Tick, histVars
<1>2. FlagsOK'
  BY <1>1, Zenon DEF FlagsOK, TypeOK
<1>3. /\ left \in [Tasks -> 0 .. (Never - 1)] /\ wake \in 0 .. Never /\ Never \in Nat
      /\ tasks \subseteq Tasks
  BY SchedulerAssumption DEF TypeOK
<1>4. left' \in [Tasks -> 0 .. (Never - 1)] /\ wake' \in 0 .. Never
  BY <1>1, <1>3 DEF Down
<1>5. TypeOK'
  BY <1>1, <1>2, <1>4 DEF TypeOK
<1>6. IdInv'
  BY <1>1 DEF IdInv
<1>7. OnceInv'
  BY <1>1 DEF OnceInv
<1>8. WakeInv'
  <2> SUFFICES ASSUME pc \in {"run", "before_wait", "wait"}, NEW t \in tasks \cap seen
               PROVE  wake' <= left'[t]
    BY <1>1 DEF WakeInv
  <2>1. wake <= left[t] /\ left[t] \in 0 .. (Never - 1)
    BY <1>3 DEF WakeInv
  <2>2. wake' = Down(wake) /\ left'[t] = Down(left[t])
    BY <1>1, <1>3, <2>1
  <2> QED BY <1>3, <2>1, <2>2 DEF Down
<1> QED BY <1>5, <1>6, <1>7, <1>8

-----------------------------------------------------------------------------

LEMMA NextSchedulerInv == SchedulerInv /\ [Next]_vars => SchedulerInv'
<1> SUFFICES ASSUME SchedulerInv, [Next]_vars PROVE SchedulerInv'
  OBVIOUS
<1>1. CASE ThreadNext
  BY <1>1, ThreadWaits, CollectInv, RunCallbackInv, RelockInv DEF ThreadNext
<1>2. CASE MainNext \/ Notify \/ SpuriousWake
  BY <1>2, Notifications
<1>3. CASE \E t \in Tasks : AddTask(t) \/ RemoveTask(t)
  BY <1>3, AddTaskInv, RemoveTaskInv
<1>4. CASE Tick
  BY <1>4, TickInv
<1>5. CASE UNCHANGED vars
  <2>1. /\ tasks' = tasks /\ left' = left /\ wake' = wake /\ callbacks' = callbacks
        /\ deleted_tasks' = deleted_tasks /\ seen' = seen /\ added' = added
        /\ removed' = removed /\ runs' = runs /\ pc' = pc /\ main_pc' = main_pc
        /\ notifies' = notifies /\ stop' = stop /\ notified' = notified
    BY <1>5 DEF vars, timeVars, histVars
  <2>2. FlagsOK'
    BY <2>1, Zenon DEF FlagsOK, SchedulerInv, TypeOK
  <2> QED BY <2>1, <2>2, QuietStep DEF SchedulerInv, TypeOK
<1> QED BY <1>1, <1>2, <1>3, <1>4, <1>5 DEF Next

(* In every reachable state: ids are used once, a collected or executed    *)
(* one-shot is erased before due tasks are looked for again, and           *)
(* next_wake_time is not after a time point it was computed from.          *)
THEOREM SchedulerInvariant == Spec => []SchedulerInv
BY InitSchedulerInv, NextSchedulerInv, PTL DEF Spec

(* A one-shot callback runs at most once, although it stays in tasks_, and *)
(* its time point is moved on, while the callbacks run with the mutex      *)
(* released.                                                               *)
THEOREM OneShotsRunOnce == Spec => []OneShotAtMostOnce
<1>1. SchedulerInv => OneShotAtMostOnce
  <2> SUFFICES ASSUME SchedulerInv, NEW t \in Once PROVE runs[t] <= 1
    BY DEF OneShotAtMostOnce
  <2>1. runs[t] \in 0 .. 2
    BY SchedulerAssumption DEF SchedulerInv, TypeOK
  <2>2. runs[t] > 0 => runs[t] = 1
    BY DEF SchedulerInv, OnceInv
  <2> QED BY <2>1, <2>2
<1> QED BY <1>1, SchedulerInvariant, PTL

(* The thread never sleeps past the time point of a registered task that   *)
(* ProcessTasks computed next_wake_time from.                              *)
THEOREM ThreadNeverOversleeps == Spec => []NoOversleep
<1>1. SchedulerInv => NoOversleep
  BY DEF SchedulerInv, WakeInv, NoOversleep
<1> QED BY <1>1, SchedulerInvariant, PTL

(* Once RemoveTask was called and no collected callback of the task is     *)
(* left, no step runs the task or collects it again.                       *)
THEOREM RemovedTasksStayQuiet == Spec => RemovedStaysQuiet
<1> DEFINE Quiet == \A t \in removed \ callbacks : runs'[t] = runs[t] /\ t \notin callbacks'
<1>1. SchedulerInv /\ [Next]_vars => [Quiet]_vars
  <2> SUFFICES ASSUME SchedulerInv, Next, NEW t \in removed \ callbacks
               PROVE  runs'[t] = runs[t] /\ t \notin callbacks'
    OBVIOUS
  <2>1. CASE Collect
    <3>1. callbacks' \subseteq tasks /\ runs' = runs
      BY <2>1 DEF Collect, CollectDue, DueTasks, histVars
    <3> QED BY <3>1 DEF SchedulerInv, IdInv
  <2>2. CASE \E u \in Tasks : RunCallback(u)
    <3>1. PICK u \in Tasks : RunCallback(u)
      BY <2>2
    <3>2. /\ u \in callbacks /\ callbacks' = callbacks \ {u} /\ t # u
          /\ runs' = [runs EXCEPT ![u] = IF runs[u] = 2 THEN 2 ELSE runs[u] + 1]
      BY <3>1 DEF RunCallback
    <3>3. runs \in [Tasks -> 0 .. 2] /\ t \in Tasks
      BY DEF SchedulerInv, TypeOK
    <3> QED BY <3>2, <3>3
  <2>3. CASE ~ Collect /\ ~ \E u \in Tasks : RunCallback(u)
    <3>1. runs' = runs /\ callbacks' = callbacks
      BY <2>3 DEF Next, ThreadNext, MainNext, Top, Relock, BeginWait, EndWait, CheckEmpty,
                  BeginEmptyWait, EndEmptyWait, RequestStop, NotifyStop, Join, AddTask,
                  RemoveTask, Notify, SpuriousWake, Tick, histVars
    <3> QED BY <3>1
  <2> QED BY <2>1, <2>2, <2>3
<1>2. Spec => [][Quiet]_vars
  BY <1>1, SchedulerInvariant, PTL DEF Spec
<1> QED BY <1>2 DEF RemovedStaysQuiet

=============================================================================
