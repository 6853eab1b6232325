------------------------------ MODULE RpcSystem ------------------------------
(***************************************************************************)
(* RpcSystem with SchedulerRpcTimeoutHandler and the Signals responses are *)
(* dispatched with.  A call is made on any thread, its response arrives on *)
(* the application thread, its timeout on the scheduler thread; whoever    *)
(* erases the call from calls_ under mutex_ runs its callback.             *)
(*                                                                         *)
(* Of the scheduler (module Scheduler) this is the part that timeouts      *)
(* depend on: one-shot tasks, the release of the mutex for the callbacks,  *)
(* and the wake-up time that a task added meanwhile is not part of.  No    *)
(* periodic task keeps the thread awake: the client and the load tester    *)
(* have none.  The connection is one, it may be lost, and the server may   *)
(* leave a request unanswered.                                             *)
(*                                                                         *)
(* An operator named X_Y is a mutant of X: the code with the mistake Y,    *)
(* used to show that a property can fail.                                  *)
(***************************************************************************)
EXTENDS Integers, Sequences, FiniteSets

CONSTANTS
  Calls,   \* request ids, as next_id_ hands them out
  Request  \* per call, its type of request; the responses to a type have a Signal,
           \* the errors of all types share one

VARIABLES
  step,       \* per call, how many of CallSteps are done
  calls,      \* keys of calls_
  slots,      \* calls whose two slots are in the Signals
  task,       \* per call, its timeout task in the scheduler
  timeouts,   \* keys of timeouts_
  elapsed,    \* calls whose scheduled_time_point has passed
  loop,       \* where ProcessTasks is: it waits, looks for due tasks or runs callbacks, if any
  watched,    \* the timeouts that next_wake_time is the minimum of
  late,       \* history: timeouts added after next_wake_time was computed and before the wait
  connected,  \* the connection is in the TcpSystem
  requests,   \* requests on their way to the server
  inbox,      \* responses on their way to the application thread
  thread,     \* per thread, the callback it is handling
  handled,    \* history: calls whose response the application thread has handled
  outcome,    \* history: per call, the callbacks that ran
  crashed     \* a slot was used after it was destroyed

callVars == <<step, calls, slots, task, timeouts>>
timeVars == <<elapsed, loop, watched, late>>
netVars  == <<connected, requests, inbox>>
histVars == <<handled, outcome, crashed>>
vars == <<callVars, timeVars, netVars, thread, histVars>>

Threads == {"application", "scheduler"}
Kinds == {"success", "error", "timeout"}
Idle == [pc |-> "idle"]

Init ==
  /\ step = [r \in Calls |-> 0]
  /\ calls = {} /\ slots = {} /\ timeouts = {}
  /\ task = [r \in Calls |-> "none"]
  /\ elapsed = {} /\ loop = "wait" /\ watched = {} /\ late = {}
  /\ connected = TRUE /\ requests = {} /\ inbox = {}
  /\ thread = [t \in Threads |-> Idle]
  /\ handled = {}
  /\ outcome = [r \in Calls |-> <<>>]
  /\ crashed = FALSE

-----------------------------------------------------------------------------
(* Call, on the calling thread.                                            *)

CallSteps_SendFirst == <<"send", "subscribe", "register", "schedule", "record">>

CallSteps_RecordLast == <<"subscribe", "register", "schedule", "send", "record">>

(* The order in which Call does its work. *)
CallSteps == <<"subscribe", "register", "schedule", "record", "send">>

At(r, name) == step[r] < Len(CallSteps) /\ CallSteps[step[r] + 1] = name

Returned(r) == step[r] = Len(CallSteps)

Advance(r) == step' = [step EXCEPT ![r] = @ + 1]

Subscribe(r) ==
  /\ At(r, "subscribe")
  /\ Advance(r)
  /\ slots' = slots \cup {r}
  /\ UNCHANGED <<calls, task, timeouts, timeVars, netVars, thread, histVars>>

Register(r) ==
  /\ At(r, "register")
  /\ Advance(r)
  /\ calls' = calls \cup {r}
  /\ UNCHANGED <<slots, task, timeouts, timeVars, netVars, thread, histVars>>

(* cv_.notify_one: a notification reaches the scheduler only in its wait.  *)
Notify == loop' = IF loop = "wait" THEN "scan" ELSE loop

(* With a timeout_duration, ScheduleTimeout: ScheduleAfter, and then the   *)
(* entry in timeouts_.                                                     *)
ScheduleTimeout(r) ==
  /\ At(r, "schedule")
  /\ Advance(r)
  /\ \/ /\ task' = [task EXCEPT ![r] = "scheduled"]
        /\ Notify
        /\ late' = IF loop = "run" THEN late \cup {r} ELSE late
     \/ UNCHANGED <<task, loop, late>>
  /\ UNCHANGED <<calls, slots, timeouts, elapsed, watched, netVars, thread, histVars>>

RecordTimeout(r) ==
  /\ At(r, "record")
  /\ Advance(r)
  /\ timeouts' = IF task[r] # "none" THEN timeouts \cup {r} ELSE timeouts
  /\ UNCHANGED <<calls, slots, task, timeVars, netVars, thread, histVars>>

(* TcpSystem::Send drops the message when the connection is gone. *)
Send(r) ==
  /\ At(r, "send")
  /\ Advance(r)
  /\ requests' = IF connected THEN requests \cup {r} ELSE requests
  /\ UNCHANGED <<calls, slots, task, timeouts, timeVars, connected, inbox, thread, histVars>>

-----------------------------------------------------------------------------
(* The server and the connection (external).                               *)

Answer(r, kind) ==
  /\ r \in requests
  /\ requests' = requests \ {r}
  /\ inbox' = inbox \cup {<<r, kind>>}
  /\ UNCHANGED <<callVars, timeVars, connected, thread, histVars>>

(* What was on the way is lost; responses already queued at the processor  *)
(* are not, so any part of the inbox may stay.                             *)
Disconnect ==
  /\ connected
  /\ connected' = FALSE
  /\ requests' = {}
  /\ inbox' \in SUBSET inbox
  /\ UNCHANGED <<callVars, timeVars, thread, histVars>>

-----------------------------------------------------------------------------
(* Application thread: Signal::Emit.                                       *)

(* The calls that have a slot in the Signal of such a response. *)
Listeners(r, kind) == {s \in slots : kind = "success" => Request[s] = Request[r]}

(* Emit copies the ids of the slots. *)
Emit(r, kind) ==
  /\ thread["application"] = Idle
  /\ <<r, kind>> \in inbox
  /\ inbox' = inbox \ {<<r, kind>>}
  /\ thread' = [thread EXCEPT !["application"] =
                  [pc |-> "find", call |-> r, kind |-> kind,
                   buffer |-> Listeners(r, kind), slot |-> r]]
  /\ UNCHANGED <<callVars, timeVars, connected, requests, histVars>>

(* The next id of the copy is looked up again and, if it is there, called. *)
FindSlot(s) ==
  LET h == thread["application"]
  IN  /\ h.pc = "find"
      /\ s \in h.buffer
      /\ thread' = [thread EXCEPT !["application"] =
                      [h EXCEPT !.pc = IF s \in slots THEN "slot" ELSE "find",
                                !.buffer = h.buffer \ {s}, !.slot = s]]
      /\ UNCHANGED <<callVars, timeVars, netVars, histVars>>

(* Every slot reads the ids it captured.  The one of the answered call     *)
(* copies its callback and enters HandleCallback, the others return.  A    *)
(* slot that is destroyed meanwhile is used after it is freed.             *)
CallSlot ==
  LET h == thread["application"]
  IN  /\ h.pc = "slot"
      /\ \/ /\ thread' = [thread EXCEPT !["application"].pc =
                            IF h.slot = h.call THEN "handle" ELSE "find"]
            /\ UNCHANGED crashed
         \/ h.slot \notin slots /\ crashed' = TRUE /\ UNCHANGED thread
      /\ UNCHANGED <<callVars, timeVars, netVars, handled, outcome>>

EmitDone ==
  LET h == thread["application"]
  IN  /\ h.pc = "find"
      /\ h.buffer = {}
      /\ thread' = [thread EXCEPT !["application"] = Idle]
      /\ handled' = handled \cup {h.call}
      /\ UNCHANGED <<callVars, timeVars, netVars, outcome, crashed>>

-----------------------------------------------------------------------------
(* Scheduler thread: ProcessTasks.                                         *)

Pending == {r \in Calls : task[r] = "scheduled"}

(* The time of a task comes; one that was removed may still be the reason  *)
(* for the wake-up.                                                        *)
Elapse(r) ==
  /\ r \in Pending \cup watched
  /\ r \notin elapsed
  /\ elapsed' = elapsed \cup {r}
  /\ UNCHANGED <<callVars, loop, watched, late, netVars, thread, histVars>>

(* wait_until returns at next_wake_time. *)
WakeUp ==
  /\ loop = "wait"
  /\ watched \cap elapsed # {}
  /\ loop' = "scan"
  /\ UNCHANGED <<callVars, elapsed, watched, late, netVars, thread, histVars>>

(* It may also return without a reason, or for a notification that comes   *)
(* some time after the task was added or removed.                          *)
SpuriousWakeUp ==
  /\ loop = "wait"
  /\ loop' = "scan"
  /\ UNCHANGED <<callVars, elapsed, watched, late, netVars, thread, histVars>>

(* Under the mutex: due tasks are collected, the others give the time of   *)
(* the next wake-up.  With tasks, due or not, the mutex is released before *)
(* the wait; without any it is not.                                        *)
CollectTimeouts ==
  LET due == Pending \cap elapsed
  IN  /\ loop = "scan"
      /\ task' = [r \in Calls |-> IF r \in due THEN "collected" ELSE task[r]]
      /\ watched' = Pending \ due
      /\ loop' = IF Pending = {} THEN "wait" ELSE "run"
      /\ UNCHANGED <<step, calls, slots, timeouts, elapsed, late, netVars, thread, histVars>>

(* Without the mutex: the callbacks, one after the other. *)
RunTimeout(r) ==
  /\ thread["scheduler"] = Idle
  /\ task[r] = "collected"
  /\ task' = [task EXCEPT ![r] = "ran"]
  /\ thread' = [thread EXCEPT !["scheduler"] =
                  [pc |-> "handle", call |-> r, kind |-> "timeout"]]
  /\ UNCHANGED <<step, calls, slots, timeouts, timeVars, netVars, histVars>>

(* The wait is for the time computed before the callbacks ran. *)
WaitAgain ==
  /\ loop = "run"
  /\ thread["scheduler"] = Idle
  /\ \A r \in Calls : task[r] # "collected"
  /\ loop' = "wait"
  /\ UNCHANGED <<callVars, elapsed, watched, late, netVars, thread, histVars>>

-----------------------------------------------------------------------------
(* HandleCallback, on either thread.                                       *)

(* A slot returns to Emit, a timeout to ProcessTasks. *)
Returns(t) ==
  thread' = [thread EXCEPT ![t] =
               IF t = "application" THEN [@ EXCEPT !.pc = "find"] ELSE Idle]

Goes(t, pc) == thread' = [thread EXCEPT ![t].pc = pc]

EraseCall_Keeps(t) ==
  LET r == thread[t].call
  IN  /\ thread[t].pc = "handle"
      /\ IF r \in calls THEN Goes(t, "cancel") ELSE Returns(t)
      /\ UNCHANGED <<callVars, timeVars, netVars, histVars>>

EraseCall_UnsubscribesAll(t) ==
  LET r == thread[t].call
  IN  /\ thread[t].pc = "handle"
      /\ IF r \in calls THEN Goes(t, "cancel") ELSE Returns(t)
      /\ calls' = calls \ {r}
      /\ slots' = IF r \in calls THEN {} ELSE slots
      /\ UNCHANGED <<step, task, timeouts, timeVars, netVars, histVars>>

(* Whoever erases the call goes on; the subscriptions go with it. *)
EraseCall(t) ==
  LET r == thread[t].call
  IN  /\ thread[t].pc = "handle"
      /\ IF r \in calls THEN Goes(t, "cancel") ELSE Returns(t)
      /\ calls' = calls \ {r}
      /\ slots' = IF r \in calls THEN slots \ {r} ELSE slots
      /\ UNCHANGED <<step, task, timeouts, timeVars, netVars, histVars>>

CancelTimeout_Returns(t) ==
  LET r == thread[t].call
  IN  /\ thread[t].pc = "cancel"
      /\ IF r \in timeouts THEN Goes(t, "remove") ELSE Returns(t)
      /\ timeouts' = timeouts \ {r}
      /\ UNCHANGED <<step, calls, slots, task, timeVars, netVars, histVars>>

(* CancelTimeout: the entry of timeouts_ under its mutex, then RemoveTask. *)
CancelTimeout(t) ==
  LET r == thread[t].call
  IN  /\ thread[t].pc = "cancel"
      /\ Goes(t, IF r \in timeouts THEN "remove" ELSE "callback")
      /\ timeouts' = timeouts \ {r}
      /\ UNCHANGED <<step, calls, slots, task, timeVars, netVars, histVars>>

RemoveTask(t) ==
  LET r == thread[t].call
  IN  /\ thread[t].pc = "remove"
      /\ Goes(t, "callback")
      /\ task' = [task EXCEPT ![r] = IF @ = "scheduled" THEN "removed" ELSE @]
      /\ Notify
      /\ UNCHANGED <<step, calls, slots, timeouts, elapsed, watched, late, netVars, histVars>>

RunCallback(t) ==
  LET h == thread[t]
  IN  /\ h.pc = "callback"
      /\ Returns(t)
      /\ outcome' = [outcome EXCEPT ![h.call] = Append(@, h.kind)]
      /\ UNCHANGED <<callVars, timeVars, netVars, handled, crashed>>

HandleCallback(t) ==
  EraseCall(t) \/ CancelTimeout(t) \/ RemoveTask(t) \/ RunCallback(t)

-----------------------------------------------------------------------------

CallerNext(r) ==
  Subscribe(r) \/ Register(r) \/ ScheduleTimeout(r) \/ RecordTimeout(r) \/ Send(r)

ApplicationNext ==
  \/ \E r \in Calls, kind \in {"success", "error"} : Emit(r, kind)
  \/ \E s \in Calls : FindSlot(s)
  \/ CallSlot
  \/ EmitDone
  \/ HandleCallback("application")

SchedulerNext ==
  \/ WakeUp
  \/ CollectTimeouts
  \/ \E r \in Calls : RunTimeout(r)
  \/ WaitAgain
  \/ HandleCallback("scheduler")

Next ==
  /\ ~ crashed
  /\ \/ \E r \in Calls : CallerNext(r)
     \/ ApplicationNext
     \/ SchedulerNext
     \/ SpuriousWakeUp
     \/ \E r \in Calls : Elapse(r)
     \/ \E r \in Calls, kind \in {"success", "error"} : Answer(r, kind)
     \/ Disconnect

Spec == Init /\ [][Next]_vars

(* The threads run and time passes.  Nothing is assumed of the server and  *)
(* the network, and nothing wakes a scheduler that waits without a time.   *)
FairSpec ==
  /\ Spec
  /\ \A r \in Calls : WF_vars(~ crashed /\ step[r] > 0 /\ CallerNext(r))
  /\ WF_vars(~ crashed /\ ApplicationNext)
  /\ WF_vars(~ crashed /\ SchedulerNext)
  /\ \A r \in Calls : WF_vars(~ crashed /\ Elapse(r))

-----------------------------------------------------------------------------

(* What the threads are in: a response on the application thread, a        *)
(* timeout on the scheduler thread.                                        *)
ApplicationState ==
  {Idle} \cup [pc : {"find", "slot", "handle", "cancel", "remove", "callback"}, call : Calls,
               kind : {"success", "error"}, buffer : SUBSET Calls, slot : Calls]
SchedulerState ==
  {Idle} \cup [pc : {"handle", "cancel", "remove", "callback"}, call : Calls, kind : {"timeout"}]

TimeOK ==
  /\ elapsed \subseteq Calls /\ watched \subseteq Calls /\ late \subseteq Calls
  /\ loop \in {"wait", "scan", "run"}

FlagsOK == connected \in BOOLEAN /\ crashed \in BOOLEAN

(* calls_, timeouts_ and the handlers in flight only hold calls.           *)
TypeOK ==
  /\ step \in [Calls -> 0 .. 5]
  /\ calls \subseteq Calls /\ slots \subseteq Calls
  /\ task \in [Calls -> {"none", "scheduled", "collected", "ran", "removed"}]
  /\ timeouts \subseteq Calls
  /\ TimeOK
  /\ FlagsOK
  /\ requests \subseteq Calls
  /\ inbox \subseteq Calls \X {"success", "error"}
  /\ thread \in [Threads -> ApplicationState \cup SchedulerState]
  /\ thread["application"] \in ApplicationState
  /\ thread["scheduler"] \in SchedulerState
  /\ handled \subseteq Calls
  /\ outcome \in [Calls -> Seq(Kinds)]

(* One callback of a call runs at most once and never two of them: a late  *)
(* answer after a timeout, or a timeout that was collected before it was   *)
(* cancelled, loses at calls_.                                             *)
AtMostOneCallback == \A r \in Calls : Len(outcome[r]) <= 1

(* An answer is never missed: when the application thread is done with the *)
(* response to a call, the call is settled by it or by its timeout.  The   *)
(* subscription is in place before the request leaves, and a slot that the *)
(* second lookup of Emit does not find belongs to a settled call.          *)
AnswerNotMissed == \A r \in handled : r \notin calls

(* A settled call leaves no timeout behind that could still come due; an   *)
(* entry in timeouts_ is left only where the timeout ran before Call had   *)
(* recorded it.                                                            *)
TimerCancelled ==
  \A r \in Calls :
    Returned(r) /\ outcome[r] # <<>> =>
      /\ task[r] # "scheduled"
      /\ r \in timeouts => outcome[r] = <<"timeout">>

(* The scheduler waits without a wake-up time although the timeout of the  *)
(* call is among its tasks.                                                *)
Overslept(r) == task[r] = "scheduled" /\ loop = "wait" /\ watched = {}

(* A call with a timeout comes to an end, whatever the server and the      *)
(* connection do, but for one case: its timeout was added while            *)
(* ProcessTasks had released the mutex, to run callbacks or none, so that  *)
(* next_wake_time does not know of it and its notification found nobody    *)
(* waiting, no other timeout is left, and nobody adds or removes a task    *)
(* any more.                                                               *)
EveryCallSettles ==
  \A r \in Calls :
    (task[r] # "none") ~> (outcome[r] # <<>> \/ crashed \/ [](Overslept(r) /\ r \in late))

(* Signal has no lock, so a slot can be destroyed while the application    *)
(* thread is in it, be it the slot of the answered call or that of another *)
(* call of the same Signal.  Only one step does it: the timeout of the     *)
(* call the slot belongs to, which ran on the scheduler thread and won at  *)
(* calls_.  The slots of calls without a timeout, and of calls whose       *)
(* timeout is not due, are safe, whatever the other calls do.              *)
SlotDiesOnlyByTimeout ==
  LET h == thread["application"]
  IN  h.pc = "slot" /\ h.slot \notin slots =>
        task[h.slot] = "ran" /\ h.slot \notin calls

-----------------------------------------------------------------------------
(* The inductive invariant behind the safety properties.                   *)

(* How far Call must have come for each trace of a call elsewhere. *)
OrderInv ==
  /\ \A r \in slots : step[r] >= 1
  /\ \A r \in Calls : step[r] = 1 => r \in slots
  /\ \A r \in calls : step[r] >= 2 /\ r \in slots
  /\ \A r \in Calls : task[r] # "none" => step[r] >= 3
  /\ \A r \in timeouts : step[r] >= 4
  /\ \A r \in requests \cup handled : step[r] = 5
  /\ \A m \in inbox : step[m[1]] = 5
  /\ thread["application"] # Idle => step[thread["application"].call] = 5
  /\ thread["scheduler"] # Idle => task[thread["scheduler"].call] = "ran"

(* The thread that erased a call from calls_ has its callback to run. *)
Owns(t, r) == thread[t].pc \in {"cancel", "remove", "callback"} /\ thread[t].call = r

(* A call is registered, owned by one thread, or settled; and it is one of *)
(* them from Register on.                                                  *)
OwnerInv ==
  /\ \A r \in calls : outcome[r] = <<>>
  /\ \A r \in Calls : outcome[r] # <<>> => step[r] >= 2 /\ \E k \in Kinds : outcome[r] = <<k>>
  /\ \A t \in Threads, r \in Calls : Owns(t, r) => r \notin calls /\ outcome[r] = <<>>
  /\ \A r \in Calls : ~ (Owns("application", r) /\ Owns("scheduler", r))

(* A recorded timeout is in timeouts_ until its owner takes it out, and is *)
(* not scheduled when a response has settled the call.                     *)
TimerInv ==
  /\ \A r \in calls : task[r] # "none" /\ step[r] >= 4 => r \in timeouts
  /\ \A r \in Calls :
       Owns("application", r) /\ thread["application"].pc = "cancel" /\ task[r] # "none" =>
         r \in timeouts
  /\ \A r \in Calls :
       Owns("application", r) /\ thread["application"].pc # "cancel" => r \notin timeouts
  /\ \A r \in Calls :
       Owns("application", r) /\ thread["application"].pc = "callback" => task[r] # "scheduled"
  /\ \A r \in Calls :
       outcome[r] # <<>> /\ outcome[r] # <<"timeout">> =>
         step[r] = 5 /\ r \notin timeouts /\ task[r] # "scheduled"
  /\ \A r \in Calls : outcome[r] = <<"timeout">> => task[r] = "ran"

(* A response has found the slot of its call, or finds it among those that *)
(* Emit has left to call, unless the call is settled.                      *)
SlotInv ==
  LET h == thread["application"]
  IN  /\ AnswerNotMissed
      /\ SlotDiesOnlyByTimeout
      /\ h.pc = "find" \/ (h.pc = "slot" /\ h.slot # h.call) =>
           h.call \in h.buffer \/ h.call \notin calls

(* Outside of its scan, ProcessTasks has a wake-up time for every timeout  *)
(* in tasks_ but for those added while it had released the mutex.          *)
WakeInv == loop # "scan" => Pending \ watched \subseteq late

RpcInv == TypeOK /\ OrderInv /\ OwnerInv /\ TimerInv /\ SlotInv

=============================================================================
