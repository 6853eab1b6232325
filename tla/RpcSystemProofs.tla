--------------------------- MODULE RpcSystemProofs ---------------------------
(***************************************************************************)
(* Proofs about RpcSystem, for any set of calls: a call has at most one    *)
(* outcome, no answer is missed, no timer is left behind, and a slot that  *)
(* is being called is destroyed only by the timeout of the call it is of.  *)
(***************************************************************************)
EXTENDS RpcSystem, TLAPS

(* Which steps of Call are which. *)
LEMMA CallOrder ==
  ASSUME NEW r \in Calls, step \in [Calls -> 0 .. 5]
  PROVE  /\ At(r, "subscribe") <=> step[r] = 0
         /\ At(r, "register") <=> step[r] = 1
         /\ At(r, "schedule") <=> step[r] = 2
         /\ At(r, "record") <=> step[r] = 3
         /\ At(r, "send") <=> step[r] = 4
         /\ Returned(r) <=> step[r] = 5
<1>1. step[r] \in {0, 1, 2, 3, 4, 5}
  OBVIOUS
<1>2. /\ Len(CallSteps) = 5
      /\ CallSteps[1] = "subscribe" /\ CallSteps[2] = "register" /\ CallSteps[3] = "schedule"
      /\ CallSteps[4] = "record" /\ CallSteps[5] = "send"
  BY DEF CallSteps
<1> QED BY <1>1, <1>2 DEF At, Returned

LEMMA Advances ==
  ASSUME NEW r \in Calls, step \in [Calls -> 0 .. 5], step[r] < 5, Advance(r)
  PROVE  /\ step' \in [Calls -> 0 .. 5]
         /\ step'[r] = step[r] + 1
         /\ \A s \in Calls : s # r => step'[s] = step[s]
BY DEF Advance

(* A thread that is not idle has a record with the fields of its state.    *)
LEMMA ThreadStates ==
  ASSUME TypeOK
  PROVE  /\ thread["application"] = Idle <=> thread["application"].pc = "idle"
         /\ thread["scheduler"] = Idle <=> thread["scheduler"].pc = "idle"
         /\ thread["application"] # Idle =>
              thread["application"] \in
                [pc : {"find", "slot", "handle", "cancel", "remove", "callback"}, call : Calls,
                 kind : {"success", "error"}, buffer : SUBSET Calls, slot : Calls]
         /\ thread["scheduler"] # Idle =>
              thread["scheduler"] \in
                [pc : {"handle", "cancel", "remove", "callback"}, call : Calls, kind : {"timeout"}]
BY DEF TypeOK, ApplicationState, SchedulerState, Idle

(* What most steps need of the types. *)
LEMMA Types ==
  ASSUME TypeOK
  PROVE  /\ step \in [Calls -> 0 .. 5] /\ DOMAIN outcome = Calls /\ DOMAIN task = Calls
         /\ calls \subseteq Calls /\ slots \subseteq Calls /\ timeouts \subseteq Calls
         /\ requests \subseteq Calls /\ handled \subseteq Calls
         /\ \A m \in inbox : m[1] \in Calls
         /\ \A t \in Threads : thread[t] = Idle <=> thread[t].pc = "idle"
         /\ \A t \in Threads : thread[t] # Idle => thread[t].call \in Calls
         /\ thread["application"].pc = "slot" => thread["application"].slot \in Calls
BY ThreadStates DEF TypeOK, Threads

LEMMA GoesOn ==
  ASSUME TypeOK, NEW t \in Threads, thread[t].pc \in {"handle", "cancel", "remove"},
         NEW pc \in {"cancel", "remove", "callback"}, Goes(t, pc)
  PROVE  /\ thread' \in [Threads -> ApplicationState \cup SchedulerState]
         /\ thread'["application"] \in ApplicationState
         /\ thread'["scheduler"] \in SchedulerState
         /\ thread'[t].pc = pc /\ thread'[t].call = thread[t].call /\ thread'[t] # Idle
         /\ thread[t].call \in Calls /\ thread[t] # Idle
         /\ \A u \in Threads : u # t => thread'[u] = thread[u]
<1>1. CASE t = "application"
  BY <1>1, ThreadStates DEF TypeOK, ApplicationState, SchedulerState, Idle, Goes, Threads
<1>2. CASE t = "scheduler"
  BY <1>2, ThreadStates DEF TypeOK, ApplicationState, SchedulerState, Idle, Goes, Threads
<1> QED BY <1>1, <1>2 DEF Threads

LEMMA HandlerReturns ==
  ASSUME TypeOK, NEW t \in Threads, thread[t].pc \in {"handle", "callback"}, Returns(t)
  PROVE  /\ thread' \in [Threads -> ApplicationState \cup SchedulerState]
         /\ thread'["application"] \in ApplicationState
         /\ thread'["scheduler"] \in SchedulerState
         /\ thread[t].call \in Calls /\ thread[t].kind \in Kinds /\ thread[t] # Idle
         /\ t = "application" => /\ thread'[t].pc = "find" /\ thread'[t] # Idle
                                 /\ thread'[t].call = thread[t].call
         /\ t = "scheduler" => thread'[t].pc = "idle" /\ thread'[t] = Idle
         /\ thread'[t].pc \notin {"cancel", "remove", "callback", "slot"}
         /\ \A u \in Threads : u # t => thread'[u] = thread[u]
<1>1. CASE t = "application"
  BY <1>1, ThreadStates DEF TypeOK, ApplicationState, SchedulerState, Idle, Returns, Threads, Kinds
<1>2. CASE t = "scheduler"
  BY <1>2, ThreadStates DEF TypeOK, ApplicationState, SchedulerState, Idle, Returns, Threads, Kinds
<1> QED BY <1>1, <1>2 DEF Threads

(* The scheduler's view of time keeps its type in every step. *)
LEMMA TimeStep ==
  ASSUME TypeOK, Next
  PROVE  TimeOK'
<1>1. TimeOK
  BY DEF TypeOK
<1>2. CASE UNCHANGED timeVars
  BY <1>1, <1>2 DEF TimeOK, timeVars
<1>3. CASE /\ elapsed' = elapsed /\ watched' = watched /\ Notify
           /\ \E r \in Calls : late' \subseteq late \cup {r}
  BY <1>1, <1>3 DEF TimeOK, Notify
<1>4. CASE WakeUp \/ SpuriousWakeUp \/ WaitAgain \/ \E r \in Calls : Elapse(r)
  BY <1>1, <1>4 DEF TimeOK, WakeUp, SpuriousWakeUp, WaitAgain, Elapse
<1>5. CASE CollectTimeouts
  BY <1>1, <1>5 DEF TimeOK, CollectTimeouts, Pending
<1>6. CASE \E r \in Calls : ScheduleTimeout(r)
  <2>1. PICK r \in Calls : ScheduleTimeout(r)
    BY <1>6
  <2>2. CASE ~ UNCHANGED <<task, loop, late>>
    <3>1. /\ elapsed' = elapsed /\ watched' = watched /\ Notify /\ late' \subseteq late \cup {r}
      BY <2>1, <2>2 DEF ScheduleTimeout
    <3> QED BY <3>1, <1>3
  <2>3. CASE UNCHANGED <<task, loop, late>>
    BY <1>2, <2>1, <2>3 DEF ScheduleTimeout, timeVars
  <2> QED BY <2>2, <2>3
<1>7. CASE \E t \in Threads : RemoveTask(t)
  <2>1. PICK t \in Threads : RemoveTask(t)
    BY <1>7
  <2>2. thread[t].call \in Calls
    BY <2>1, Types, ThreadStates DEF RemoveTask, Idle
  <2> QED BY <1>3, <2>1, <2>2 DEF RemoveTask
<1>8. CASE \E r \in Calls : Subscribe(r) \/ Register(r) \/ RecordTimeout(r) \/ Send(r)
  BY <1>2, <1>8 DEF Subscribe, Register, RecordTimeout, Send
<1>9. CASE \/ \E r \in Calls, kind \in {"success", "error"} : Emit(r, kind) \/ Answer(r, kind)
           \/ Disconnect \/ CallSlot \/ EmitDone
           \/ \E r \in Calls : FindSlot(r) \/ RunTimeout(r)
  BY <1>2, <1>9 DEF Emit, Answer, Disconnect, CallSlot, EmitDone, FindSlot, RunTimeout
<1>10. CASE \E t \in Threads : EraseCall(t) \/ CancelTimeout(t) \/ RunCallback(t)
  BY <1>2, <1>10 DEF EraseCall, CancelTimeout, RunCallback
<1> QED
  BY <1>4, <1>5, <1>6, <1>7, <1>8, <1>9, <1>10
  DEF Next, CallerNext, ApplicationNext, SchedulerNext, HandleCallback, Threads

-----------------------------------------------------------------------------

LEMMA InitRpcInv == Init => RpcInv
<1> SUFFICES ASSUME Init PROVE RpcInv
  OBVIOUS
<1> USE DEF Init, Idle, Threads
<1>0. FlagsOK /\ TimeOK
  BY DEF FlagsOK, TimeOK
<1>1. TypeOK
  BY <1>0 DEF TypeOK, ApplicationState, SchedulerState, Kinds
<1>2. OrderInv
  BY DEF OrderInv
<1>3. OwnerInv
  BY DEF OwnerInv, Owns
<1>4. TimerInv
  BY DEF TimerInv, Owns
<1>5. SlotInv
  BY DEF SlotInv, AnswerNotMissed, SlotDiesOnlyByTimeout
<1> QED BY <1>1, <1>2, <1>3, <1>4, <1>5 DEF RpcInv

(* A call that is handled by a thread has been registered. *)
LEMMA OwnedIsMade ==
  ASSUME TypeOK, OrderInv, NEW t \in Threads, NEW r \in Calls, Owns(t, r)
  PROVE  step[r] >= 3 /\ thread[t] # Idle
<1>1. thread[t] # Idle
  BY Types DEF Owns
<1>2. CASE t = "application"
  BY <1>1, <1>2 DEF OrderInv, Owns
<1>3. CASE t = "scheduler"
  BY <1>1, <1>3, Types DEF OrderInv, Owns
<1> QED BY <1>1, <1>2, <1>3 DEF Threads

(* A step of the caller leaves the threads and the outcomes alone. *)
LEMMA CallerInv ==
  ASSUME RpcInv, NEW r \in Calls, CallerNext(r), TimeOK'
  PROVE  RpcInv'
<1> USE DEF RpcInv
<1>y. TypeOK
  OBVIOUS
<1>s. step \in [Calls -> 0 .. 5]
  BY <1>y, Types
<1>t. /\ thread' = thread /\ handled' = handled /\ outcome' = outcome
      /\ connected' = connected /\ crashed' = crashed
  BY DEF CallerNext, Subscribe, Register, ScheduleTimeout, RecordTimeout, Send, netVars, histVars
<1>f. FlagsOK'
  BY <1>t, Zenon DEF FlagsOK, TypeOK
<1>1. CASE Subscribe(r)
  <2>1. /\ step[r] = 0 /\ Advance(r)
        /\ slots' = slots \cup {r}
        /\ calls' = calls /\ task' = task /\ timeouts' = timeouts /\ requests' = requests /\ inbox' = inbox
    BY <1>1, <1>s, CallOrder DEF Subscribe, netVars
  <2>2. /\ step' \in [Calls -> 0 .. 5] /\ step'[r] = 1
        /\ \A q \in Calls : q # r => step'[q] = step[q]
    BY <2>1, <1>s, Advances
  <2>3. TypeOK'
    BY <1>f, <1>t, <2>1, <2>2 DEF TypeOK
  <2>4. OrderInv'
    BY <1>t, <2>1, <2>2, <1>y, Types DEF OrderInv, Threads
  <2>5. OwnerInv'
    BY <1>t, <2>1, <2>2, <1>y, Types DEF OrderInv, OwnerInv, Owns, Threads
  <2>6. TimerInv'
    BY <1>t, <2>1, <2>2, <1>y, Types DEF OrderInv, OwnerInv, TimerInv, Owns, Threads
  <2>7. SlotInv'
    BY <1>t, <2>1, <2>2, <1>y, Types
    DEF OrderInv, SlotInv, AnswerNotMissed, SlotDiesOnlyByTimeout, Threads
  <2> QED BY <2>3, <2>4, <2>5, <2>6, <2>7
<1>2. CASE Register(r)
  <2>1. /\ step[r] = 1 /\ Advance(r)
        /\ calls' = calls \cup {r}
        /\ slots' = slots /\ task' = task /\ timeouts' = timeouts /\ requests' = requests /\ inbox' = inbox
    BY <1>2, <1>s, CallOrder DEF Register, netVars
  <2>2. /\ step' \in [Calls -> 0 .. 5] /\ step'[r] = 2
        /\ \A q \in Calls : q # r => step'[q] = step[q]
    BY <2>1, <1>s, Advances
  <2>3. TypeOK'
    BY <1>f, <1>t, <2>1, <2>2 DEF TypeOK
  <2>4. OrderInv'
    BY <1>t, <2>1, <2>2, <1>y, Types DEF OrderInv, Threads
  <2>5. OwnerInv'
    BY <1>t, <2>1, <2>2, <1>y, Types, OwnedIsMade DEF OwnerInv, Owns
  <2>6. TimerInv'
    BY <1>t, <2>1, <2>2, <1>y, Types DEF OrderInv, OwnerInv, TimerInv, Owns, Threads
  <2>7. SlotInv'
    BY <1>t, <2>1, <2>2, <1>y, Types
    DEF OrderInv, SlotInv, AnswerNotMissed, SlotDiesOnlyByTimeout, Threads
  <2> QED BY <2>3, <2>4, <2>5, <2>6, <2>7
<1>3. CASE ScheduleTimeout(r)
  <2>1. /\ step[r] = 2 /\ Advance(r)
        /\ task' = [task EXCEPT ![r] = "scheduled"] \/ task' = task
        /\ slots' = slots /\ calls' = calls /\ timeouts' = timeouts /\ requests' = requests /\ inbox' = inbox
    BY <1>3, <1>s, CallOrder DEF ScheduleTimeout, netVars
  <2>2. /\ step' \in [Calls -> 0 .. 5] /\ step'[r] = 3
        /\ \A q \in Calls : q # r => step'[q] = step[q]
    BY <2>1, <1>s, Advances
  <2>3. TypeOK'
    BY <1>f, <1>t, <2>1, <2>2 DEF TypeOK
  <2>4. OrderInv'
    BY <1>t, <2>1, <2>2, <1>y, Types DEF OrderInv, Threads
  <2>5. OwnerInv'
    BY <1>t, <2>1, <2>2, <1>y, Types DEF OrderInv, OwnerInv, Owns, Threads
  <2>6. TimerInv'
    BY <1>t, <2>1, <2>2, <1>y, Types DEF OrderInv, OwnerInv, TimerInv, Owns, Threads
  <2>7. SlotInv'
    BY <1>t, <2>1, <2>2, <1>y, Types
    DEF OrderInv, SlotInv, AnswerNotMissed, SlotDiesOnlyByTimeout, Threads
  <2> QED BY <2>3, <2>4, <2>5, <2>6, <2>7
<1>4. CASE RecordTimeout(r)
  <2>1. /\ step[r] = 3 /\ Advance(r)
        /\ timeouts' = IF task[r] # "none" THEN timeouts \cup {r} ELSE timeouts
        /\ slots' = slots /\ calls' = calls /\ task' = task /\ requests' = requests /\ inbox' = inbox
    BY <1>4, <1>s, CallOrder DEF RecordTimeout, netVars
  <2>2. /\ step' \in [Calls -> 0 .. 5] /\ step'[r] = 4
        /\ \A q \in Calls : q # r => step'[q] = step[q]
    BY <2>1, <1>s, Advances
  <2>3. TypeOK'
    BY <1>f, <1>t, <2>1, <2>2 DEF TypeOK
  <2>4. OrderInv'
    BY <1>t, <2>1, <2>2, <1>y, Types DEF OrderInv, Threads
  <2>5. OwnerInv'
    BY <1>t, <2>1, <2>2, <1>y, Types DEF OrderInv, OwnerInv, Owns, Threads
  <2>6. TimerInv'
    BY <1>t, <2>1, <2>2, <1>y, Types DEF OrderInv, OwnerInv, TimerInv, Owns, Threads
  <2>7. SlotInv'
    BY <1>t, <2>1, <2>2, <1>y, Types
    DEF OrderInv, SlotInv, AnswerNotMissed, SlotDiesOnlyByTimeout, Threads
  <2> QED BY <2>3, <2>4, <2>5, <2>6, <2>7
<1>5. CASE Send(r)
  <2>1. /\ step[r] = 4 /\ Advance(r)
        /\ requests' \subseteq requests \cup {r}
        /\ slots' = slots /\ calls' = calls /\ task' = task /\ timeouts' = timeouts /\ inbox' = inbox
    BY <1>5, <1>s, CallOrder DEF Send, netVars
  <2>2. /\ step' \in [Calls -> 0 .. 5] /\ step'[r] = 5
        /\ \A q \in Calls : q # r => step'[q] = step[q]
    BY <2>1, <1>s, Advances
  <2>3. TypeOK'
    BY <1>f, <1>t, <2>1, <2>2 DEF TypeOK
  <2>4. OrderInv'
    BY <1>t, <2>1, <2>2, <1>y, Types DEF OrderInv, Threads
  <2>5. OwnerInv'
    BY <1>t, <2>1, <2>2, <1>y, Types DEF OrderInv, OwnerInv, Owns, Threads
  <2>6. TimerInv'
    BY <1>t, <2>1, <2>2, <1>y, Types DEF OrderInv, OwnerInv, TimerInv, Owns, Threads
  <2>7. SlotInv'
    BY <1>t, <2>1, <2>2, <1>y, Types
    DEF OrderInv, SlotInv, AnswerNotMissed, SlotDiesOnlyByTimeout, Threads
  <2> QED BY <2>3, <2>4, <2>5, <2>6, <2>7
<1> QED BY <1>1, <1>2, <1>3, <1>4, <1>5 DEF CallerNext

(* The server, the connection and the scheduler's collecting. *)
LEMMA OutsideInv ==
  ASSUME RpcInv,
         \/ \E r \in Calls, kind \in {"success", "error"} : Answer(r, kind)
         \/ Disconnect,
         TimeOK'
  PROVE  RpcInv'
<1> USE DEF RpcInv
<1>y. TypeOK
  OBVIOUS
<1>1. /\ step' = step /\ calls' = calls /\ slots' = slots /\ task' = task /\ timeouts' = timeouts
      /\ thread' = thread /\ handled' = handled /\ outcome' = outcome /\ crashed' = crashed
  BY DEF Answer, Disconnect, callVars, histVars
<1>2. connected' \in BOOLEAN
  BY <1>y, Zenon DEF Answer, Disconnect, TypeOK, FlagsOK
<1>3. FlagsOK'
  BY <1>y, <1>1, <1>2, Zenon DEF TypeOK, FlagsOK
<1>4. /\ requests' \subseteq requests
      /\ \A m \in inbox' : m \in inbox
            \/ \E r \in requests, kind \in {"success", "error"} : m = <<r, kind>>
  BY <1>y DEF Answer, Disconnect, TypeOK
<1>5. TypeOK'
  BY <1>y, <1>1, <1>3, <1>4 DEF TypeOK
<1>6. OrderInv'
  BY <1>y, <1>1, <1>4, Types DEF OrderInv
<1>7. OwnerInv' /\ TimerInv' /\ SlotInv'
  BY <1>1 DEF OwnerInv, TimerInv, SlotInv, Owns, AnswerNotMissed, SlotDiesOnlyByTimeout
<1> QED BY <1>5, <1>6, <1>7

LEMMA EmitInv ==
  ASSUME RpcInv, NEW r \in Calls, NEW kind \in {"success", "error"}, Emit(r, kind), TimeOK'
  PROVE  RpcInv'
<1> USE DEF RpcInv
<1>y. TypeOK
  OBVIOUS
<1>1. /\ step' = step /\ calls' = calls /\ slots' = slots /\ task' = task /\ timeouts' = timeouts
      /\ handled' = handled /\ outcome' = outcome /\ crashed' = crashed /\ connected' = connected
      /\ requests' = requests /\ inbox' \subseteq inbox
      /\ thread["application"] = Idle /\ step[r] = 5
  BY DEF Emit, callVars, histVars, OrderInv
<1>2. /\ thread'["application"] = [pc |-> "find", call |-> r, kind |-> kind,
                                 buffer |-> Listeners(r, kind), slot |-> r]
      /\ thread'["scheduler"] = thread["scheduler"]
      /\ thread'["application"] \in ApplicationState
      /\ thread' \in [Threads -> ApplicationState \cup SchedulerState]
  BY <1>y DEF Emit, Listeners, TypeOK, Threads, ApplicationState
<1>3. FlagsOK'
  BY <1>y, <1>1, Zenon DEF TypeOK, FlagsOK
<1>4. TypeOK'
  BY <1>y, <1>1, <1>2, <1>3 DEF TypeOK
<1>5. /\ thread'["application"].pc = "find" /\ thread'["application"].call = r
      /\ r \in slots => r \in thread'["application"].buffer
      /\ thread["application"].pc = "idle"
  BY <1>1, <1>2 DEF Idle, Listeners
<1>6. OrderInv'
  BY <1>1, <1>2, <1>5 DEF OrderInv
<1>7. OwnerInv'
  BY <1>1, <1>2, <1>5 DEF OwnerInv, Owns, Threads
<1>8. TimerInv'
  BY <1>1, <1>2, <1>5 DEF TimerInv, Owns, Threads
<1>9. SlotInv'
  BY <1>1, <1>2, <1>5 DEF SlotInv, AnswerNotMissed, SlotDiesOnlyByTimeout, OrderInv
<1> QED BY <1>4, <1>6, <1>7, <1>8, <1>9

(* The slot that is looked up next is called or, if it is gone, skipped.   *)
LEMMA FindSlotInv ==
  ASSUME RpcInv, NEW s \in Calls, FindSlot(s), TimeOK'
  PROVE  RpcInv'
<1> USE DEF RpcInv
<1>y. TypeOK
  OBVIOUS
<1> DEFINE h == thread["application"]
<1>1. /\ step' = step /\ calls' = calls /\ slots' = slots /\ task' = task /\ timeouts' = timeouts
      /\ outcome' = outcome /\ crashed' = crashed /\ connected' = connected
      /\ requests' = requests /\ inbox' = inbox /\ handled' = handled
      /\ h.pc = "find" /\ h # Idle /\ h.call \in Calls /\ step[h.call] = 5
  BY <1>y, Types DEF FindSlot, callVars, netVars, histVars, OrderInv, Threads
<1>2. FlagsOK'
  BY <1>y, <1>1, Zenon DEF TypeOK, FlagsOK
<1>3. /\ thread'["application"].pc = IF s \in slots THEN "slot" ELSE "find"
      /\ thread'["application"].call = h.call
      /\ thread'["application"].buffer = h.buffer \ {s}
      /\ thread'["application"].slot = s
      /\ thread'["application"] # Idle
      /\ thread'["scheduler"] = thread["scheduler"]
      /\ thread'["application"] \in ApplicationState
      /\ thread' \in [Threads -> ApplicationState \cup SchedulerState]
  BY <1>y, <1>1, ThreadStates DEF FindSlot, TypeOK, Threads, ApplicationState, Idle
<1>4. TypeOK'
  BY <1>y, <1>1, <1>2, <1>3 DEF TypeOK
<1>5. OrderInv'
  BY <1>1, <1>3 DEF OrderInv
<1>6. OwnerInv'
  BY <1>1, <1>3 DEF OwnerInv, Owns, Threads
<1>7. TimerInv'
  BY <1>1, <1>3 DEF TimerInv, Owns, Threads
<1>8. SlotInv'
  BY <1>1, <1>3 DEF SlotInv, OrderInv, AnswerNotMissed, SlotDiesOnlyByTimeout
<1> QED BY <1>4, <1>5, <1>6, <1>7, <1>8

LEMMA CallSlotInv ==
  ASSUME RpcInv, CallSlot, TimeOK'
  PROVE  RpcInv'
<1> USE DEF RpcInv
<1>y. TypeOK
  OBVIOUS
<1> DEFINE h == thread["application"]
           to == IF h.slot = h.call THEN "handle" ELSE "find"
<1>1. /\ step' = step /\ calls' = calls /\ slots' = slots /\ task' = task /\ timeouts' = timeouts
      /\ outcome' = outcome /\ handled' = handled /\ connected' = connected
      /\ requests' = requests /\ inbox' = inbox
      /\ h.pc = "slot" /\ h # Idle /\ h.call \in Calls
  BY <1>y, Types DEF CallSlot, callVars, netVars, Threads
<1>2. \/ thread' = thread
      \/ thread' = [thread EXCEPT !["application"].pc = to]
  BY DEF CallSlot
<1>3. crashed' \in BOOLEAN
  BY <1>y, Zenon DEF CallSlot, TypeOK, FlagsOK
<1>4. FlagsOK'
  BY <1>y, <1>1, <1>3, Zenon DEF TypeOK, FlagsOK
<1>5. /\ thread'["application"].pc \in {"slot", to}
      /\ thread'["application"].call = h.call
      /\ thread'["application"].buffer = h.buffer
      /\ thread'["application"].slot = h.slot
      /\ thread'["application"] # Idle
      /\ thread'["scheduler"] = thread["scheduler"]
      /\ thread'["application"] \in ApplicationState
      /\ thread' \in [Threads -> ApplicationState \cup SchedulerState]
  <2>1. CASE thread' = thread
    BY <1>y, <1>1, <2>1 DEF TypeOK, Threads
  <2>2. CASE thread' = [thread EXCEPT !["application"].pc = to]
    BY <1>y, <1>1, <2>2, ThreadStates DEF TypeOK, Threads, ApplicationState, Idle
  <2> QED BY <1>2, <2>1, <2>2
<1>6. TypeOK'
  BY <1>y, <1>1, <1>4, <1>5 DEF TypeOK
<1>7. OrderInv'
  BY <1>1, <1>5 DEF OrderInv
<1>8. OwnerInv'
  BY <1>1, <1>5 DEF OwnerInv, Owns, Threads
<1>9. TimerInv'
  BY <1>1, <1>5 DEF TimerInv, Owns, Threads
<1>10. SlotInv'
  BY <1>1, <1>5 DEF SlotInv, AnswerNotMissed, SlotDiesOnlyByTimeout
<1> QED BY <1>6, <1>7, <1>8, <1>9, <1>10

(* Emit is done when no slot is left, the one of the call included. *)
LEMMA EmitDoneInv ==
  ASSUME RpcInv, EmitDone, TimeOK'
  PROVE  RpcInv'
<1> USE DEF RpcInv
<1>y. TypeOK
  OBVIOUS
<1> DEFINE h == thread["application"]
<1>1. /\ step' = step /\ calls' = calls /\ slots' = slots /\ task' = task /\ timeouts' = timeouts
      /\ outcome' = outcome /\ crashed' = crashed /\ connected' = connected
      /\ requests' = requests /\ inbox' = inbox /\ handled' = handled \cup {h.call}
      /\ h.pc = "find" /\ h # Idle /\ h.call \in Calls /\ step[h.call] = 5 /\ h.buffer = {}
  BY <1>y, Types DEF EmitDone, callVars, netVars, OrderInv, Threads
<1>2. FlagsOK'
  BY <1>y, <1>1, Zenon DEF TypeOK, FlagsOK
<1>3. /\ thread'["application"].pc = "idle" /\ thread'["application"] = Idle
      /\ thread'["scheduler"] = thread["scheduler"]
      /\ thread'["application"] \in ApplicationState
      /\ thread' \in [Threads -> ApplicationState \cup SchedulerState]
  BY <1>y, <1>1 DEF EmitDone, TypeOK, Threads, ApplicationState, Idle
<1>4. TypeOK'
  BY <1>y, <1>1, <1>2, <1>3 DEF TypeOK
<1>5. OrderInv'
  BY <1>1, <1>3 DEF OrderInv
<1>6. OwnerInv'
  BY <1>1, <1>3 DEF OwnerInv, Owns, Threads
<1>7. TimerInv'
  BY <1>1, <1>3 DEF TimerInv, Owns, Threads
<1>8. SlotInv'
  BY <1>1, <1>3 DEF SlotInv, AnswerNotMissed, SlotDiesOnlyByTimeout
<1> QED BY <1>4, <1>5, <1>6, <1>7, <1>8

(* Time and the waiting of the scheduler thread. *)
LEMMA WaitInv ==
  ASSUME RpcInv, WakeUp \/ SpuriousWakeUp \/ WaitAgain \/ \E r \in Calls : Elapse(r), TimeOK'
  PROVE  RpcInv'
<1>1. /\ step' = step /\ calls' = calls /\ slots' = slots /\ task' = task /\ timeouts' = timeouts
      /\ connected' = connected /\ requests' = requests /\ inbox' = inbox /\ thread' = thread
      /\ handled' = handled /\ outcome' = outcome /\ crashed' = crashed
  BY DEF WakeUp, SpuriousWakeUp, WaitAgain, Elapse, callVars, netVars, histVars
<1>2. FlagsOK'
  BY <1>1, Zenon DEF RpcInv, TypeOK, FlagsOK
<1>3. TypeOK'
  BY <1>1, <1>2 DEF RpcInv, TypeOK
<1>4. OrderInv' /\ OwnerInv' /\ TimerInv' /\ SlotInv'
  BY <1>1 DEF RpcInv, OrderInv, OwnerInv, TimerInv, SlotInv, Owns, AnswerNotMissed,
     SlotDiesOnlyByTimeout
<1> QED BY <1>3, <1>4 DEF RpcInv

LEMMA CollectInv ==
  ASSUME RpcInv, CollectTimeouts, TimeOK'
  PROVE  RpcInv'
<1> USE DEF RpcInv
<1>y. TypeOK
  OBVIOUS
<1>1. /\ step' = step /\ calls' = calls /\ slots' = slots /\ timeouts' = timeouts
      /\ outcome' = outcome /\ handled' = handled /\ connected' = connected /\ crashed' = crashed
      /\ requests' = requests /\ inbox' = inbox /\ thread' = thread
  BY DEF CollectTimeouts, netVars, histVars
<1>2. FlagsOK'
  BY <1>y, <1>1, Zenon DEF TypeOK, FlagsOK
<1>3. /\ task' \in [Calls -> {"none", "scheduled", "collected", "ran", "removed"}]
      /\ \A q \in Calls : task'[q] # task[q] => task[q] = "scheduled" /\ task'[q] = "collected"
  BY <1>y DEF CollectTimeouts, Pending, TypeOK
<1>4. TypeOK'
  BY <1>y, <1>1, <1>2, <1>3 DEF TypeOK
<1>5. OrderInv'
  BY <1>1, <1>y, <1>3, Types DEF OrderInv, Threads
<1>6. OwnerInv'
  BY <1>1 DEF OwnerInv, Owns
<1>7. TimerInv'
  BY <1>y, <1>1, <1>3, Types DEF TimerInv, Owns, Threads
<1>8. SlotInv'
  <2>1. ASSUME thread["application"].pc = "slot" PROVE thread["application"].slot \in Calls
    BY <1>y, <2>1, Types
  <2> QED BY <1>1, <1>3, <2>1 DEF SlotInv, AnswerNotMissed, SlotDiesOnlyByTimeout
<1> QED BY <1>4, <1>5, <1>6, <1>7, <1>8

LEMMA RunTimeoutInv ==
  ASSUME RpcInv, NEW r \in Calls, RunTimeout(r), TimeOK'
  PROVE  RpcInv'
<1> USE DEF RpcInv
<1>y. TypeOK
  OBVIOUS
<1>1. /\ step' = step /\ calls' = calls /\ slots' = slots /\ timeouts' = timeouts
      /\ outcome' = outcome /\ handled' = handled /\ connected' = connected /\ crashed' = crashed
      /\ requests' = requests /\ inbox' = inbox
  BY DEF RunTimeout, netVars, histVars
<1>2. FlagsOK'
  BY <1>y, <1>1, Zenon DEF TypeOK, FlagsOK
<1>3. /\ task[r] = "collected" /\ task'[r] = "ran" /\ thread["scheduler"] = Idle
      /\ \A q \in Calls : q # r => task'[q] = task[q]
      /\ task' \in [Calls -> {"none", "scheduled", "collected", "ran", "removed"}]
      /\ thread'["scheduler"] = [pc |-> "handle", call |-> r, kind |-> "timeout"]
      /\ thread'["application"] = thread["application"]
      /\ thread'["scheduler"] \in SchedulerState
      /\ thread' \in [Threads -> ApplicationState \cup SchedulerState]
  BY <1>y DEF RunTimeout, TypeOK, Threads, SchedulerState
<1>4. thread'["scheduler"].pc = "handle" /\ thread'["scheduler"].call = r
  BY <1>3
<1>5. TypeOK'
  BY <1>y, <1>1, <1>2, <1>3 DEF TypeOK
<1>6. OrderInv'
  BY <1>1, <1>y, <1>3, <1>4, Types DEF OrderInv, Threads
<1>7. OwnerInv'
  BY <1>1, <1>3, <1>4 DEF OwnerInv, Owns, Threads
<1>8. TimerInv'
  BY <1>y, <1>1, <1>3, Types DEF TimerInv, Owns, Threads
<1>9. SlotInv'
  <2>1. ASSUME thread["application"].pc = "slot" PROVE thread["application"].slot \in Calls
    BY <1>y, <2>1, Types
  <2> QED BY <1>1, <1>3, <2>1 DEF SlotInv, AnswerNotMissed, SlotDiesOnlyByTimeout
<1> QED BY <1>5, <1>6, <1>7, <1>8, <1>9

(* Whoever erases the call goes on as its owner, the other one leaves. *)
LEMMA EraseCallInv ==
  ASSUME RpcInv, NEW t \in Threads, EraseCall(t), TimeOK'
  PROVE  RpcInv'
<1> USE DEF RpcInv
<1>y. TypeOK
  OBVIOUS
<1> DEFINE r == thread[t].call
<1>1. /\ step' = step /\ task' = task /\ timeouts' = timeouts
      /\ outcome' = outcome /\ handled' = handled /\ connected' = connected /\ crashed' = crashed
      /\ requests' = requests /\ inbox' = inbox
      /\ thread[t].pc = "handle" /\ calls' = calls \ {r}
      /\ slots' = IF r \in calls THEN slots \ {r} ELSE slots
  BY DEF EraseCall, netVars, histVars
<1>2. FlagsOK'
  BY <1>y, <1>1, Zenon DEF TypeOK, FlagsOK
<1>3. CASE r \in calls
  <2>1. /\ thread' \in [Threads -> ApplicationState \cup SchedulerState]
        /\ thread'["application"] \in ApplicationState
        /\ thread'["scheduler"] \in SchedulerState
        /\ thread'[t].pc = "cancel" /\ thread'[t].call = r /\ thread'[t] # Idle
        /\ r \in Calls /\ thread[t] # Idle
        /\ \A u \in Threads : u # t => thread'[u] = thread[u]
    BY <1>y, <1>1, <1>3, GoesOn DEF EraseCall
  <2>2. TypeOK'
    BY <1>y, <1>1, <1>2, <2>1 DEF TypeOK
  <2>3. OrderInv'
    BY <1>1, <1>3, <1>y, <2>1, Types DEF OrderInv, Threads
  <2>4. OwnerInv'
    BY <1>1, <1>3, <2>1 DEF OwnerInv, Owns, Threads
  <2>5. TimerInv'
    BY <1>1, <1>3, <1>y, <2>1, Types DEF TimerInv, OrderInv, Owns, Threads
  <2>6. SlotInv'
    BY <1>1, <1>3, <1>y, <2>1, Types DEF SlotInv, OrderInv, AnswerNotMissed, SlotDiesOnlyByTimeout, Threads
  <2> QED BY <2>2, <2>3, <2>4, <2>5, <2>6
<1>4. CASE r \notin calls
  <2>1. /\ thread' \in [Threads -> ApplicationState \cup SchedulerState]
        /\ thread'["application"] \in ApplicationState
        /\ thread'["scheduler"] \in SchedulerState
        /\ r \in Calls /\ thread[t] # Idle
        /\ t = "application" => thread'[t].pc = "find" /\ thread'[t] # Idle /\ thread'[t].call = r
        /\ t = "scheduler" => thread'[t].pc = "idle" /\ thread'[t] = Idle
        /\ thread'[t].pc \notin {"cancel", "remove", "callback", "slot"}
        /\ \A u \in Threads : u # t => thread'[u] = thread[u]
    BY <1>y, <1>1, <1>4, HandlerReturns DEF EraseCall
  <2>2. calls' = calls /\ slots' = slots
    BY <1>1, <1>4
  <2>3. TypeOK'
    BY <1>y, <1>1, <1>2, <2>1, <2>2 DEF TypeOK
  <2>4. OrderInv'
    BY <1>1, <1>y, <2>1, <2>2, Types DEF OrderInv, Threads
  <2>5. OwnerInv'
    BY <1>1, <2>1, <2>2 DEF OwnerInv, Owns, Threads
  <2>6. TimerInv'
    BY <1>1, <2>1, <2>2 DEF TimerInv, Owns, Threads
  <2>7. SlotInv'
    BY <1>1, <1>4, <2>1, <2>2 DEF SlotInv, AnswerNotMissed, SlotDiesOnlyByTimeout, Threads
  <2> QED BY <2>3, <2>4, <2>5, <2>6, <2>7
<1> QED BY <1>3, <1>4

LEMMA CancelTimeoutInv ==
  ASSUME RpcInv, NEW t \in Threads, CancelTimeout(t), TimeOK'
  PROVE  RpcInv'
<1> USE DEF RpcInv
<1>y. TypeOK
  OBVIOUS
<1> DEFINE r == thread[t].call
           to == IF r \in timeouts THEN "remove" ELSE "callback"
<1>1. /\ step' = step /\ task' = task /\ timeouts' = timeouts \ {r}
      /\ outcome' = outcome /\ handled' = handled /\ connected' = connected /\ crashed' = crashed
      /\ requests' = requests /\ inbox' = inbox /\ calls' = calls /\ slots' = slots
      /\ thread[t].pc = "cancel" /\ Goes(t, to)
  BY DEF CancelTimeout, netVars, histVars
<1>2. FlagsOK'
  BY <1>y, <1>1, Zenon DEF TypeOK, FlagsOK
<1>3. /\ thread' \in [Threads -> ApplicationState \cup SchedulerState]
      /\ thread'["application"] \in ApplicationState
      /\ thread'["scheduler"] \in SchedulerState
      /\ thread'[t].pc = to /\ thread'[t].call = r /\ thread'[t] # Idle
      /\ r \in Calls /\ thread[t] # Idle
      /\ \A u \in Threads : u # t => thread'[u] = thread[u]
  <2>1. to \in {"cancel", "remove", "callback"}
    OBVIOUS
  <2> HIDE DEF to
  <2> QED BY <1>y, <1>1, <2>1, GoesOn
<1>4. TypeOK'
  BY <1>y, <1>1, <1>2, <1>3 DEF TypeOK
<1>5. OrderInv'
  BY <1>1, <1>y, <1>3, Types DEF OrderInv, Threads
<1>6. OwnerInv'
  BY <1>1, <1>3 DEF OwnerInv, Owns, Threads
<1>7. TimerInv'
  <2>1. CASE t = "application"
    BY <1>1, <1>3, <1>y, <2>1, Types DEF TimerInv, OrderInv, OwnerInv, Owns, Threads
  <2>2. CASE t = "scheduler"
    BY <1>1, <1>3, <1>y, <2>2, Types DEF TimerInv, OwnerInv, Owns, Threads
  <2> QED BY <2>1, <2>2 DEF Threads
<1>8. SlotInv'
  BY <1>1, <1>3 DEF SlotInv, AnswerNotMissed, SlotDiesOnlyByTimeout, Threads
<1> QED BY <1>4, <1>5, <1>6, <1>7, <1>8

LEMMA RemoveTaskInv ==
  ASSUME RpcInv, NEW t \in Threads, RemoveTask(t), TimeOK'
  PROVE  RpcInv'
<1> USE DEF RpcInv
<1>y. TypeOK
  OBVIOUS
<1> DEFINE r == thread[t].call
<1>1. /\ step' = step /\ timeouts' = timeouts
      /\ outcome' = outcome /\ handled' = handled /\ connected' = connected /\ crashed' = crashed
      /\ requests' = requests /\ inbox' = inbox /\ calls' = calls /\ slots' = slots
      /\ thread[t].pc = "remove" /\ Goes(t, "callback")
      /\ task' = [task EXCEPT ![r] = IF @ = "scheduled" THEN "removed" ELSE @]
  BY DEF RemoveTask, netVars, histVars
<1>2. FlagsOK'
  BY <1>y, <1>1, Zenon DEF TypeOK, FlagsOK
<1>3. /\ thread' \in [Threads -> ApplicationState \cup SchedulerState]
      /\ thread'["application"] \in ApplicationState
      /\ thread'["scheduler"] \in SchedulerState
      /\ thread'[t].pc = "callback" /\ thread'[t].call = r /\ thread'[t] # Idle
      /\ r \in Calls /\ thread[t] # Idle
      /\ \A u \in Threads : u # t => thread'[u] = thread[u]
  BY <1>y, <1>1, GoesOn
<1>4. /\ task' \in [Calls -> {"none", "scheduled", "collected", "ran", "removed"}]
      /\ task'[r] # "scheduled" /\ task[r] # "scheduled" => task'[r] = task[r]
      /\ task[r] = "scheduled" => task'[r] = "removed"
      /\ \A q \in Calls : q # r => task'[q] = task[q]
  BY <1>y, <1>1, <1>3 DEF TypeOK
<1>5. TypeOK'
  BY <1>y, <1>1, <1>2, <1>3, <1>4 DEF TypeOK
<1>6. OrderInv'
  BY <1>1, <1>y, <1>3, <1>4, Types DEF OrderInv, Threads
<1>7. OwnerInv'
  BY <1>1, <1>3 DEF OwnerInv, Owns, Threads
<1>8. TimerInv'
  BY <1>1, <1>3, <1>4 DEF TimerInv, Owns, Threads
<1>9. SlotInv'
  BY <1>1, <1>y, <1>3, <1>4, Types DEF SlotInv, AnswerNotMissed, SlotDiesOnlyByTimeout, Threads
<1> QED BY <1>5, <1>6, <1>7, <1>8, <1>9

LEMMA RunCallbackInv ==
  ASSUME RpcInv, NEW t \in Threads, RunCallback(t), TimeOK'
  PROVE  RpcInv'
<1> USE DEF RpcInv
<1>y. TypeOK
  OBVIOUS
<1> DEFINE r == thread[t].call
           k == thread[t].kind
<1>1. /\ step' = step /\ task' = task /\ timeouts' = timeouts
      /\ handled' = handled /\ connected' = connected /\ crashed' = crashed
      /\ requests' = requests /\ inbox' = inbox /\ calls' = calls /\ slots' = slots
      /\ thread[t].pc = "callback" /\ Returns(t)
      /\ outcome' = [outcome EXCEPT ![r] = Append(@, k)]
  BY DEF RunCallback, callVars, netVars
<1>2. FlagsOK'
  BY <1>y, <1>1, Zenon DEF TypeOK, FlagsOK
<1>3. /\ thread' \in [Threads -> ApplicationState \cup SchedulerState]
      /\ thread'["application"] \in ApplicationState
      /\ thread'["scheduler"] \in SchedulerState
      /\ r \in Calls /\ k \in Kinds /\ thread[t] # Idle
      /\ t = "application" => thread'[t].pc = "find" /\ thread'[t] # Idle /\ thread'[t].call = r
      /\ t = "scheduler" => thread'[t].pc = "idle" /\ thread'[t] = Idle
      /\ thread'[t].pc \notin {"cancel", "remove", "callback", "slot"}
      /\ \A u \in Threads : u # t => thread'[u] = thread[u]
  BY <1>y, <1>1, HandlerReturns
<1>4. r \notin calls /\ outcome[r] = <<>> /\ step[r] >= 3
  BY <1>y, <1>1, <1>3, OwnedIsMade DEF OwnerInv, Owns
<1>5. /\ outcome' \in [Calls -> Seq(Kinds)]
      /\ outcome'[r] = <<k>> /\ outcome'[r] # <<>>
      /\ \A q \in Calls : q # r => outcome'[q] = outcome[q]
  BY <1>y, <1>1, <1>3, <1>4 DEF TypeOK
<1>6. TypeOK'
  BY <1>y, <1>1, <1>2, <1>3, <1>5 DEF TypeOK
<1>7. OrderInv'
  BY <1>1, <1>y, <1>3, Types DEF OrderInv, Threads
<1>8. OwnerInv'
  <2>1. \A u \in Threads, q \in Calls : Owns(u, q)' => u # t /\ Owns(u, q) /\ q # r
    BY <1>1, <1>3 DEF Owns, OwnerInv, Threads
  <2>2. \A q \in calls' : outcome'[q] = <<>>
    BY <1>1, <1>y, <1>4, <1>5, Types DEF OwnerInv
  <2>3. \A q \in Calls : outcome'[q] # <<>> => step'[q] >= 2 /\ \E x \in Kinds : outcome'[q] = <<x>>
    BY <1>1, <1>y, <1>3, <1>4, <1>5, Types DEF OwnerInv
  <2> QED BY <1>1, <1>5, <2>1, <2>2, <2>3 DEF OwnerInv, Threads
<1>9. TimerInv'
  <2>1. CASE t = "application"
    <3>1. k # "timeout"
      BY <1>y, <1>3, <2>1, ThreadStates
    <3>2. <<k>> # <<"timeout">>
      BY <3>1
    <3> QED BY <1>1, <1>3, <1>4, <1>5, <2>1, <3>2 DEF TimerInv, OrderInv, OwnerInv, Owns, Threads
  <2>2. CASE t = "scheduler"
    <3>1. k = "timeout"
      BY <1>y, <1>3, <2>2, ThreadStates
    <3> QED BY <1>1, <1>3, <1>4, <1>5, <2>2, <3>1 DEF TimerInv, OrderInv, OwnerInv, Owns, Threads
  <2> QED BY <2>1, <2>2 DEF Threads
<1>10. SlotInv'
  BY <1>1, <1>3, <1>4 DEF SlotInv, AnswerNotMissed, SlotDiesOnlyByTimeout, Threads
<1> QED BY <1>6, <1>7, <1>8, <1>9, <1>10

-----------------------------------------------------------------------------

LEMMA RpcInvStep == RpcInv /\ [Next]_vars => RpcInv'
<1> SUFFICES ASSUME RpcInv, [Next]_vars PROVE RpcInv'
  OBVIOUS
<1>1. CASE Next
  <2>1. TimeOK'
    BY <1>1, TimeStep DEF RpcInv
  <2> QED
    BY <1>1, <2>1, CallerInv, OutsideInv, EmitInv, FindSlotInv, CallSlotInv, EmitDoneInv, WaitInv,
       CollectInv, RunTimeoutInv, EraseCallInv, CancelTimeoutInv, RemoveTaskInv, RunCallbackInv
    DEF Next, ApplicationNext, SchedulerNext, HandleCallback, Threads
<1>2. CASE UNCHANGED vars
  BY <1>2 DEF vars, callVars, timeVars, netVars, histVars, RpcInv, TypeOK, TimeOK, FlagsOK, OrderInv, OwnerInv,
     TimerInv, SlotInv, Owns, AnswerNotMissed, SlotDiesOnlyByTimeout, ApplicationState, SchedulerState
<1> QED BY <1>1, <1>2

(* Whatever calls, answers, timeouts and the loss of the connection        *)
(* interleave, the invariant on calls_, timeouts_, slots and threads holds.*)
THEOREM RpcInvariant == Spec => []RpcInv
BY InitRpcInv, RpcInvStep, PTL DEF Spec

(* HandleCallback runs one callback of a call at most: of the answer and   *)
(* the timeout, the one that erases the call from calls_ wins.             *)
THEOREM OneOutcome == Spec => []AtMostOneCallback
<1>1. RpcInv => AtMostOneCallback
  <2> SUFFICES ASSUME RpcInv, NEW r \in Calls PROVE Len(outcome[r]) <= 1
    BY DEF AtMostOneCallback
  <2>1. CASE outcome[r] = <<>>
    <3>1. Len(<<>>) = 0
      OBVIOUS
    <3> QED BY <2>1, <3>1
  <2>2. CASE outcome[r] # <<>>
    <3>1. PICK k \in Kinds : outcome[r] = <<k>>
      BY <2>2 DEF RpcInv, OwnerInv
    <3>2. Len(<<k>>) = 1
      OBVIOUS
    <3> QED BY <3>1, <3>2
  <2> QED BY <2>1, <2>2
<1> QED BY <1>1, RpcInvariant, PTL

(* Emit never drops the answer to a call that is still registered: Call    *)
(* subscribes before it sends, and slots die with their call only.         *)
THEOREM AnswersReachTheirCall == Spec => []AnswerNotMissed
<1>1. RpcInv => AnswerNotMissed
  BY DEF RpcInv, SlotInv
<1> QED BY <1>1, RpcInvariant, PTL

(* CancelTimeout leaves no scheduled timeout of a settled call behind, and *)
(* an entry of timeouts_ only if the timeout overtook Call.                *)
THEOREM TimersAreCancelled == Spec => []TimerCancelled
<1>1. RpcInv => TimerCancelled
  BY DEF RpcInv, TimerInv, TimerCancelled
<1> QED BY <1>1, RpcInvariant, PTL

(* A slot the application thread is in, whichever call it was called for,  *)
(* is destroyed by the timeout of the call that subscribed it, on the      *)
(* scheduler thread, and by nothing else.                                  *)
THEOREM SlotsAreSafeOtherwise == Spec => []SlotDiesOnlyByTimeout
<1>1. RpcInv => SlotDiesOnlyByTimeout
  BY DEF RpcInv, SlotInv
<1> QED BY <1>1, RpcInvariant, PTL

(* A timeout that no wake-up time of the scheduler covers was added while  *)
(* ProcessTasks had released its mutex, for callbacks or for none: no      *)
(* other order of ScheduleAfter, RemoveTask and ProcessTasks forgets one.  *)
THEOREM OnlyLateTimeoutsAreMissed == Spec => []WakeInv
<1>1. Init => WakeInv
  BY DEF Init, WakeInv, Pending
<1>2. RpcInv /\ WakeInv /\ [Next]_vars => WakeInv'
  <2> SUFFICES ASSUME RpcInv, WakeInv, [Next]_vars PROVE WakeInv'
    OBVIOUS
  <2>t. task \in [Calls -> {"none", "scheduled", "collected", "ran", "removed"}]
    BY DEF RpcInv, TypeOK
  <2>1. CASE /\ watched' = watched /\ late' = late
             /\ loop' = "scan" \/ loop # "scan"
             /\ \A r \in Calls : task'[r] = "scheduled" => task[r] = "scheduled"
    BY <2>1 DEF WakeInv, Pending
  <2>2. CASE UNCHANGED <<watched, late, loop>>
             /\ \A r \in Calls : task'[r] = "scheduled" => task[r] = "scheduled"
    BY <2>2 DEF WakeInv, Pending
  <2>3. CASE CollectTimeouts
    BY <2>3 DEF CollectTimeouts, WakeInv, Pending
  <2>4. ASSUME NEW r \in Calls, ScheduleTimeout(r) PROVE WakeInv'
    <3>1. CASE ~ UNCHANGED <<task, loop, late>>
      <4>1. /\ task' = [task EXCEPT ![r] = "scheduled"] /\ watched' = watched /\ Notify
            /\ late' = IF loop = "run" THEN late \cup {r} ELSE late
        BY <2>4, <3>1 DEF ScheduleTimeout
      <4>2. Pending' \subseteq Pending \cup {r}
        BY <2>t, <4>1 DEF Pending
      <4>3. loop \in {"wait", "scan", "run"}
        BY DEF RpcInv, TypeOK, TimeOK
      <4> QED BY <4>1, <4>2, <4>3 DEF Notify, WakeInv
    <3>2. CASE UNCHANGED <<task, loop, late>>
      BY <2>2, <2>4, <3>2 DEF ScheduleTimeout
    <3> QED BY <3>1, <3>2
  <2>5. ASSUME NEW t \in Threads, RemoveTask(t) PROVE WakeInv'
    <3>1. \A r \in Calls : task'[r] = "scheduled" => task[r] = "scheduled"
      BY <2>t, <2>5 DEF RemoveTask
    <3> QED BY <2>5, <3>1 DEF RemoveTask, Notify, WakeInv, Pending
  <2>6. CASE \E r \in Calls : RunTimeout(r)
    BY <2>2, <2>6, <2>t DEF RunTimeout, timeVars
  <2>7. CASE WakeUp \/ SpuriousWakeUp \/ WaitAgain
    BY <2>1, <2>7 DEF WakeUp, SpuriousWakeUp, WaitAgain, callVars
  <2>8. CASE UNCHANGED vars \/ \E r \in Calls : Elapse(r)
    BY <2>2, <2>8 DEF vars, callVars, timeVars, Elapse
  <2>9. CASE \/ \E r \in Calls : Subscribe(r) \/ Register(r) \/ RecordTimeout(r) \/ Send(r) \/ FindSlot(r)
             \/ \E r \in Calls, kind \in {"success", "error"} : Emit(r, kind) \/ Answer(r, kind)
             \/ Disconnect \/ CallSlot \/ EmitDone
             \/ \E t \in Threads : EraseCall(t) \/ CancelTimeout(t) \/ RunCallback(t)
    BY <2>2, <2>9
    DEF Subscribe, Register, RecordTimeout, Send, FindSlot, Emit, Answer, Disconnect, CallSlot,
        EmitDone, EraseCall, CancelTimeout, RunCallback, callVars, timeVars
  <2> QED
    BY <2>3, <2>4, <2>5, <2>6, <2>7, <2>8, <2>9
    DEF Next, CallerNext, ApplicationNext, SchedulerNext, HandleCallback, Threads
<1> QED BY <1>1, <1>2, RpcInvariant, PTL DEF Spec

=============================================================================
