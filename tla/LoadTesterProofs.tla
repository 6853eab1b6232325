-------------------------- MODULE LoadTesterProofs --------------------------
(***************************************************************************)
(* Proofs about LoadTester, for any number of test clients and chats: the  *)
(* report is of a whole test and is seen, and a round trip is negative     *)
(* only if its echo overtook the recording of its send.                    *)
(***************************************************************************)
EXTENDS LoadTester, FiniteSetTheorems, SequenceTheorems, TLAPS

Stages ==
  {"new", "connect", "failed", "create", "authenticate", "enter", "ready", "refused", "timed out"}

(* The test clients are made by the root client when it is ready. *)
StageInv ==
  /\ stage \in [Clients -> Stages]
  /\ connected = {c \in Testers : stage[c] = "ready"}
  /\ stage[Root] = "ready" => clients = Testers
  /\ stage[Root] # "ready" => clients = {} /\ \A c \in Testers : stage[c] = "new"

AllReady == \A c \in Clients : stage[c] = "ready"

(* Nothing is scheduled before the last client is ready; from then on no   *)
(* call is pending that could fail.                                        *)
TestInv == tasks # {} \/ sched # <<"idle">> => AllReady

(* The evaluation has been and will not be again. *)
Finished == AllReady /\ sched # <<"evaluate">> /\ <<"evaluate">> \notin tasks

(* The program is told to quit by the evaluation, or by a call that failed *)
(* and whose client therefore never gets ready.                            *)
QuitInv ==
  ~ logger \/ ~ running => Finished \/ \E c \in Clients : stage[c] \in {"refused", "timed out"}

ReportInv == report # None => Finished /\ report.logged

FullInv == StageInv /\ TestInv /\ QuitInv /\ ReportInv

-----------------------------------------------------------------------------

LEMMA Names ==
  /\ \A c : <<"send", c>> # <<"evaluate">> /\ <<"start", c>> # <<"evaluate">>
  /\ \A c, i : <<"send", c, i>> # <<"evaluate">> /\ <<"send", c, i>> # <<"idle">>
  /\ <<"idle">> # <<"evaluate">>
<1>1. ASSUME NEW c, NEW i
      PROVE  /\ <<"send", c>>[1] = "send" /\ <<"start", c>>[1] = "start" /\ <<"send", c, i>>[1] = "send"
             /\ <<"evaluate">>[1] = "evaluate" /\ <<"idle">>[1] = "idle"
  OBVIOUS
<1>2. <<"idle">>[1] = "idle" /\ <<"evaluate">>[1] = "evaluate" /\ "idle" # "evaluate"
  OBVIOUS
<1>3. ASSUME NEW c PROVE <<"send", c>> # <<"evaluate">> /\ <<"start", c>> # <<"evaluate">>
  BY <1>1
<1>4. ASSUME NEW c, NEW i PROVE <<"send", c, i>> # <<"evaluate">> /\ <<"send", c, i>> # <<"idle">>
  BY <1>1
<1> QED BY <1>2, <1>3, <1>4

LEMMA ClientFacts == Root \in Clients /\ Root \notin Testers /\ Testers \subseteq Clients
BY LoadTesterAssumption DEF Clients

LEMMA FullInit == Init => FullInv
<1> SUFFICES ASSUME Init PROVE FullInv
  OBVIOUS
<1>1. StageInv
  BY ClientFacts DEF Init, StageInv, Stages, Clients
<1> QED BY <1>1 DEF Init, FullInv, TestInv, QuitInv, ReportInv

(* Once all are ready, what one client or the server does leaves the       *)
(* stages as they are.                                                     *)
LEMMA ReadyStays ==
  ASSUME FullInv, Next, AllReady
  PROVE  /\ UNCHANGED <<stage, clients, connected>>
         /\ Report \/ UNCHANGED <<logger, running>>
<1>1. \A c \in Clients : stage[c] \notin {"connect", "create", "authenticate", "enter"}
  BY DEF AllReady
<1>2. CASE \E c \in Clients : IoNext(c) \/ AppNext(c) \/ Timeout(c)
  BY <1>1, <1>2, ClientFacts DEF IoNext, OnConnected, OnConnectionFailed, OnDisconnected, AppNext, OnUserEnsured, OnPrepared,
     OnJoined, OnError, Timeout, Continue
<1>3. CASE HandleRootClientReady
  BY <1>1, <1>3, ClientFacts DEF HandleRootClientReady
<1>4. CASE ReceiveChat \/ SchedulerNext
  BY <1>4 DEF ReceiveChat, SchedulerNext, Start, Send, RecordSend, Evaluate, Report, prepVars, Continue
<1> QED BY <1>2, <1>3, <1>4 DEF Next

(* The steps of the preparation: a client goes on to a stage that is not   *)
(* "ready", and nothing is scheduled.                                      *)
LEMMA Preparing ==
  ASSUME FullInv, NEW c \in Clients, NEW to \in Stages \ {"new", "ready"}, stage[c] \notin {"new", "ready"},
         Advance(c, to), UNCHANGED <<clients, connected, testVars>>,
         \/ Continue /\ stage[c] \notin {"refused", "timed out"}
         \/ to \in {"refused", "timed out"}
  PROVE  FullInv'
<1>1. stage' = [stage EXCEPT ![c] = to] /\ stage \in [Clients -> Stages]
  BY DEF Advance, FullInv, StageInv
<1>2. ~ AllReady /\ ~ AllReady'
  <2>1. stage'[c] # "ready"
    BY <1>1 DEF Stages
  <2> QED BY <2>1 DEF AllReady, Clients
<1>3. StageInv'
  <2>1. stage' \in [Clients -> Stages]
    BY <1>1
  <2>2. \A d \in Clients : (stage'[d] = "ready" <=> stage[d] = "ready") /\ (stage[d] = "new" => stage'[d] = "new")
    BY <1>1
  <2>3. \A d \in Testers : stage'[d] = "ready" <=> stage[d] = "ready"
    BY <2>2, ClientFacts
  <2>4. connected' = {d \in Testers : stage'[d] = "ready"}
    BY <2>3 DEF FullInv, StageInv
  <2> QED BY <2>1, <2>2, <2>4, ClientFacts DEF FullInv, StageInv, Clients
<1>4. TestInv'
  BY <1>2 DEF FullInv, TestInv, testVars
<1>5. QuitInv'
  <2>1. CASE Continue /\ stage[c] \notin {"refused", "timed out"}
    BY <1>1, <1>2, <2>1 DEF Continue, FullInv, QuitInv, Finished, Clients
  <2>2. CASE to \in {"refused", "timed out"}
    BY <1>1, <2>2 DEF QuitInv, Clients
  <2> QED BY <2>1, <2>2
<1>6. ReportInv'
  BY <1>2 DEF FullInv, ReportInv, Finished, testVars
<1> QED BY <1>3, <1>4, <1>5, <1>6 DEF FullInv

LEMMA FullStep == FullInv /\ [Next]_vars => FullInv'
<1> SUFFICES ASSUME FullInv, [Next]_vars PROVE FullInv'
  OBVIOUS
<1>1. CASE UNCHANGED vars
  BY <1>1 DEF FullInv, StageInv, TestInv, QuitInv, ReportInv, Finished, AllReady, Clients, vars, prepVars, testVars
<1>2. CASE Next /\ AllReady
  <2>1. UNCHANGED <<stage, clients, connected>> /\ (Report \/ UNCHANGED <<logger, running>>)
    BY <1>2, ReadyStays
  <2>2. StageInv' /\ TestInv' /\ AllReady'
    BY <1>2, <2>1 DEF FullInv, StageInv, TestInv, AllReady, Clients
  <2>3. Finished => Finished'
    <3>1. SUFFICES ASSUME Finished PROVE sched' # <<"evaluate">> /\ <<"evaluate">> \notin tasks'
      BY <2>2 DEF Finished
    <3>2. CASE SchedulerNext
      BY <3>1, <3>2, Names DEF Finished, SchedulerNext, Start, Send, RecordSend, Evaluate, Report
    <3>3. CASE ReceiveChat
      BY <3>1, <3>3 DEF Finished, ReceiveChat
    <3>4. CASE HandleRootClientReady
      BY <3>1, <3>4 DEF Finished, HandleRootClientReady, testVars
    <3>5. CASE \E c \in Clients : IoNext(c) \/ AppNext(c) \/ Timeout(c)
      <4>1. \A c \in Clients : ~ OnJoined(c)
        BY <1>2 DEF AllReady, OnJoined
      <4> QED BY <3>1, <3>5, <4>1 DEF Finished, IoNext, OnConnected, OnConnectionFailed, OnDisconnected, AppNext,
               OnUserEnsured, OnPrepared, OnError, Timeout, testVars
    <3> QED BY <1>2, <3>2, <3>3, <3>4, <3>5 DEF Next
  <2>4. \A c \in Clients : stage[c] \notin {"refused", "timed out"}
    BY <1>2 DEF AllReady
  <2>5. CASE Report
    <3>1. ~ Finished
      BY <2>5 DEF Report, Finished
    <3>2. logger
      BY <2>4, <3>1 DEF FullInv, QuitInv
    <3>3. Finished'
      BY <2>2, <2>5, Names DEF Report, Finished
    <3>4. report'.logged
      BY <2>5, <3>2 DEF Report
    <3> QED BY <2>2, <3>3, <3>4 DEF FullInv, QuitInv, ReportInv
  <2>6. CASE UNCHANGED <<logger, running>> /\ ~ Report
    <3>1. UNCHANGED report
      BY <1>2, <2>6 DEF Next, IoNext, OnConnected, OnConnectionFailed, OnDisconnected, AppNext, OnUserEnsured, OnPrepared,
         OnJoined, OnError, Timeout, HandleRootClientReady, ReceiveChat, SchedulerNext, Start, Send, RecordSend, Evaluate, testVars
    <3>2. QuitInv'
      BY <2>3, <2>4, <2>6 DEF FullInv, QuitInv
    <3>3. ReportInv'
      BY <2>3, <3>1 DEF FullInv, ReportInv
    <3> QED BY <2>2, <3>2, <3>3 DEF FullInv
  <2> QED BY <2>1, <2>5, <2>6
<1>3. CASE Next /\ ~ AllReady
  <2>1. tasks = {} /\ sched = <<"idle">>
    BY <1>3 DEF FullInv, TestInv
  <2>2. CASE \E c \in Clients : OnConnected(c) \/ OnConnectionFailed(c)
    BY <2>2, Preparing DEF OnConnected, OnConnectionFailed, Call, Stages
  <2>3. CASE \E c \in Clients : OnUserEnsured(c) \/ OnPrepared(c)
    BY <2>3, Preparing DEF OnUserEnsured, OnPrepared, Call, Stages
  <2>4. CASE \E c \in Clients : OnError(c) \/ Timeout(c)
    BY <2>4, Preparing DEF OnError, Timeout, Stages
  <2>5. CASE \E c \in Clients : OnDisconnected(c)
    <3>1. UNCHANGED <<stage, clients, connected, testVars, logger, running>>
      BY <2>5 DEF OnDisconnected, Continue
    <3> QED BY <3>1 DEF FullInv, StageInv, TestInv, QuitInv, ReportInv, Finished, AllReady, Clients, testVars
  <2>6. CASE ReceiveChat
    BY <2>6 DEF ReceiveChat, Continue, FullInv, StageInv, TestInv, QuitInv, ReportInv, Finished, AllReady, Clients, prepVars
  <2>7. ~ SchedulerNext
    BY <2>1, Names DEF SchedulerNext, Start, Send, RecordSend, Evaluate, Report
  <2>8. CASE HandleRootClientReady
    <3>1. stage' = [c \in Clients |-> IF c = Root THEN "ready" ELSE "connect"] /\ clients' = Testers
      BY <2>8 DEF HandleRootClientReady
    <3>2. UNCHANGED <<connected, tasks, sched, report, logger, running>>
      BY <2>8 DEF HandleRootClientReady, Continue, testVars
    <3>3. stage[Root] = "enter" /\ (\A c \in Testers : stage[c] = "new") /\ connected = {}
      BY <2>8 DEF HandleRootClientReady, FullInv, StageInv
    <3>4. \A c \in Clients : stage[c] \notin {"refused", "timed out"}
      BY <3>3 DEF Clients
    <3>5. StageInv'
      <4>1. stage' \in [Clients -> Stages]
        BY <3>1 DEF Stages
      <4>2. \A c \in Testers : stage'[c] # "ready"
        BY <3>1, ClientFacts
      <4>3. stage'[Root] = "ready"
        BY <3>1, ClientFacts
      <4> QED BY <3>1, <3>2, <3>3, <4>1, <4>2, <4>3 DEF StageInv
    <3>6. logger /\ running
      BY <1>3, <3>4 DEF FullInv, QuitInv, Finished
    <3>7. report = None
      BY <1>3 DEF FullInv, ReportInv, Finished
    <3> QED BY <2>1, <3>2, <3>5, <3>6, <3>7 DEF FullInv, TestInv, QuitInv, ReportInv
  <2>9. CASE \E c \in Clients : OnJoined(c)
    <3>1. PICK c \in Testers : OnJoined(c)
      BY <2>9 DEF OnJoined
    <3>2. /\ stage[c] = "enter" /\ stage' = [stage EXCEPT ![c] = "ready"]
          /\ connected' = connected \cup {c} /\ UNCHANGED <<clients, sched, report, logger, running>>
      BY <3>1 DEF OnJoined, Advance, SetClientReady, Continue
    <3>3. stage \in [Clients -> Stages] /\ stage[Root] = "ready" /\ clients = Testers
      BY <3>2 DEF FullInv, StageInv
    <3>4. \A d \in Clients : stage'[d] = IF d = c THEN "ready" ELSE stage[d]
      BY <3>2, <3>3
    <3>5. stage'[Root] = "ready"
      BY <3>3, <3>4, ClientFacts
    <3>6. StageInv'
      <4>1. stage' \in [Clients -> Stages]
        BY <3>2, <3>3 DEF Stages
      <4>2. connected = {d \in Testers : stage[d] = "ready"}
        BY DEF FullInv, StageInv
      <4>3. \A d \in Testers : stage'[d] = "ready" <=> d \in connected'
        BY <3>2, <3>4, <4>2, ClientFacts
      <4>4. connected' \subseteq Testers
        BY <3>2, <4>2
      <4>5. connected' = {d \in Testers : stage'[d] = "ready"}
        BY <4>3, <4>4
      <4> QED BY <3>2, <3>3, <3>5, <4>1, <4>5 DEF StageInv
    <3>7. TestInv'
      <4>1. CASE connected' = clients
        BY <3>3, <3>5, <3>6, <4>1 DEF StageInv, TestInv, AllReady, Clients
      <4>2. CASE connected' # clients
        BY <2>1, <3>1, <3>2, <4>2 DEF OnJoined, SetClientReady, TestInv
      <4> QED BY <4>1, <4>2
    <3>8. QuitInv'
      <4>1. ~ Finished /\ \A d \in Clients : stage[d] \in {"refused", "timed out"} => stage'[d] = stage[d]
        BY <1>3, <3>2, <3>4 DEF Finished
      <4> QED BY <3>2, <4>1 DEF FullInv, QuitInv
    <3>9. ReportInv'
      BY <1>3, <3>2 DEF FullInv, ReportInv, Finished
    <3> QED BY <3>6, <3>7, <3>8, <3>9 DEF FullInv
  <2> QED BY <1>3, <2>2, <2>3, <2>4, <2>5, <2>6, <2>7, <2>8, <2>9 DEF Next, IoNext, AppNext
<1> QED BY <1>1, <1>2, <1>3

LEMMA FullInvariant == Spec => []FullInv
BY FullInit, FullStep, PTL DEF Spec

(* ReportOfFullTest: a report is made only once, when every test client    *)
(* has joined, and is seen: RootClient::Evaluate runs only if no call has  *)
(* failed before, so that Quit has not closed the logger.                  *)
THEOREM ReportOfFullTestCorrect == Spec => []ReportOfFullTest
<1>1. FullInv => ReportOfFullTest
  <2> SUFFICES ASSUME FullInv, report # None PROVE connected = Testers /\ report.logged /\ <<"evaluate">> \notin tasks
    BY DEF ReportOfFullTest
  <2>1. Finished /\ report.logged
    BY DEF FullInv, ReportInv
  <2>2. connected = Testers
    BY <2>1, ClientFacts DEF FullInv, StageInv, Finished, AllReady
  <2> QED BY <2>1, <2>2 DEF Finished
<1> QED BY <1>1, FullInvariant, PTL

-----------------------------------------------------------------------------
(* The round trips.                                                        *)

Chats == [conn : Testers, user : Testers, id : Nat]
Sends == {<<"send", c, i>> : c \in Testers, i \in Nat}

(* The chat has been recorded, or its send is under way. *)
Known(c, i) == i \in DOMAIN outgoing[c] \/ sched = <<"send", c, i>>

TimeType ==
  /\ next_id \in Nat /\ clock \in Nat /\ inbox \in Seq(Chats)
  /\ sched \in Sends \cup {<<"idle">>, <<"evaluate">>}
  /\ outgoing = [c \in Testers |-> outgoing[c]]
  /\ \A c \in Testers : \A i \in DOMAIN outgoing[c] : outgoing[c][i] \in Nat /\ outgoing[c][i] < clock
  /\ \A c \in Testers : \A i \in DOMAIN incoming[c] : incoming[c][i] \in Nat

(* Only chats that were sent come back. *)
EchoInv == \A k \in DOMAIN inbox : Known(inbox[k].user, inbox[k].id)

(* What came back was recorded before, or overtook the recording. *)
RoundTripInv ==
  \A c \in Testers : \A i \in DOMAIN incoming[c] :
    i \in overtaken \/ (i \in DOMAIN outgoing[c] /\ outgoing[c][i] <= incoming[c][i])

TimeInv == TimeType /\ EchoInv /\ RoundTripInv /\ NegativeOnlyIfOvertaken

LEMMA TimeInit == Init => TimeInv
BY DEF Init, Empty, TimeInv, TimeType, EchoInv, RoundTripInv, NegativeOnlyIfOvertaken, Sends

(* The preparation, the start of a client and the end of the test leave    *)
(* the times alone.                                                        *)
timeVars == <<next_id, sched, inbox, outgoing, incoming, clock, report, overtaken>>

LEMMA Untimed == ASSUME TimeInv, UNCHANGED timeVars PROVE TimeInv'
BY DEF timeVars, TimeInv, TimeType, EchoInv, Known, RoundTripInv, NegativeOnlyIfOvertaken

LEMMA SchedFacts ==
  ASSUME TimeType
  PROVE  sched[1] = "send" => sched \in Sends /\ sched = <<"send", sched[2], sched[3]>> /\ sched[2] \in Testers /\ sched[3] \in Nat
<1> SUFFICES ASSUME sched[1] = "send" PROVE sched \in Sends /\ sched = <<"send", sched[2], sched[3]>> /\ sched[2] \in Testers /\ sched[3] \in Nat
  OBVIOUS
<1>1. sched \in Sends
  BY DEF TimeType
<1>2. PICK c \in Testers, i \in Nat : sched = <<"send", c, i>>
  BY <1>1 DEF Sends
<1>3. sched[2] = c /\ sched[3] = i
  BY <1>2
<1> QED BY <1>1, <1>2, <1>3

LEMMA ReceiveChatTime == ASSUME TimeInv, ReceiveChat PROVE TimeInv'
<1> DEFINE m == Head(inbox)
<1>1. inbox \in Seq(Chats) /\ inbox # <<>> /\ m = inbox[1] /\ m \in Chats /\ 1 \in DOMAIN inbox
  BY DEF ReceiveChat, TimeInv, TimeType
<1>2. UNCHANGED <<next_id, sched, outgoing, report>> /\ clock' = clock + 1 /\ inbox' = Tail(inbox) /\ overtaken \subseteq overtaken'
  BY DEF ReceiveChat
<1>3. \A c \in Testers : incoming'[c] = incoming[c] \/ (m.user = c /\ incoming'[c] = TryEmplace(incoming[c], m.id))
  BY DEF ReceiveChat, IsEcho
<1>4. m.user \in Testers /\ Known(m.user, m.id)
  BY <1>1 DEF TimeInv, EchoInv, Chats
<1>5. m.id \in DOMAIN outgoing[m.user] \/ m.id \in overtaken'
  <2>1. CASE sched = <<"send", m.user, m.id>>
    <3>1. sched[1] = "send" /\ sched[3] = m.id
      BY <2>1
    <3> QED BY <3>1 DEF ReceiveChat
  <2> QED BY <1>4, <2>1 DEF Known
<1>6. ASSUME NEW c \in Testers, NEW i \in DOMAIN incoming'[c]
      PROVE  /\ incoming'[c][i] \in Nat
             /\ i \in overtaken' \/ (i \in DOMAIN outgoing[c] /\ outgoing[c][i] <= incoming'[c][i])
  <2>1. CASE i \in DOMAIN incoming[c]
    <3>1. incoming'[c][i] = incoming[c][i]
      BY <1>3, <2>1 DEF TryEmplace
    <3> QED BY <1>2, <2>1, <3>1 DEF TimeInv, TimeType, RoundTripInv
  <2>2. CASE i \notin DOMAIN incoming[c]
    <3>1. m.user = c /\ incoming'[c] = TryEmplace(incoming[c], m.id)
      BY <1>3, <1>6, <2>2
    <3>2. i = m.id /\ incoming'[c][i] = clock
      BY <1>6, <2>2, <3>1 DEF TryEmplace
    <3>3. clock \in Nat /\ (i \in DOMAIN outgoing[c] => outgoing[c][i] \in Nat /\ outgoing[c][i] < clock)
      BY DEF TimeInv, TimeType
    <3> QED BY <1>5, <3>1, <3>2, <3>3
  <2> QED BY <2>1, <2>2
<1>7. TimeType'
  <2>1. inbox' \in Seq(Chats)
    BY <1>1, <1>2
  <2>2. clock \in Nat /\ clock' \in Nat /\ clock < clock'
    BY <1>2 DEF TimeInv, TimeType
  <2>3. \A c \in Testers : \A i \in DOMAIN outgoing[c] : outgoing[c][i] \in Nat /\ outgoing[c][i] < clock'
    BY <2>2 DEF TimeInv, TimeType
  <2>4. \A c \in Testers : \A i \in DOMAIN incoming'[c] : incoming'[c][i] \in Nat
    BY <1>6
  <2> QED BY <1>2, <2>1, <2>2, <2>3, <2>4 DEF TimeInv, TimeType
<1>8. EchoInv'
  <2>1. \A k \in DOMAIN inbox' : k + 1 \in DOMAIN inbox /\ inbox'[k] = inbox[k + 1]
    BY <1>1, <1>2
  <2> QED BY <1>2, <2>1 DEF TimeInv, EchoInv, Known
<1>9. RoundTripInv'
  BY <1>2, <1>6 DEF RoundTripInv
<1>10. NegativeOnlyIfOvertaken'
  BY <1>2 DEF TimeInv, NegativeOnlyIfOvertaken
<1> QED BY <1>7, <1>8, <1>9, <1>10 DEF TimeInv

(* An order in which the server serves the channel is a sequence of clients. *)
LEMMA OrdersType == Orders \subseteq Seq(Testers)
<1>1. IsFiniteSet(Testers \cap up)
  BY LoadTesterAssumption, FS_Subset
<1> DEFINE size == Cardinality(Testers \cap up)
<1>2. size \in Nat
  BY <1>1, FS_CardinalityType
<1>3. ASSUME NEW order \in Orders PROVE order \in Seq(Testers)
  <2>1. order \in [1 .. size -> Testers \cap up]
    BY DEF Orders, SetToSeqs
  <2>2. order \in [1 .. size -> Testers]
    BY <2>1
  <2> HIDE DEF size
  <2>3. order \in UNION {[1 .. n -> Testers] : n \in Nat}
    BY <1>2, <2>2
  <2> QED BY <2>3, SeqDef
<1> QED BY <1>3

LEMMA SendTime == ASSUME TimeInv, NEW c \in Testers, NEW order \in Orders, Send(c, order) PROVE TimeInv'
<1> DEFINE echoes == [k \in DOMAIN order |-> [conn |-> order[k], user |-> c, id |-> next_id]]
<1>1. order \in Seq(Testers)
  BY OrdersType
<1>2. next_id \in Nat /\ inbox \in Seq(Chats) /\ sched = <<"idle">>
  BY DEF TimeInv, TimeType, Send
<1>3. echoes \in Seq(Chats)
  <2>1. Len(order) \in Nat /\ DOMAIN order = 1 .. Len(order) /\ \A k \in 1 .. Len(order) : order[k] \in Testers
    BY <1>1
  <2>2. echoes \in [1 .. Len(order) -> Chats]
    BY <1>2, <2>1 DEF Chats
  <2> QED BY <2>1, <2>2, SeqDef
<1>4. \A k \in DOMAIN echoes : echoes[k].user = c /\ echoes[k].id = next_id
  OBVIOUS
<1>5. /\ inbox' = inbox \/ inbox' = inbox \o echoes
      /\ next_id' = next_id + 1 /\ sched' = <<"send", c, next_id>>
      /\ UNCHANGED <<outgoing, incoming, clock, report, overtaken>>
  BY DEF Send
<1> HIDE DEF echoes
<1>6. TimeType'
  <2>1. inbox' \in Seq(Chats)
    BY <1>2, <1>3, <1>5, ConcatProperties
  <2>2. sched' \in Sends
    BY <1>2, <1>5 DEF Sends
  <2> QED BY <1>2, <1>5, <2>1, <2>2 DEF TimeInv, TimeType
<1>7. EchoInv'
  <2>1. ASSUME NEW k \in DOMAIN inbox' PROVE Known(inbox[k].user, inbox[k].id)'
    <3>1. CASE k \in DOMAIN inbox /\ inbox'[k] = inbox[k]
      <4>1. inbox[k].id \in DOMAIN outgoing[inbox[k].user]
        BY <1>2, <3>1, Names DEF TimeInv, EchoInv, Known
      <4> QED BY <1>5, <3>1, <4>1 DEF Known
    <3>2. CASE k - Len(inbox) \in DOMAIN echoes /\ inbox'[k] = echoes[k - Len(inbox)]
      BY <1>4, <1>5, <3>2 DEF Known
    <3>3. \/ k \in DOMAIN inbox /\ inbox'[k] = inbox[k]
          \/ k - Len(inbox) \in DOMAIN echoes /\ inbox'[k] = echoes[k - Len(inbox)]
      <4>1. CASE inbox' = inbox
        BY <2>1, <4>1
      <4>2. CASE inbox' = inbox \o echoes
        BY <1>2, <1>3, <2>1, <4>2
      <4> QED BY <1>5, <4>1, <4>2
    <3> QED BY <3>1, <3>2, <3>3
  <2> QED BY <2>1 DEF EchoInv
<1>8. RoundTripInv' /\ NegativeOnlyIfOvertaken'
  BY <1>5 DEF TimeInv, RoundTripInv, NegativeOnlyIfOvertaken
<1> QED BY <1>6, <1>7, <1>8 DEF TimeInv

LEMMA RecordSendTime == ASSUME TimeInv, RecordSend PROVE TimeInv'
<1> DEFINE c == sched[2]
           id == sched[3]
<1>1. sched = <<"send", c, id>> /\ c \in Testers
  <2>1. TimeType /\ sched[1] = "send"
    BY DEF TimeInv, RecordSend
  <2> QED BY <2>1, SchedFacts
<1>2. /\ outgoing' = [outgoing EXCEPT ![c] = TryEmplace(@, id)] /\ clock' = clock + 1 /\ sched' = <<"idle">>
      /\ UNCHANGED <<next_id, inbox, incoming, report, overtaken>>
  BY DEF RecordSend
<1> HIDE DEF c, id
<1>3. outgoing = [d \in Testers |-> outgoing[d]] /\ clock \in Nat
  BY DEF TimeInv, TimeType
<1>4. /\ outgoing' = [d \in Testers |-> outgoing'[d]]
      /\ \A d \in Testers : outgoing'[d] = IF d = c THEN TryEmplace(outgoing[c], id) ELSE outgoing[d]
  BY <1>1, <1>2, <1>3
<1>5. /\ \A d \in Testers : \A i \in DOMAIN outgoing[d] : i \in DOMAIN outgoing'[d] /\ outgoing'[d][i] = outgoing[d][i]
      /\ id \in DOMAIN outgoing'[c]
      /\ \A d \in Testers : \A i \in DOMAIN outgoing'[d] : i \notin DOMAIN outgoing[d] => outgoing'[d][i] = clock
  BY <1>1, <1>4 DEF TryEmplace
<1>6. TimeType'
  <2>1. \A d \in Testers : \A i \in DOMAIN outgoing'[d] : outgoing'[d][i] \in Nat /\ outgoing'[d][i] < clock'
    BY <1>2, <1>3, <1>5 DEF TimeInv, TimeType
  <2>2. next_id' \in Nat /\ clock' \in Nat /\ inbox' \in Seq(Chats) /\ sched' \in Sends \cup {<<"idle">>, <<"evaluate">>}
    BY <1>2, <1>3 DEF TimeInv, TimeType
  <2>3. \A d \in Testers : \A i \in DOMAIN incoming'[d] : incoming'[d][i] \in Nat
    BY <1>2 DEF TimeInv, TimeType
  <2> QED BY <1>4, <2>1, <2>2, <2>3 DEF TimeType
<1>7. EchoInv'
  <2>1. ASSUME NEW k \in DOMAIN inbox PROVE inbox[k].id \in DOMAIN outgoing'[inbox[k].user]
    <3>1. inbox[k].user \in Testers /\ Known(inbox[k].user, inbox[k].id)
      <4>1. inbox[k] \in Chats
        BY ElementOfSeq DEF TimeInv, TimeType
      <4> QED BY <4>1 DEF TimeInv, EchoInv, Chats
    <3>2. CASE sched = <<"send", inbox[k].user, inbox[k].id>>
      <4>1. inbox[k].user = c /\ inbox[k].id = id
        BY <3>2 DEF c, id
      <4> QED BY <1>5, <4>1
    <3> QED BY <1>5, <3>1, <3>2 DEF Known
  <2> QED BY <1>2, <2>1 DEF EchoInv, Known
<1>8. RoundTripInv'
  BY <1>2, <1>5 DEF TimeInv, RoundTripInv
<1>9. NegativeOnlyIfOvertaken'
  BY <1>2 DEF TimeInv, NegativeOnlyIfOvertaken
<1> QED BY <1>6, <1>7, <1>8, <1>9 DEF TimeInv

(* The steps that only the scheduler thread's state shows. *)
LEMMA EvaluateTime == ASSUME TimeInv, Evaluate PROVE TimeInv'
<1>1. sched = <<"idle">> /\ sched' = <<"evaluate">> /\ UNCHANGED <<next_id, inbox, outgoing, incoming, clock, report, overtaken>>
  BY DEF Evaluate
<1>2. TimeType'
  BY <1>1 DEF TimeInv, TimeType
<1>3. EchoInv'
  BY <1>1, Names DEF TimeInv, EchoInv, Known
<1> QED BY <1>1, <1>2, <1>3 DEF TimeInv, RoundTripInv, NegativeOnlyIfOvertaken

LEMMA ReportTime == ASSUME TimeInv, Report PROVE TimeInv'
<1>1. /\ sched = <<"evaluate">> /\ sched' = <<"idle">> /\ UNCHANGED <<next_id, inbox, outgoing, incoming, clock, overtaken>>
      /\ report'.latencies = Latencies
  BY DEF Report
<1>2. TimeType'
  BY <1>1 DEF TimeInv, TimeType
<1>3. EchoInv'
  BY <1>1, Names DEF TimeInv, EchoInv, Known
<1>4. ASSUME NEW l \in Latencies, l[1] < 0 PROVE l[2] \in overtaken
  <2>1. PICK c \in Testers : l \in {<<Latency(c, i), i>> : i \in Completed(c)}
    BY DEF Latencies
  <2>2. PICK i \in Completed(c) : l = <<Latency(c, i), i>>
    BY <2>1
  <2>3. l[1] = incoming[c][i] - outgoing[c][i] /\ l[2] = i
    BY <2>2 DEF Latency
  <2>4. incoming[c][i] \in Nat /\ outgoing[c][i] \in Nat /\ i \in DOMAIN incoming[c]
    BY <2>2 DEF TimeInv, TimeType, Completed
  <2>5. ~ (outgoing[c][i] <= incoming[c][i])
    BY <1>4, <2>3, <2>4
  <2> QED BY <2>3, <2>4, <2>5 DEF TimeInv, RoundTripInv
<1> QED BY <1>1, <1>2, <1>3, <1>4 DEF TimeInv, RoundTripInv, NegativeOnlyIfOvertaken

LEMMA TimeStep == TimeInv /\ [Next]_vars => TimeInv'
<1> SUFFICES ASSUME TimeInv, [Next]_vars PROVE TimeInv'
  OBVIOUS
<1>1. CASE UNCHANGED vars
  BY <1>1, Untimed DEF vars, testVars, timeVars
<1>2. CASE \E c \in Clients : IoNext(c) \/ Timeout(c)
  BY <1>2, Untimed DEF IoNext, OnConnected, OnConnectionFailed, OnDisconnected, Timeout, testVars, timeVars
<1>3. CASE \E c \in Clients : AppNext(c)
  BY <1>3, Untimed DEF AppNext, OnUserEnsured, OnPrepared, OnJoined, OnError, testVars, timeVars
<1>4. CASE HandleRootClientReady
  BY <1>4, Untimed DEF HandleRootClientReady, testVars, timeVars
<1>5. CASE ReceiveChat
  BY <1>5, ReceiveChatTime
<1>6. CASE \E c \in Testers : Start(c)
  BY <1>6, Untimed DEF Start, timeVars
<1>7. CASE \E c \in Testers : \E order \in Orders : Send(c, order)
  BY <1>7, SendTime
<1>8. CASE RecordSend \/ Evaluate \/ Report
  BY <1>8, RecordSendTime, EvaluateTime, ReportTime
<1> QED BY <1>1, <1>2, <1>3, <1>4, <1>5, <1>6, <1>7, <1>8 DEF Next, SchedulerNext

(* NegativeOnlyIfOvertaken: a round trip that TestClient::Evaluate finds   *)
(* negative is one whose echo was handled on the application thread        *)
(* between the two steps of TestClient::Send on the scheduler thread.      *)
THEOREM NegativeOnlyIfOvertakenCorrect == Spec => []NegativeOnlyIfOvertaken
<1>1. TimeInv => NegativeOnlyIfOvertaken
  BY DEF TimeInv
<1> QED BY <1>1, TimeInit, TimeStep, PTL DEF Spec
=============================================================================
