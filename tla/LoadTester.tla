------------------------------ MODULE LoadTester ------------------------------
(***************************************************************************)
(* The load tester: a root client creates the test channel and then the    *)
(* test clients; each connects, makes sure its user exists, logs in and    *)
(* joins the channel.  When all are ready they send chats periodically,    *)
(* and after ten seconds the round trips are evaluated and the program     *)
(* quits.                                                                  *)
(*                                                                         *)
(* Answers and echoes are handled on the application thread, sends,        *)
(* time-outs and the evaluation on the scheduler thread, connection events *)
(* on the I/O thread.  Nothing stops a thread when the program has been    *)
(* told to quit.  An access to a map is one step.  As RpcSystem shows, a   *)
(* call is either answered or timed out, not both.                         *)
(*                                                                         *)
(* An operator named X_Y is a mutant of X: the code with the mistake Y.    *)
(***************************************************************************)
EXTENDS Integers, Sequences, SequencesExt

CONSTANTS
  Root,       \* the root client
  Testers,    \* the test clients; --clients gives their number
  None,       \* nothing
  MaxSends    \* bound: chats sent in all

ASSUME LoadTesterAssumption ==
  /\ Root \notin Testers /\ IsFiniteSet(Testers) /\ MaxSends \in Nat

Clients == Testers \cup {Root}

VARIABLES
  stage,       \* per client: how far it has come; a call is pending in
               \* "create", "authenticate" and "enter"
  up,          \* clients whose connection is up
  asked,       \* clients whose pending call has gone out
  clients,     \* clients_ of the root client
  connected,   \* connected_clients_
  tasks,       \* scheduled: <<"start", c>>, <<"send", c>>, <<"evaluate">>
  sched,       \* the scheduler thread: "idle", or the task it is in
  next_id,     \* next chat id
  inbox,       \* echoes queued for the application thread
  outgoing,    \* per client, time of sending of its chats
  incoming,    \* per client, time its chats came back
  clock,       \* steady_clock
  report,      \* None, or what was evaluated
  logger,      \* is the logger open
  running,     \* running_ of the application
  unreachable, \* history: clients whose connection could not be made
  overtaken    \* history: chats that came back before their send was recorded

prepVars == <<stage, up, asked, clients, connected, unreachable>>
testVars == <<tasks, sched, next_id, inbox, outgoing, incoming, clock, report, overtaken>>
vars == <<prepVars, testVars, logger, running>>

Empty == <<>>

Init ==
  /\ stage = [c \in Clients |-> IF c = Root THEN "connect" ELSE "new"]
  /\ up = {} /\ asked = {} /\ clients = {} /\ connected = {} /\ unreachable = {}
  /\ tasks = {} /\ sched = <<"idle">> /\ next_id = 0 /\ inbox = <<>>
  /\ outgoing = [c \in Testers |-> Empty] /\ incoming = [c \in Testers |-> Empty]
  /\ clock = 0 /\ report = None /\ overtaken = {}
  /\ logger = TRUE /\ running = TRUE

(* ApplicationSystem::Quit: the logger is shut down, then the application. *)
Quit == logger' = (logger /\ ~ running) /\ running' = FALSE

Continue == UNCHANGED <<logger, running>>

Advance(c, to) == stage' = [stage EXCEPT ![c] = to]

(* The next call of a client: it goes out if the connection is there. *)
Call(c, to) ==
  /\ Advance(c, to)
  /\ asked' = IF c \in up' THEN asked \cup {c} ELSE asked \ {c}

-----------------------------------------------------------------------------
(* I/O thread.                                                             *)

(* Client::OnConnected calls CreateUser. *)
OnConnected(c) ==
  /\ stage[c] = "connect"
  /\ up' = up \cup {c}
  /\ Call(c, "create")
  /\ Continue /\ UNCHANGED <<clients, connected, unreachable, testVars>>

(* OnConnectionFailed is empty: nobody notices. *)
OnConnectionFailed(c) ==
  /\ stage[c] = "connect"
  /\ unreachable' = unreachable \cup {c}
  /\ Advance(c, "failed")
  /\ Continue /\ UNCHANGED <<up, asked, clients, connected, testVars>>

(* So is OnDisconnected; an answer that was received before is queued. *)
OnDisconnected(c) ==
  /\ c \in up
  /\ up' = up \ {c}
  /\ Continue /\ UNCHANGED <<stage, asked, clients, connected, unreachable, testVars>>

-----------------------------------------------------------------------------
(* Application thread: the answers of the server.                          *)

(* CreateUser: an error means that the user exists; both log in next. *)
OnUserEnsured(c) ==
  /\ stage[c] = "create" /\ c \in asked
  /\ up' = up /\ Call(c, "authenticate")
  /\ Continue /\ UNCHANGED <<clients, connected, unreachable, testVars>>

(* Authenticated: OnPrepared makes the root client create the channel, a   *)
(* test client join it.                                                    *)
OnPrepared(c) ==
  /\ stage[c] = "authenticate" /\ c \in asked
  /\ up' = up /\ Call(c, "enter")
  /\ Continue /\ UNCHANGED <<clients, connected, unreachable, testVars>>

(* The channel is created: all test clients are made, and then prepared. *)
HandleRootClientReady ==
  /\ stage[Root] = "enter" /\ Root \in asked
  /\ clients' = Testers
  /\ stage' = [c \in Clients |-> IF c = Root THEN "ready" ELSE "connect"]
  /\ Continue /\ UNCHANGED <<up, asked, connected, unreachable, testVars>>

ScheduleTest == tasks' = tasks \cup {<<"start", c>> : c \in clients} \cup {<<"evaluate">>}

SetClientReady_Always(c) ==
  /\ connected' = connected \cup {c}
  /\ ScheduleTest

(* With the last one the test is scheduled. *)
SetClientReady(c) ==
  /\ connected' = connected \cup {c}
  /\ IF connected' # clients THEN UNCHANGED tasks ELSE ScheduleTest

OnJoined(c) ==
  /\ c \in Testers /\ stage[c] = "enter" /\ c \in asked
  /\ Advance(c, "ready")
  /\ SetClientReady(c)
  /\ Continue
  /\ UNCHANGED <<up, asked, clients, unreachable, sched, next_id, inbox, outgoing, incoming, clock, report, overtaken>>

(* The default error handler: the server refuses the login, the channel or *)
(* the join.                                                               *)
OnError(c) ==
  /\ stage[c] \in {"authenticate", "enter"} /\ c \in asked
  /\ Advance(c, "refused")
  /\ Quit
  /\ UNCHANGED <<up, asked, clients, connected, unreachable, testVars>>


(* The default time-out handler, on the scheduler thread. *)
Timeout(c) ==
  /\ stage[c] \in {"create", "authenticate", "enter"}
  /\ sched = <<"idle">>
  /\ Advance(c, "timed out")
  /\ Quit
  /\ UNCHANGED <<up, asked, clients, connected, unreachable, testVars>>

(* The filter of the subscription to ReceiveChat: every test client is     *)
(* handed the chats that arrive on any connection of the program.          *)
IsEcho(c, m) == m.conn = c /\ m.user = c

(* try_emplace of the present time: what is in the map stays. *)
TryEmplace(map, id) == [i \in DOMAIN map \cup {id} |-> IF i \in DOMAIN map THEN map[i] ELSE clock]

(* Into incoming_messages_ of each subscriber that accepts the chat. *)
ReceiveChat ==
  /\ inbox # <<>>
  /\ LET m == Head(inbox)
     IN  incoming' = [c \in Testers |->
           IF stage[c] \in {"enter", "ready"} /\ IsEcho(c, m) THEN TryEmplace(incoming[c], m.id) ELSE incoming[c]]
  /\ inbox' = Tail(inbox)
  /\ overtaken' = overtaken \cup {id \in {Head(inbox).id} : sched[1] = "send" /\ sched[3] = id}
  /\ clock' = clock + 1
  /\ Continue /\ UNCHANGED <<prepVars, tasks, sched, next_id, outgoing, report>>

-----------------------------------------------------------------------------
(* Scheduler thread.  Tasks run one after the other; a start comes before  *)
(* the sends of its client, and all starts before the evaluation.          *)

Start(c) ==
  /\ sched = <<"idle">> /\ <<"start", c>> \in tasks
  /\ tasks' = (tasks \ {<<"start", c>>}) \cup {<<"send", c>>}
  /\ Continue
  /\ UNCHANGED <<prepVars, sched, next_id, inbox, outgoing, incoming, clock, report, overtaken>>

(* TestClient::Send: the chat goes out (external: the server sends it back *)
(* to everybody in the channel) ...                                        *)
Send(c, order) ==
  /\ sched = <<"idle">> /\ <<"send", c>> \in tasks /\ next_id < MaxSends
  /\ next_id' = next_id + 1
  /\ inbox' = IF c \notin up THEN inbox
              ELSE inbox \o [i \in DOMAIN order |-> [conn |-> order[i], user |-> c, id |-> next_id]]
  /\ sched' = <<"send", c, next_id>>
  /\ tasks' = tasks \ {<<"send", c>>}
  /\ Continue /\ UNCHANGED <<prepVars, outgoing, incoming, clock, report, overtaken>>

(* ... and is recorded only then, and the next one scheduled. *)
RecordSend ==
  /\ sched[1] = "send"
  /\ outgoing' = [outgoing EXCEPT ![sched[2]] = TryEmplace(@, sched[3])]
  /\ clock' = clock + 1
  /\ tasks' = tasks \cup {<<"send", sched[2]>>}
  /\ sched' = <<"idle">>
  /\ Continue /\ UNCHANGED <<prepVars, next_id, inbox, incoming, report, overtaken>>

(* TcpSystem::Disconnect. *)
Disconnect(cs) == up' = up \ cs

(* TestClient::Stop removes the next send and disconnects. *)
Stop(cs) ==
  /\ tasks' = tasks \ {<<"send", c>> : c \in cs}
  /\ Disconnect(cs)

(* RootClient::Evaluate: all clients are stopped first. *)
Evaluate ==
  /\ sched = <<"idle">> /\ <<"evaluate">> \in tasks
  /\ \A c \in Testers : <<"start", c>> \notin tasks
  /\ Stop(clients)
  /\ sched' = <<"evaluate">>
  /\ Continue
  /\ UNCHANGED <<stage, asked, clients, connected, unreachable, next_id, inbox, outgoing, incoming, clock, report, overtaken>>

(* TestClient::Evaluate: the round trips of the chats that came back. *)
Completed(c) == DOMAIN outgoing[c] \cap DOMAIN incoming[c]
Latency(c, i) == incoming[c][i] - outgoing[c][i]

(* The latencies of all clients.  Ids of chats are never given out twice,  *)
(* so that a pair of latency and id stands for one round trip.             *)
Latencies == UNION {{<<Latency(c, i), i>> : i \in Completed(c)} : c \in Testers}

CalculatePercentile_Unsorted(latencies, percent) ==
  LET sorted == SetToSortSeq(latencies, LAMBDA a, b : a[2] < b[2])
  IN  IF latencies = {} THEN 0 ELSE sorted[1 + (percent * (Len(sorted) - 1)) \div 100][1]

(* CalculatePercentile, of a percentage: nth_element puts the element there *)
(* that sorting would; zero if there are none.                             *)
CalculatePercentile(latencies, percent) ==
  LET sorted == SetToSortSeq(latencies, LAMBDA a, b : a[1] < b[1] \/ (a[1] = b[1] /\ a[2] < b[2]))
  IN  IF latencies = {} THEN 0 ELSE sorted[1 + (percent * (Len(sorted) - 1)) \div 100][1]

(* The report is summed up and logged, and the program quits. *)
Report ==
  /\ sched = <<"evaluate">>
  /\ report' = [sent |-> MapThenSumSet(LAMBDA c : Cardinality(DOMAIN outgoing[c]), Testers),
                latencies |-> Latencies,
                failed |-> MapThenSumSet(LAMBDA c : Cardinality(DOMAIN outgoing[c] \ Completed(c)), Testers),
                p50 |-> CalculatePercentile(Latencies, 50), p95 |-> CalculatePercentile(Latencies, 95),
                p99 |-> CalculatePercentile(Latencies, 99), max |-> CalculatePercentile(Latencies, 100),
                logged |-> logger]
  /\ sched' = <<"idle">> /\ tasks' = tasks \ {<<"evaluate">>}
  /\ Quit
  /\ UNCHANGED <<prepVars, next_id, inbox, outgoing, incoming, clock, overtaken>>

-----------------------------------------------------------------------------

IoNext(c) == OnConnected(c) \/ OnConnectionFailed(c) \/ OnDisconnected(c)

AppNext(c) == OnUserEnsured(c) \/ OnPrepared(c) \/ OnJoined(c) \/ OnError(c)

(* The orders in which the server may serve the connections of a channel. *)
Orders == SetToSeqs(Testers \cap up)

SchedulerNext ==
  \/ \E c \in Testers : Start(c) \/ \E order \in Orders : Send(c, order)
  \/ RecordSend \/ Evaluate \/ Report

Next ==
  \/ \E c \in Clients : IoNext(c) \/ AppNext(c) \/ Timeout(c)
  \/ HandleRootClientReady \/ ReceiveChat
  \/ SchedulerNext

(* A connection attempt ends one way or the other (external: the           *)
(* resolver), a pending call is answered or times out, and the scheduler   *)
(* thread runs what is due (see Scheduler).                                *)
Fairness ==
  /\ \A c \in Clients : WF_vars(OnConnected(c) \/ OnConnectionFailed(c)) /\ WF_vars(Timeout(c))
  /\ \A c \in Testers : WF_vars(Start(c))
  /\ WF_vars(RecordSend) /\ WF_vars(Evaluate) /\ WF_vars(Report)

Spec == Init /\ [][Next]_vars /\ Fairness

-----------------------------------------------------------------------------

(* The report is of a whole test, and is seen: every test client has       *)
(* joined, it is made once, and the logger has not been shut down by an    *)
(* error or a time-out of one of the many calls before.                    *)
ReportOfFullTest ==
  report # None => connected = Testers /\ report.logged /\ <<"evaluate">> \notin tasks

(* Send records a chat after it went out, on another thread than the one   *)
(* the echo is handled on: a round trip is negative only if the echo was   *)
(* handled in between.                                                     *)
NegativeOnlyIfOvertaken ==
  report # None => \A l \in report.latencies : l[1] < 0 => l[2] \in overtaken

(* The numbers of the report fit, though echoes keep arriving on another   *)
(* thread: nothing is lost between sent, completed and failed, the         *)
(* percentiles ascend up to the longest round trip, and none is negative   *)
(* without a reason.                                                       *)
ReportAddsUp ==
  /\ NegativeOnlyIfOvertaken
  /\ report # None =>
       /\ report.sent = Cardinality(report.latencies) + report.failed
       /\ report.p50 <= report.p95 /\ report.p95 <= report.p99 /\ report.p99 <= report.max
       /\ report.latencies # {} => \E l \in report.latencies : l[1] = report.max
       /\ \A l \in report.latencies : l[1] <= report.max


=============================================================================
