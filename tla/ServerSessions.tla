---------------------------- MODULE ServerSessions ----------------------------
(***************************************************************************)
(* Who is connected, logged in and in a channel: the connections of the    *)
(* TcpSystem, the sessions of the UserStore, the channel assignments of    *)
(* the ChatChannelStore, and the handlers that change them.                *)
(*                                                                         *)
(* Requests are handled one after the other on the application thread.     *)
(* A disconnect is handled on the I/O thread, at once: it overtakes the    *)
(* requests the connection still has in the queue, and it removes the      *)
(* session while the application thread may be in a handler.  Nothing      *)
(* locks user_sessions_; an access is one step here.                       *)
(*                                                                         *)
(* An operator named X_Y is a mutant of X: the code with the mistake Y,    *)
(* used to show that a property can fail.                                  *)
(***************************************************************************)
EXTENDS Integers, Sequences, FiniteSets

CONSTANTS
  Conns,        \* connection ids; next_connection_id_ gives each out once
  Users,        \* users stored in the database
  Channels,     \* channels stored in the database
  None,         \* no user, no channel
  MaxRequests   \* bound: requests that arrive in all

ASSUME SessionsAssumption ==
  /\ None \notin Users \cup Channels
  /\ MaxRequests \in Nat

VARIABLES
  accepted,       \* connection ids handed out
  connections,    \* keys of connections_ of the TcpSystem
  queue,          \* requests waiting for the application thread
  requests,       \* how many requests have arrived
  user_sessions,  \* per connection, the user logged in on it
  channel_of,     \* connection_channel_map_
  app,            \* the application thread: handler step, request, user
  io,             \* the I/O thread: step, connection and user in OnDisconnect
  disconnects,    \* per connection, OnDisconnect calls that have ended
  late,           \* history: sessions assigned when the connection was gone
  reply,          \* history: per request, the answers sent
  closed_on       \* history: requests whose connection was gone when answered

storeVars == <<user_sessions, channel_of>>
netVars   == <<accepted, connections, disconnects>>
histVars  == <<late, reply, closed_on>>
vars == <<netVars, queue, requests, storeVars, app, io, histVars>>

Ops == {"authenticate", "logout", "join", "write", "get"}

AppIdle == [pc |-> "idle"]
IoIdle == [pc |-> "idle"]

Init ==
  /\ accepted = {} /\ connections = {}
  /\ queue = <<>> /\ requests = 0
  /\ user_sessions = [c \in Conns |-> None]
  /\ channel_of = [c \in Conns |-> None]
  /\ app = AppIdle /\ io = IoIdle
  /\ disconnects = [c \in Conns |-> 0]
  /\ late = {} /\ closed_on = {}
  /\ reply = [i \in 1 .. MaxRequests |-> <<>>]

HasSession(c) == user_sessions[c] # None
UserHasSession(u) == \E c \in Conns : user_sessions[c] = u

(* TcpSystem::Send: the answer to request q, if its connection is there. *)
Send(q, what) ==
  /\ reply' = IF q.conn \in connections THEN [reply EXCEPT ![q.id] = Append(@, what)] ELSE reply
  /\ closed_on' = IF q.conn \in connections THEN closed_on ELSE closed_on \cup {q.id}

(* The handler ends with this answer. *)
Respond(what) ==
  /\ Send(app.req, what)
  /\ app' = AppIdle

Proceed(pc) == app' = [app EXCEPT !.pc = pc] /\ UNCHANGED <<reply, closed_on>>

-----------------------------------------------------------------------------
(* I/O thread.                                                             *)

(* CreateConnection; OnConnected only logs. *)
CreateConnection(c) ==
  /\ io = IoIdle
  /\ c \notin accepted
  /\ accepted' = accepted \cup {c}
  /\ connections' = connections \cup {c}
  /\ UNCHANGED <<disconnects, queue, requests, storeVars, app, io, histVars>>

(* OnReceive: the request is put into the processor's queue. *)
Receive(c, op, u, ch) ==
  /\ io = IoIdle
  /\ c \in connections
  /\ requests < MaxRequests
  /\ requests' = requests + 1
  /\ queue' = Append(queue, [id |-> requests + 1, conn |-> c, op |-> op, user |-> u, channel |-> ch])
  /\ UNCHANGED <<netVars, storeVars, app, io, histVars>>

(* OnDisconnect of the facade: RemoveConnection, and then OnDisconnected.  *)
(* A failed read and a failed write both report it.                        *)
RemoveConnection(c) ==
  /\ io = IoIdle
  /\ c \in accepted
  /\ disconnects[c] < 2
  /\ connections' = connections \ {c}
  /\ io' = [pc |-> "find", conn |-> c]
  /\ UNCHANGED <<accepted, disconnects, queue, requests, storeVars, app, histVars>>

IoReturns ==
  /\ io' = IoIdle
  /\ disconnects' = [disconnects EXCEPT ![io.conn] = @ + 1]

(* UserServerSystem::RemoveSession on the I/O thread: GetSessionUser ... *)
IoFindSession ==
  /\ io.pc = "find"
  /\ IF HasSession(io.conn)
     THEN io' = [pc |-> "broadcast", conn |-> io.conn] /\ UNCHANGED disconnects
     ELSE IoReturns
  /\ UNCHANGED <<accepted, connections, queue, requests, storeVars, app, histVars>>

(* ... the broadcast of the logout ... *)
IoBroadcast ==
  /\ io.pc = "broadcast"
  /\ io' = [io EXCEPT !.pc = "erase"]
  /\ UNCHANGED <<netVars, queue, requests, storeVars, app, histVars>>

IoEraseSession_Forgets ==
  /\ io.pc = "erase"
  /\ IoReturns
  /\ UNCHANGED <<accepted, connections, queue, requests, storeVars, app, histVars>>

(* ... and the erasure from user_sessions_. *)
IoEraseSession ==
  /\ io.pc = "erase"
  /\ user_sessions' = [user_sessions EXCEPT ![io.conn] = None]
  /\ IoReturns
  /\ UNCHANGED <<accepted, connections, queue, requests, channel_of, app, histVars>>

-----------------------------------------------------------------------------
(* Application thread.                                                     *)

appOnly == <<netVars, requests, io>>

(* The processor runs the next task. *)
TakeRequest ==
  /\ app = AppIdle
  /\ queue # <<>>
  /\ app' = [pc |-> Head(queue).op, req |-> Head(queue)]
  /\ queue' = Tail(queue)
  /\ UNCHANGED <<appOnly, storeVars, histVars>>

(* HandleAuthenticateUser up to its last check.  `match` is what           *)
(* MatchUserCredentials found.                                             *)
AuthenticateCheck(match) ==
  /\ app.pc = "authenticate"
  /\ IF HasSession(app.req.conn) \/ ~ match \/ UserHasSession(app.req.user)
     THEN Respond("error")
     ELSE Proceed("assign")
  /\ UNCHANGED <<appOnly, queue, storeVars, late>>

(* AssignSession: a bimap takes a pair only if both sides are new. *)
AssignSession ==
  LET q == app.req
  IN  /\ app.pc = "assign"
      /\ user_sessions' =
           IF HasSession(q.conn) \/ UserHasSession(q.user)
           THEN user_sessions ELSE [user_sessions EXCEPT ![q.conn] = q.user]
      /\ late' = IF q.conn \in connections THEN late ELSE late \cup {q.conn}
      /\ Proceed("granted")
      /\ UNCHANGED <<appOnly, queue, channel_of>>

(* The response, and the broadcast of the login. *)
AuthenticateReply ==
  /\ app.pc = "granted"
  /\ Respond("ok")
  /\ UNCHANGED <<appOnly, queue, storeVars, late>>

(* HandleLogout: ValidateSession and the GetSessionUser of RemoveSession,  *)
(* which broadcasts the logout if it finds a user.                         *)
LogoutCheck ==
  /\ app.pc = "logout"
  /\ IF HasSession(app.req.conn) THEN Proceed("unassign") ELSE Respond("error")
  /\ UNCHANGED <<appOnly, queue, storeVars, late>>

LogoutErase_KeepsChannel ==
  /\ app.pc = "unassign"
  /\ user_sessions' = [user_sessions EXCEPT ![app.req.conn] = None]
  /\ Respond("ok")
  /\ UNCHANGED <<appOnly, queue, channel_of, late>>

(* The erasure of the session, UnassignConnection and the response. *)
LogoutErase ==
  /\ app.pc = "unassign"
  /\ user_sessions' = [user_sessions EXCEPT ![app.req.conn] = None]
  /\ channel_of' = [channel_of EXCEPT ![app.req.conn] = None]
  /\ Respond("ok")
  /\ UNCHANGED <<appOnly, queue, late>>

(* ValidateSession at the start of the other handlers. *)
ValidateSession_Silent ==
  /\ app.pc \in {"join", "write", "get"}
  /\ IF HasSession(app.req.conn)
     THEN Proceed(IF app.pc = "join" THEN "do_join" ELSE IF app.pc = "write" THEN "do_write" ELSE "do_get")
     ELSE app' = AppIdle /\ UNCHANGED <<reply, closed_on>>
  /\ UNCHANGED <<appOnly, queue, storeVars, late>>

ValidateSession ==
  /\ app.pc \in {"join", "write", "get"}
  /\ IF HasSession(app.req.conn)
     THEN Proceed(IF app.pc = "join" THEN "do_join" ELSE IF app.pc = "write" THEN "do_write" ELSE "do_get")
     ELSE Respond("error")
  /\ UNCHANGED <<appOnly, queue, storeVars, late>>

(* HandleJoinChatChannel after ValidateSession.  GetSessionUser asks       *)
(* again; if the session is gone by now the handler returns without an     *)
(* answer.  An unknown channel (None) is an error.                         *)
JoinChannel ==
  LET q == app.req
  IN  /\ app.pc = "do_join"
      /\ \/ /\ ~ HasSession(q.conn)
            /\ app' = AppIdle
            /\ UNCHANGED <<channel_of, reply>>
            /\ closed_on' = IF q.conn \in connections THEN closed_on ELSE closed_on \cup {q.id}
         \/ /\ HasSession(q.conn) /\ q.channel = None
            /\ Respond("error")
            /\ UNCHANGED channel_of
         \/ /\ HasSession(q.conn) /\ q.channel # None
            /\ channel_of' = [channel_of EXCEPT ![q.conn] = q.channel]
            /\ Respond("ok")
      /\ UNCHANGED <<appOnly, queue, user_sessions, late>>

(* HandleWriteChatMessage after ValidateSession: an error message if the   *)
(* session is gone or no channel is joined, otherwise CreateMessage and    *)
(* the broadcast (see ChatMessageStore).                                   *)
WriteMessage ==
  LET q == app.req
  IN  /\ app.pc = "do_write"
      /\ Respond(IF HasSession(q.conn) /\ channel_of[q.conn] # None THEN "ok" ELSE "error")
      /\ UNCHANGED <<appOnly, queue, storeVars, late>>

(* The read-only requests: GetUsers, GetUser, GetChats, GetChatChannels    *)
(* and GetChatChannel answer with what is stored or with an error.         *)
AnswerGet(found) ==
  /\ app.pc = "do_get"
  /\ Respond(IF found THEN "ok" ELSE "error")
  /\ UNCHANGED <<appOnly, queue, storeVars, late>>

-----------------------------------------------------------------------------

IoNext ==
  \/ \E c \in Conns : CreateConnection(c) \/ RemoveConnection(c)
  \/ \E c \in Conns :
       \/ \E u \in Users : Receive(c, "authenticate", u, None)
       \/ \E ch \in Channels \cup {None} : Receive(c, "join", None, ch)
       \/ \E op \in {"logout", "write", "get"} : Receive(c, op, None, None)
  \/ IoFindSession
  \/ IoBroadcast
  \/ IoEraseSession

AppNext ==
  \/ TakeRequest
  \/ \E match \in BOOLEAN : AuthenticateCheck(match)
  \/ AssignSession
  \/ AuthenticateReply
  \/ LogoutCheck
  \/ LogoutErase
  \/ ValidateSession
  \/ JoinChannel
  \/ WriteMessage
  \/ \E found \in BOOLEAN : AnswerGet(found)

Next == IoNext \/ AppNext

Spec == Init /\ [][Next]_vars

-----------------------------------------------------------------------------

Request ==
  [id : 1 .. MaxRequests, conn : Conns, op : Ops, user : Users \cup {None}, channel : Channels \cup {None}]

AppState ==
  {AppIdle} \cup
  [pc : Ops \cup {"assign", "granted", "unassign", "do_join", "do_write", "do_get"}, req : Request]

IoState == {IoIdle} \cup [pc : {"find", "broadcast", "erase"}, conn : Conns]

(* Connections, sessions, channel assignments and requests are made of ids *)
(* that were handed out.                                                   *)
TypeOK ==
  /\ connections \subseteq accepted /\ accepted \subseteq Conns
  /\ queue \in Seq(Request) /\ requests \in 0 .. MaxRequests
  /\ user_sessions \in [Conns -> Users \cup {None}]
  /\ channel_of \in [Conns -> Channels \cup {None}]
  /\ app \in AppState /\ io \in IoState
  /\ disconnects \in [Conns -> 0 .. 2]
  /\ late \subseteq Conns
  /\ reply \in [1 .. MaxRequests -> Seq({"ok", "error"})]
  /\ closed_on \subseteq 1 .. MaxRequests

(* An open connection without a session is in no channel: after a logout   *)
(* and a new login on the same connection, possibly as another user,       *)
(* nothing can be written or received until a channel is joined again.     *)
NoChannelWithoutSession ==
  \A c \in connections : ~ HasSession(c) => channel_of[c] = None

(* A session that outlives its connection comes from an authentication     *)
(* that was still queued when the disconnect was handled; every other      *)
(* session ends with its connection, whatever handler it meets.            *)
StaleSessionOnlyIfLate ==
  \A c \in Conns : disconnects[c] > 0 /\ HasSession(c) => c \in late

(* Every request that was taken from the queue is answered exactly once by *)
(* the time the handler ends, unless its connection is gone: no early      *)
(* return of a handler leaves a client to its timeout.                     *)
AnsweredOnce ==
  \A i \in 1 .. MaxRequests :
    /\ Len(reply[i]) <= 1
    /\ i <= requests /\ (\A k \in DOMAIN queue : queue[k].id # i)
         /\ (app # AppIdle => app.req.id # i)
         => reply[i] # <<>> \/ i \in closed_on

-----------------------------------------------------------------------------
(* The inductive invariant behind the safety properties.                   *)

(* Who works for a connection that was handed out: a disconnect only after *)
(* the connection is removed, and a new id has no past.                    *)
ConnInv ==
  /\ app # AppIdle => app.req.conn \in accepted
  /\ \A k \in 1 .. Len(queue) : queue[k].conn \in accepted
  /\ io # IoIdle => io.conn \in accepted \ connections /\ disconnects[io.conn] < 2
  /\ \A c \in Conns : disconnects[c] > 0 => c \in accepted \ connections
  /\ \A c \in Conns \ accepted : channel_of[c] = None

(* On an open connection only its own requests end a session: none can be  *)
(* gone between ValidateSession and the rest of HandleJoinChatChannel.     *)
JoinInv ==
  app.pc = "do_join" /\ app.req.conn \in connections => HasSession(app.req.conn)

(* The requests that have been taken from the queue are the first ones. *)
Taken == requests - Len(queue)

QueueInv ==
  /\ Len(queue) <= requests
  /\ \A k \in 1 .. Len(queue) : queue[k].id = Taken + k
  /\ app # AppIdle => app.req.id = Taken

Answered(i) == Len(reply[i]) = 1 \/ (reply[i] = <<>> /\ i \in closed_on)

(* A request in the queue or in its handler has no answer yet, an earlier  *)
(* one has its only one.                                                   *)
AnswerInv ==
  \A i \in 1 .. MaxRequests :
    IF i < Taken \/ (i = Taken /\ app = AppIdle) THEN Answered(i) ELSE reply[i] = <<>>

SessionsInv ==
  /\ TypeOK /\ ConnInv /\ JoinInv /\ QueueInv /\ AnswerInv
  /\ NoChannelWithoutSession /\ StaleSessionOnlyIfLate

=============================================================================
