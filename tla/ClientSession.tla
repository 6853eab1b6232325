---------------------------- MODULE ClientSession ----------------------------
(***************************************************************************)
(* The chat client: the commands typed on the UI thread, the session and   *)
(* its caches (SessionSystem, SessionStore), and the answers and events    *)
(* that arrive from the server on the application thread.                  *)
(*                                                                         *)
(* connection_id_ and user_ are shared by three threads without a lock.    *)
(* A command is one step of the UI thread, a connection event one step of  *)
(* the I/O thread.  A handler of the application thread takes two: the     *)
(* checks at its start, and its body; what the body does after an answer   *)
(* it has to wait for is a continuation kept with the pending call.        *)
(* Ids of calls and time-outs follow RpcSystem; the server is as in        *)
(* ServerSessions, and answers one connection's requests in order.         *)
(*                                                                         *)
(* An operator named X_Y is a mutant of X: the code with the mistake Y.    *)
(***************************************************************************)
EXTENDS Integers, Sequences, FiniteSets

CONSTANTS
  Me, Other,     \* user ids: the names typed here, and somebody else
  Channels,      \* ids of the channels in the database at the start
  NewChannel,    \* id of a channel that is created
  None,          \* an empty std::optional
  LogLimit,      \* chats that LoadLatestChatLog asks for, 20 in the code
  MaxInputs,     \* bound: commands typed
  MaxPending,    \* bound: calls pending when a command is typed
  MaxConns,      \* bound: connections made or being made; ids are 1 .. MaxConns
  MaxEvents      \* bound: things the other user does

ASSUME ClientAssumption ==
  /\ Me # Other /\ NewChannel \notin Channels
  /\ None \notin Channels \cup {Me, Other, NewChannel} \cup 1 .. MaxConns
  /\ LogLimit \in Nat
  /\ MaxInputs \in Nat /\ MaxPending \in Nat /\ MaxConns \in Nat /\ MaxEvents \in Nat

Conns == 1 .. MaxConns
AllChannels == Channels \cup {NewChannel}

VARIABLES
  inputs,          \* commands typed so far
  connecting,      \* Connect calls the resolver is working on
  conns,           \* connections made so far
  open,            \* connections that are up
  connection_id,   \* connection_id_
  user,            \* user_
  channel_name,    \* the channel in the prompt (UiSystem::channel_name_)
  users_cache,     \* keys of users_cache_
  channels_cache,  \* keys of channels_cache_
  calls,           \* pending calls: id, connection and continuation
  next_call,       \* next request id
  app,             \* Idle, or the message whose handler has passed its checks
  inbox,           \* messages received and queued for the application thread
  requests,        \* per connection, messages the server has not handled
  session,         \* server: per connection, the user logged in
  joined,          \* server: per connection, the channel
  chats,           \* server: all chats, as user and channel; the index is the id
  stored,          \* server: ids of the channels that exist
  older,           \* history: chats that a log left out as they were beyond LogLimit
  events,          \* things the other user did
  leaves,          \* history: how often user_ was reset
  shown,           \* history: chats the user has been shown
  null_user,       \* history: was user_ dereferenced while empty: "left" if
                   \* it was reset since the check, "checked" if not
  late_login,      \* history: a login was answered when its connection was gone
  overlapped       \* history: a command or a connection event came while
                   \* calls were pending, or a call timed out

uiVars      == <<inputs, connecting, conns, open, connection_id>>
cacheVars   == <<users_cache, channels_cache>>
callVars    == <<calls, next_call, requests>>
serverVars  == <<session, joined, chats, stored, older, events>>
histVars    == <<leaves, shown, null_user, late_login, overlapped>>
vars == <<uiVars, user, channel_name, cacheVars, callVars, app, inbox, serverVars, histVars>>

(* The application thread between two messages. *)
Idle == [kind |-> "idle"]

Init ==
  /\ inputs = 0 /\ connecting = 0 /\ conns = 0 /\ open = {}
  /\ connection_id = None /\ user = None /\ channel_name = None
  /\ users_cache = {} /\ channels_cache = {}
  /\ calls = {} /\ next_call = 1 /\ app = Idle /\ inbox = <<>>
  /\ requests = [c \in Conns |-> <<>>]
  /\ session = [c \in Conns |-> None] /\ joined = [c \in Conns |-> None]
  /\ chats = <<>> /\ stored = Channels /\ older = {} /\ events = 0
  /\ leaves = 0 /\ shown = {} /\ null_user = {} /\ late_login = FALSE /\ overlapped = FALSE

ValidateSession == connection_id # None /\ user # None

(* ModelSystem tells the UI which channel to put in the prompt. *)
SetChannelName(ch) == channel_name' = ch

(* What is cached already stays. *)
CacheUsers(us) == users_cache' = users_cache \cup us
CacheChannels(chs) == channels_cache' = channels_cache \cup chs

Busy == calls # {} \/ app # Idle

(* The continuation of a call: where to go on, with which user or chats,   *)
(* and, if chats will be shown, how often user_ had been reset when the    *)
(* session was last checked.                                               *)
Then(to, u, ids, at) == [to |-> to, user |-> u, chats |-> ids, at |-> at]
Nothing == Then("nothing", None, {}, 0)

(* RpcCall::Call: the request goes out if the connection is still there.   *)
(* The error handler of every call only logs, its time-out handler too.    *)
Call(conn, kind, arg, then) ==
  /\ calls' = calls \cup {[id |-> next_call, conn |-> conn, then |-> then]}
  /\ next_call' = next_call + 1
  /\ requests' = IF conn \notin open THEN requests
                 ELSE [requests EXCEPT ![conn] = Append(@, [kind |-> kind, arg |-> arg, call |-> next_call])]

-----------------------------------------------------------------------------
(* UI thread: the commands of SessionSystem.                               *)

Typed ==
  /\ inputs < MaxInputs /\ Cardinality(calls) <= MaxPending
  /\ inputs' = inputs + 1
  /\ overlapped' = (overlapped \/ Busy)
  /\ UNCHANGED <<conns, open, connection_id, cacheVars, app, inbox, serverVars,
                 shown, null_user, late_login>>

KeepsSession == UNCHANGED <<user, channel_name, leaves>>

Connect ==
  /\ conns + connecting < MaxConns
  /\ connecting' = connecting + 1
  /\ KeepsSession /\ UNCHANGED callVars

Login(u) ==
  /\ connection_id # None
  /\ Call(connection_id, "authenticate", u, Nothing)
  /\ KeepsSession /\ UNCHANGED connecting

Logout_KeepsPrompt ==
  /\ ValidateSession
  /\ user' = None /\ leaves' = leaves + 1
  /\ Call(connection_id, "logout", None, Nothing)
  /\ UNCHANGED <<channel_name, connecting>>

Logout ==
  /\ ValidateSession
  /\ user' = None /\ leaves' = leaves + 1
  /\ SetChannelName(None)
  /\ Call(connection_id, "logout", None, Nothing)
  /\ UNCHANGED connecting

(* A chat is sent without a call: nothing is answered. *)
Send ==
  /\ connection_id # None
  /\ requests' = IF connection_id \notin open THEN requests
                 ELSE [requests EXCEPT ![connection_id] = Append(@, [kind |-> "write", arg |-> None, call |-> 0])]
  /\ KeepsSession /\ UNCHANGED <<calls, next_call, connecting>>

AddUser ==
  /\ connection_id # None
  /\ Call(connection_id, "createUser", Me, Nothing)
  /\ KeepsSession /\ UNCHANGED connecting

GetChannels ==
  /\ connection_id # None
  /\ Call(connection_id, "channels", None, Nothing)
  /\ KeepsSession /\ UNCHANGED connecting

CreateChannel ==
  /\ ValidateSession
  /\ Call(connection_id, "create", NewChannel, Nothing)
  /\ KeepsSession /\ UNCHANGED connecting

JoinChannel(ch) ==
  /\ ValidateSession
  /\ Call(connection_id, "join", ch, Nothing)
  /\ KeepsSession /\ UNCHANGED connecting

(* The commands: each checks its arguments; with too few, or with a        *)
(* channel id that is not a number, it logs and does nothing.              *)
ConnectCommand(args)     == Len(args) >= 2 /\ Connect
LoginCommand(args)       == Len(args) >= 2 /\ Login(args[1])
AddUserCommand(args)     == Len(args) >= 2 /\ AddUser
JoinChannelCommand(args) == args # <<>> /\ args[1] \in AllChannels /\ JoinChannel(args[1])
AddChannelCommand(args)  == args # <<>> /\ CreateChannel
GetChannelsCommand       == GetChannels
LogoutCommand            == Logout

(* CommandsSystem: the first word selects the command (an unknown one is   *)
(* logged, /help prints, /exit ends the program).                          *)
Execute(args) ==
  \/ ConnectCommand(args) \/ LoginCommand(args) \/ AddUserCommand(args)
  \/ JoinChannelCommand(args) \/ AddChannelCommand(args)
  \/ GetChannelsCommand \/ LogoutCommand

(* UiSystem::HandleInput: a line that does not start with a slash is a     *)
(* chat, any other a command.                                              *)
HandleInput(args) == Typed /\ (Send \/ Execute(args))

-----------------------------------------------------------------------------
(* I/O thread: the ConnectionEventHandler.                                 *)

OnConnected ==
  /\ connecting > 0
  /\ connecting' = connecting - 1
  /\ conns' = conns + 1
  /\ open' = open \cup {conns + 1}
  /\ connection_id' = conns + 1
  /\ overlapped' = (overlapped \/ Busy \/ connection_id # None)
  /\ UNCHANGED <<inputs, user, channel_name, cacheVars, callVars, app, inbox, serverVars,
                 leaves, shown, null_user, late_login>>

(* OnConnectionFailed only logs. *)
OnConnectionFailed ==
  /\ connecting > 0
  /\ connecting' = connecting - 1
  /\ UNCHANGED <<inputs, conns, open, connection_id, user, channel_name, cacheVars, callVars,
                 app, inbox, serverVars, histVars>>

OnDisconnected_KeepsUser ==
  /\ connection_id' = None
  /\ SetChannelName(None)
  /\ UNCHANGED <<user, leaves>>

(* The id of the connection that was lost is not looked at. *)
OnDisconnected ==
  /\ connection_id' = None
  /\ user' = None /\ leaves' = leaves + 1
  /\ SetChannelName(None)

(* A connection is lost: what the server had not handled is gone, and the  *)
(* server ends the session; answers already received stay in the queue.    *)
Lose(c) ==
  /\ c \in open
  /\ open' = open \ {c}
  /\ requests' = [requests EXCEPT ![c] = <<>>]
  /\ session' = [session EXCEPT ![c] = None]
  /\ joined' = [joined EXCEPT ![c] = None]
  /\ OnDisconnected
  /\ overlapped' = (overlapped \/ Busy \/ Len(inbox) > 0)
  /\ UNCHANGED <<inputs, connecting, conns, cacheVars, calls, next_call, app, inbox,
                 chats, stored, older, events, shown, null_user, late_login>>

-----------------------------------------------------------------------------
(* Application thread.                                                     *)

(* ProcessChatMessage for each chat whose author is in the cache.          *)
ProcessChatMessages(then, cache) ==
  LET known == {i \in then.chats : chats[i].user \in cache}
  IN  /\ shown' = shown \cup known
      /\ null_user' = IF known = {} \/ user # None THEN null_user
                      ELSE null_user \cup {IF then.at = leaves THEN "checked" ELSE "left"}

LoadUsers_DropsCallback(conn, ids, then) ==
  IF ids \subseteq users_cache
  THEN ProcessChatMessages(then, users_cache) /\ UNCHANGED callVars
  ELSE Call(conn, "users", ids \ users_cache, [then EXCEPT !.chats = {}]) /\ UNCHANGED <<shown, null_user>>

(* SessionStore::LoadUsers, and LoadUser for a single id: the callback at  *)
(* once if all are cached, otherwise after GetUsers for the missing ones.  *)
LoadUsers(conn, ids, then) ==
  IF ids \subseteq users_cache
  THEN ProcessChatMessages(then, users_cache) /\ UNCHANGED callVars
  ELSE Call(conn, "users", ids \ users_cache, then) /\ UNCHANGED <<shown, null_user>>

LoadUser(conn, u, then) == LoadUsers(conn, {u}, then)

LoadLatestChatLog(ch) ==
  IF ValidateSession THEN Call(connection_id, "chats", ch, Nothing) ELSE UNCHANGED callVars

(* The callback of LoadChannel: of a join answer, which shows the channel  *)
(* and loads its log, or of somebody's joining or leaving.                 *)
ChannelLoaded(ch, then) ==
  \/ /\ then.to = "joined"
     /\ SetChannelName(ch)
     /\ LoadLatestChatLog(ch)
     /\ UNCHANGED <<shown, null_user>>
  \/ /\ then.to = "member" /\ ValidateSession
     /\ LoadUser(connection_id, then.user, Nothing)
     /\ UNCHANGED channel_name
  \/ /\ then.to = "member" /\ ~ ValidateSession
     /\ UNCHANGED <<channel_name, callVars, shown, null_user>>

LoadChannel(conn, ch, then) ==
  IF ch \in channels_cache
  THEN ChannelLoaded(ch, then)
  ELSE Call(conn, "channel", ch, then) /\ UNCHANGED <<channel_name, shown, null_user>>

Quietly == UNCHANGED <<callVars, shown, null_user>>

(* The OnSuccess handlers.                                                 *)
OnAuthenticated(m) ==
  /\ m.kind = "authenticate"
  /\ CacheUsers({m.data})
  /\ user' = m.data
  /\ late_login' = (late_login \/ connection_id # m.conn)
  /\ Quietly /\ UNCHANGED <<channel_name, channels_cache>>

OnUserCreated(m) ==
  /\ m.kind = "createUser"
  /\ CacheUsers({m.data})
  /\ Quietly /\ UNCHANGED <<user, channel_name, channels_cache, late_login>>

OnLoggedOut(m) ==
  /\ m.kind = "logout"
  /\ Quietly /\ UNCHANGED <<user, channel_name, cacheVars, late_login>>

(* GetChatChannels and CreateChannel: what is answered is cached. *)
OnChannels(m) ==
  /\ m.kind \in {"channels", "create"}
  /\ CacheChannels(m.data)
  /\ Quietly /\ UNCHANGED <<user, channel_name, users_cache, late_login>>

OnJoined(m) ==
  /\ m.kind = "join"
  /\ LoadChannel(connection_id, m.data, Then("joined", None, {}, 0))
  /\ UNCHANGED <<user, cacheVars, late_login>>

OnChannel(m) ==
  /\ m.kind = "channel"
  /\ CacheChannels({m.data})
  /\ ChannelLoaded(m.data, m.then)
  /\ UNCHANGED <<user, users_cache, late_login>>

OnChats(m) ==
  /\ m.kind = "chats"
  /\ LoadUsers(connection_id, {chats[i].user : i \in m.data}, Then("chat", None, m.data, m.at))
  /\ UNCHANGED <<user, channel_name, cacheVars, late_login>>

OnUsers(m) ==
  /\ m.kind = "users"
  /\ CacheUsers(m.data)
  /\ ProcessChatMessages(m.then, users_cache')
  /\ UNCHANGED <<callVars, user, channel_name, channels_cache, late_login>>

(* The events.                                                             *)
HandlePresenceEvent(m) ==
  /\ m.kind = "presence"
  /\ LoadUser(connection_id, m.user, Nothing)
  /\ UNCHANGED <<user, channel_name, cacheVars, late_login>>

HandleReceiveChatEvent(m) ==
  /\ m.kind = "chat"
  /\ LoadUser(connection_id, m.user, Then("chat", None, {m.data}, m.at))
  /\ UNCHANGED <<user, channel_name, cacheVars, late_login>>

HandleChannelCreateEvent(m) ==
  /\ m.kind = "created"
  /\ CacheChannels({m.data})
  /\ LoadUser(connection_id, m.user, Nothing)
  /\ UNCHANGED <<user, channel_name, users_cache, late_login>>

HandleMemberEvent(m) ==
  /\ m.kind = "member"
  /\ LoadChannel(connection_id, m.data, Then("member", m.user, {}, 0))
  /\ UNCHANGED <<user, cacheVars, late_login>>

(* The second step of the handler in progress: its body. *)
Act ==
  /\ app # Idle
  /\ \/ OnAuthenticated(app) \/ OnUserCreated(app) \/ OnLoggedOut(app) \/ OnChannels(app)
     \/ OnJoined(app) \/ OnChannel(app) \/ OnChats(app) \/ OnUsers(app)
     \/ HandlePresenceEvent(app) \/ HandleReceiveChatEvent(app)
     \/ HandleChannelCreateEvent(app) \/ HandleMemberEvent(app)
  /\ app' = Idle
  /\ UNCHANGED <<uiVars, inbox, serverVars, leaves, overlapped>>

Pending(m) == {k \in calls : k.id = m.call}

ChecksAnswer_NoSession(kind) == TRUE

(* Which answers are checked for a session before anything is done. *)
ChecksAnswer(kind) == kind \in {"join", "chats"} => ValidateSession

(* An event needs a session, and one about oneself is ignored, except a chat. *)
ChecksEvent(m) == ValidateSession /\ (m.kind = "chat" \/ user # m.user)

(* The first step: the processor hands out the next message.  An answer    *)
(* takes its call from the pending ones, if the call has not timed out; an *)
(* error is logged.                                                        *)
TakeAnswer(m) ==
  /\ m.call > 0
  /\ calls' = calls \ Pending(m)
  /\ app' = IF m.kind # "error" /\ ChecksAnswer(m.kind) /\ Pending(m) # {}
            THEN LET k == CHOOSE k \in calls : k.id = m.call
                 IN  [kind |-> m.kind, data |-> m.data, conn |-> k.conn, then |-> k.then, at |-> leaves]
            ELSE Idle

TakeEvent(m) ==
  /\ m.call = 0
  /\ app' = IF ChecksEvent(m)
            THEN [kind |-> m.kind, data |-> m.data, user |-> m.user, at |-> leaves] ELSE Idle
  /\ UNCHANGED calls

TakeMessage ==
  /\ app = Idle /\ inbox # <<>>
  /\ inbox' = Tail(inbox)
  /\ TakeAnswer(Head(inbox)) \/ TakeEvent(Head(inbox))
  /\ UNCHANGED <<uiVars, user, channel_name, cacheVars, next_call, requests, serverVars, histVars>>

(* A call times out: its callbacks are dropped and a line is logged. *)
Timeout(k) ==
  /\ k \in calls
  /\ calls' = calls \ {k}
  /\ overlapped' = TRUE
  /\ UNCHANGED <<uiVars, user, channel_name, cacheVars, next_call, requests, app, inbox,
                 serverVars, leaves, shown, null_user, late_login>>

-----------------------------------------------------------------------------
(* The server.                                                             *)

Answer(r, data) == <<[call |-> r.call, kind |-> r.kind, data |-> data]>>
Error(r) == <<[call |-> r.call, kind |-> "error", data |-> None]>>
Event(kind, u, data) == [call |-> 0, kind |-> kind, user |-> u, data |-> data]

(* One event for each of these connections. *)
Broadcast(to, e) == [i \in 1 .. Cardinality(to) |-> e]
In(ch) == {c \in open : joined[c] = ch}

ServeAuthenticate(c, r, match) ==
  /\ r.kind = "authenticate"
  /\ LET granted == match /\ session[c] = None /\ \A d \in Conns : session[d] # r.arg
     IN  /\ session' = IF granted THEN [session EXCEPT ![c] = r.arg] ELSE session
         /\ inbox' = inbox \o (IF granted THEN Answer(r, r.arg) \o Broadcast(open, Event("presence", r.arg, None))
                               ELSE Error(r))
  /\ UNCHANGED <<joined, chats, stored, older>>

ServeCreateUser(r) ==
  /\ r.kind = "createUser"
  /\ inbox' \in {inbox \o Answer(r, r.arg), inbox \o Error(r)}
  /\ UNCHANGED <<session, joined, chats, stored, older>>

(* ValidateSession of the server: every other request needs a session. *)
ServeUnauthorized(c, r) ==
  /\ r.kind \notin {"authenticate", "createUser"} /\ session[c] = None
  /\ inbox' = IF r.call = 0 THEN inbox ELSE inbox \o Error(r)
  /\ UNCHANGED <<session, joined, chats, stored, older>>

ServeLogout(c, r) ==
  /\ r.kind = "logout" /\ session[c] # None
  /\ session' = [session EXCEPT ![c] = None]
  /\ joined' = [joined EXCEPT ![c] = None]
  /\ inbox' = inbox \o Broadcast(open, Event("presence", session[c], None)) \o Answer(r, None)
  /\ UNCHANGED <<chats, stored, older>>

ServeJoin(c, r) ==
  /\ r.kind = "join" /\ session[c] # None
  /\ joined' = IF r.arg \in stored THEN [joined EXCEPT ![c] = r.arg] ELSE joined
  /\ inbox' = inbox \o (IF r.arg \notin stored THEN Error(r)
                        ELSE (IF joined[c] = None THEN <<>>
                              ELSE Broadcast(In(joined[c]), Event("member", session[c], joined[c])))
                             \o Broadcast(In(r.arg) \cup {c}, Event("member", session[c], r.arg))
                             \o Answer(r, r.arg))
  /\ UNCHANGED <<session, chats, stored, older>>

ServeWrite(c, r) ==
  /\ r.kind = "write" /\ session[c] # None
  /\ IF joined[c] = None THEN UNCHANGED <<chats, inbox>>
     ELSE /\ chats' = Append(chats, [user |-> session[c], channel |-> joined[c]])
          /\ inbox' = inbox \o Broadcast(In(joined[c]), Event("chat", session[c], Len(chats) + 1))
  /\ UNCHANGED <<session, joined, stored, older>>

ServeCreateChannel(c, r) ==
  /\ r.kind = "create" /\ session[c] # None
  /\ stored' = stored \cup {r.arg}
  /\ inbox' = inbox \o Answer(r, {r.arg}) \o
                (IF r.arg \in stored THEN <<>> ELSE Broadcast(open, Event("created", session[c], r.arg)))
  /\ UNCHANGED <<session, joined, chats, older>>

ChatLog(ch) == {i \in DOMAIN chats : chats[i].channel = ch}

(* What GetChats answers: the latest chats of the channel (ChatMessageStore). *)
LatestChats(ch) ==
  {i \in ChatLog(ch) : Cardinality({j \in ChatLog(ch) : j > i}) < LogLimit}

(* GetUsers, GetChatChannel, GetChatChannels and GetChats. *)
ServeQuery(c, r) ==
  /\ r.kind \in {"users", "channel", "channels", "chats"} /\ session[c] # None
  /\ inbox' = inbox \o Answer(r, CASE r.kind = "channels" -> stored
                                   [] r.kind = "chats" -> LatestChats(r.arg)
                                   [] OTHER -> r.arg)
  /\ older' = IF r.kind = "chats" THEN older \cup (ChatLog(r.arg) \ LatestChats(r.arg)) ELSE older
  /\ UNCHANGED <<session, joined, chats, stored>>

Serve(c) ==
  /\ c \in open /\ requests[c] # <<>>
  /\ LET r == Head(requests[c])
     IN  \/ \E match \in BOOLEAN : ServeAuthenticate(c, r, match)
         \/ ServeCreateUser(r) \/ ServeUnauthorized(c, r) \/ ServeLogout(c, r) \/ ServeJoin(c, r)
         \/ ServeWrite(c, r) \/ ServeCreateChannel(c, r) \/ ServeQuery(c, r)
  /\ requests' = [requests EXCEPT ![c] = Tail(@)]
  /\ UNCHANGED <<uiVars, user, channel_name, cacheVars, calls, next_call, app, events, histVars>>

(* The other user logs in or out, writes, joins or leaves a channel, or    *)
(* creates one.                                                            *)
OtherActs ==
  /\ events < MaxEvents
  /\ events' = events + 1
  /\ \/ \E ch \in Channels :
          /\ chats' = Append(chats, [user |-> Other, channel |-> ch])
          /\ inbox' = inbox \o Broadcast(In(ch), Event("chat", Other, Len(chats) + 1))
          /\ UNCHANGED stored
     \/ \E ch \in Channels : inbox' = inbox \o Broadcast(In(ch), Event("member", Other, ch)) /\ UNCHANGED <<chats, stored>>
     \/ inbox' = inbox \o Broadcast(open, Event("presence", Other, None)) /\ UNCHANGED <<chats, stored>>
     \/ /\ NewChannel \notin stored
        /\ stored' = stored \cup {NewChannel}
        /\ inbox' = inbox \o Broadcast(open, Event("created", Other, NewChannel))
        /\ UNCHANGED chats
  /\ UNCHANGED <<uiVars, user, channel_name, cacheVars, callVars, app, session, joined, older, histVars>>

-----------------------------------------------------------------------------

Args == {<<Me, "password">>} \cup {<<ch>> : ch \in AllChannels}

Next ==
  \/ \E args \in Args : HandleInput(args)
  \/ OnConnected \/ OnConnectionFailed
  \/ \E c \in Conns : Lose(c) \/ Serve(c)
  \/ TakeMessage \/ Act
  \/ \E k \in calls : Timeout(k)
  \/ OtherActs

Spec == Init /\ [][Next]_vars

-----------------------------------------------------------------------------

(* Nothing is on its way: no call is pending, no message queued. *)
Quiet == ~ Busy /\ inbox = <<>> /\ \A c \in Conns : requests[c] = <<>>

(* ProcessChatMessage reads user_->id without a check of its own.  It      *)
(* finds user_ empty only when a logout or a lost connection came after    *)
(* the session was last checked on the way to it, across both the GetChats *)
(* and the GetUsers answer; the checks themselves are enough.              *)
NullUserOnlyAfterLeave == "checked" \notin null_user

(* The client is logged in without a connection only if the answer to a    *)
(* login was handled after its connection was lost or replaced.            *)
UserOnlyWhileConnected == user # None /\ connection_id = None => late_login

(* If no command or connection event overlaps with a pending call, then,   *)
(* whenever everything has been answered, the user and the prompt are what *)
(* the server has for the connection.                                      *)
SessionAgrees ==
  Quiet /\ ~ overlapped /\ connection_id # None =>
    user = session[connection_id] /\ channel_name = joined[connection_id]

(* A channel is joined before its log is requested, so that no chat falls  *)
(* between the log and the events: when everything has been answered,      *)
(* every chat of the channel in the prompt has been shown, but for those   *)
(* that were already older than the LogLimit latest ones when a log of the *)
(* channel was made.                                                       *)
NoGap ==
  Quiet /\ ~ overlapped /\ channel_name # None =>
    \A i \in DOMAIN chats : chats[i].channel = channel_name => i \in shown \cup older

-----------------------------------------------------------------------------
(* The inductive invariant behind the first two properties.                *)

Users == {Me, Other}
ChatIds == 1 .. Len(chats)

(* What a continuation goes on with. *)
Continuation ==
  {t \in [to : {"nothing", "joined", "member", "chat"}, user : Users \cup {None},
          chats : SUBSET ChatIds, at : Nat] : t.to = "member" => t.user # None}

AnswerKinds ==
  {"authenticate", "createUser", "logout", "channels", "create", "join", "channel", "chats", "users"}
(* Requests, answers, events and handlers, each with what its kind carries. *)
RequestsWith(kinds, args) == [kind : kinds, arg : args, call : Nat \ {0}]
AnswersWith(kinds, data) == [kind : kinds, data : data, call : Nat \ {0}]
EventsWith(kinds, data) == [kind : kinds, data : data, user : Users, call : {0}]

Requests ==
  RequestsWith({"authenticate", "createUser"}, Users)
    \cup RequestsWith({"create", "join", "channel", "chats"}, AllChannels)
    \cup RequestsWith({"users"}, SUBSET Users)
    \cup RequestsWith({"logout", "channels"}, {None})
    \cup [kind : {"write"}, arg : {None}, call : {0}]
Messages ==
  AnswersWith({"authenticate", "createUser"}, Users)
    \cup AnswersWith({"channels", "create"}, SUBSET AllChannels)
    \cup AnswersWith({"join", "channel"}, AllChannels)
    \cup AnswersWith({"chats"}, SUBSET ChatIds)
    \cup AnswersWith({"users"}, SUBSET Users)
    \cup AnswersWith({"logout", "error"}, {None})
    \cup EventsWith({"presence"}, {None})
    \cup EventsWith({"chat"}, ChatIds)
    \cup EventsWith({"created", "member"}, AllChannels)

HandledWith(kinds, data) ==
  [kind : kinds, data : data, conn : Conns \cup {None}, then : Continuation, at : Nat]
NotifiedWith(kinds, data) == [kind : kinds, data : data, user : Users, at : Nat]
Handlers ==
  HandledWith({"authenticate", "createUser"}, Users)
    \cup HandledWith({"channels", "create"}, SUBSET AllChannels)
    \cup HandledWith({"join", "channel"}, AllChannels)
    \cup HandledWith({"chats"}, SUBSET ChatIds)
    \cup HandledWith({"users"}, SUBSET Users)
    \cup HandledWith({"logout"}, {None})
    \cup NotifiedWith({"presence"}, {None})
    \cup NotifiedWith({"chat"}, ChatIds)
    \cup NotifiedWith({"created", "member"}, AllChannels)

UiOK ==
  /\ inputs \in Nat /\ connecting \in Nat /\ conns \in Nat /\ connecting + conns <= MaxConns
  /\ open \subseteq Conns /\ connection_id \in Conns \cup {None}
  /\ user \in Users \cup {None} /\ channel_name \in AllChannels \cup {None}
  /\ users_cache \subseteq Users /\ channels_cache \subseteq AllChannels

CallsOK ==
  /\ calls \subseteq [id : Nat \ {0}, conn : Conns \cup {None}, then : Continuation]
  /\ next_call \in Nat \ {0}
  /\ requests \in [Conns -> Seq(Requests)]

AppOK == app \in {Idle} \cup Handlers /\ inbox \in Seq(Messages)

ServerOK ==
  /\ session \in [Conns -> Users \cup {None}]
  /\ joined \in [Conns -> AllChannels \cup {None}]
  /\ chats \in Seq([user : Users, channel : AllChannels])
  /\ stored \subseteq AllChannels /\ events \in Nat

OlderOK == older \subseteq ChatIds

HistoryOK ==
  /\ leaves \in Nat /\ shown \subseteq ChatIds /\ null_user \subseteq {"left", "checked"}
  /\ late_login \in BOOLEAN /\ overlapped \in BOOLEAN

(* Every message has what its handler goes on with: ids of users, channels *)
(* and chats that there are.                                               *)
TypeOK == UiOK /\ CallsOK /\ AppOK /\ ServerOK /\ OlderOK /\ HistoryOK

(* What a request or an answer belongs to: a call that was made, and while *)
(* it is pending, made on a connection.                                    *)
MadeOnConnection(i) == i \in 0 .. next_call - 1 /\ \A k \in calls : k.id = i => k.conn # None

OriginInv ==
  /\ \A k \in calls : k.id < next_call
  /\ \A c \in Conns : \A i \in 1 .. Len(requests[c]) : MadeOnConnection(requests[c][i].call)
  /\ \A i \in 1 .. Len(inbox) : MadeOnConnection(inbox[i].call)
  /\ app # Idle /\ app.kind \in AnswerKinds => app.conn # None

(* A session checked after the a-th reset of user_ lasts until the next. *)
CheckedAt(a) == a <= leaves /\ (a = leaves => user # None)

CheckInv ==
  /\ \A k \in calls : k.then.chats # {} => CheckedAt(k.then.at)
  /\ app # Idle /\ app.kind \in {"chats", "chat"} => CheckedAt(app.at)
  /\ app # Idle /\ app.kind = "users" /\ app.then.chats # {} => CheckedAt(app.then.at)

ClientInv ==
  /\ TypeOK /\ OriginInv /\ CheckInv
  /\ NullUserOnlyAfterLeave /\ UserOnlyWhileConnected
=============================================================================
