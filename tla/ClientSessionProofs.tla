------------------------- MODULE ClientSessionProofs -------------------------
(***************************************************************************)
(* Proofs about ClientSession: its messages are well formed, the client is *)
(* logged in without a connection only after a late answer, user_ is read  *)
(* while empty only after it was reset; and while nothing overlaps, the    *)
(* client and the server agree on the session, and no chat is missed.      *)
(***************************************************************************)
EXTENDS ClientSession, Functions, FiniteSetTheorems, TLAPS

LEMMA Distinct == None \notin Users /\ None \notin AllChannels /\ None \notin Conns
BY ClientAssumption DEF Users, AllChannels, Conns

-----------------------------------------------------------------------------
(* What there is of chats only grows, and with it what may be said of them. *)

LEMMA SeqGrows ==
  ASSUME NEW S, NEW T, S \subseteq T, NEW s \in Seq(S)
  PROVE  s \in Seq(T)
OBVIOUS

LEMMA ElementOf ==
  ASSUME NEW S, NEW s \in Seq(S), NEW i \in 1 .. Len(s)
  PROVE  s[i] \in S
OBVIOUS

ChatsGrow == Len(chats) \in Nat /\ Len(chats)' \in Nat /\ Len(chats) <= Len(chats)'

LEMMA Growing ==
  ASSUME ChatsGrow
  PROVE  /\ ChatIds \subseteq ChatIds' /\ Continuation \subseteq Continuation'
         /\ Messages \subseteq Messages' /\ Handlers \subseteq Handlers'
         /\ Seq(Messages) \subseteq Seq(Messages')
<1>1. ChatIds \subseteq ChatIds'
  BY DEF ChatsGrow, ChatIds
<1>2. SUBSET ChatIds \subseteq SUBSET (ChatIds')
  BY <1>1
<1>3. Continuation \subseteq Continuation'
  BY <1>2 DEF Continuation
<1>4. Messages \subseteq Messages'
  BY <1>1, <1>2 DEF Messages, AnswersWith, EventsWith
<1>5. Handlers \subseteq Handlers'
  BY <1>1, <1>2, <1>3 DEF Handlers, HandledWith, NotifiedWith
<1> QED BY <1>1, <1>3, <1>4, <1>5, SeqGrows

LEMMA SameChats == TypeOK /\ UNCHANGED chats => ChatsGrow
BY DEF TypeOK, ServerOK, ChatsGrow

(* The messages, taken apart and put together. *)
LEMMA MessageFacts ==
  ASSUME NEW m \in Messages
  PROVE  /\ m.call \in Nat
         /\ m.call > 0 /\ m.kind # "error" =>
              \A k \in Conns \cup {None}, t \in Continuation, a \in Nat :
                [kind |-> m.kind, data |-> m.data, conn |-> k, then |-> t, at |-> a] \in Handlers
         /\ m.call = 0 =>
              /\ m.kind \notin AnswerKinds
              /\ \A a \in Nat : [kind |-> m.kind, data |-> m.data, user |-> m.user, at |-> a] \in Handlers
<1>1. m.call \in Nat
  BY DEF Messages, AnswersWith, EventsWith
<1>2. ASSUME m.call > 0, m.kind # "error", NEW k \in Conns \cup {None}, NEW t \in Continuation, NEW a \in Nat
      PROVE  [kind |-> m.kind, data |-> m.data, conn |-> k, then |-> t, at |-> a] \in Handlers
  BY <1>2 DEF Messages, AnswersWith, EventsWith, Handlers, HandledWith
<1>3. ASSUME m.call = 0
      PROVE  /\ m.kind \notin AnswerKinds
             /\ \A a \in Nat : [kind |-> m.kind, data |-> m.data, user |-> m.user, at |-> a] \in Handlers
  BY <1>3 DEF Messages, AnswersWith, EventsWith, Handlers, NotifiedWith, AnswerKinds
<1> QED BY <1>1, <1>2, <1>3

LEMMA RequestFacts ==
  ASSUME NEW r \in Requests
  PROVE  /\ r.call \in Nat /\ (r.call = 0 <=> r.kind = "write")
         /\ r.kind \in AnswerKinds \cup {"write"}
         /\ r.kind \in {"authenticate", "createUser"} => r.arg \in Users
         /\ r.kind \in {"create", "join", "channel", "chats"} => r.arg \in AllChannels
         /\ r.kind = "users" => r.arg \subseteq Users
BY DEF Requests, RequestsWith, AnswerKinds

LEMMA BroadcastType ==
  ASSUME NEW S, NEW to \in SUBSET Conns, NEW e \in S
  PROVE  /\ Broadcast(to, e) \in Seq(S)
         /\ \A i \in 1 .. Len(Broadcast(to, e)) : Broadcast(to, e)[i] = e
<1>1. IsFiniteSet(to)
  <2>1. MaxConns \in Int /\ 1 \in Int
    BY ClientAssumption
  <2>2. IsFiniteSet(Conns)
    BY <2>1, FS_Interval DEF Conns
  <2> QED BY <2>2, FS_Subset
<1>2. Cardinality(to) \in Nat
  BY <1>1, FS_CardinalityType
<1> QED BY <1>2 DEF Broadcast
-----------------------------------------------------------------------------
(* Every step of a handler or a command makes at most one call, and shows  *)
(* chats at most once.                                                     *)

(* What the caller of Call, LoadUsers and ProcessChatMessages hands on. *)
GoesOn(then) ==
  /\ then \in Continuation
  /\ then.chats # {} => /\ app # Idle
                        /\ \/ app.kind \in {"chats", "chat"} /\ then.at = app.at
                           \/ app.kind = "users" /\ then = app.then

CallsOnce ==
  \E conn, kind, arg, then :
    /\ conn \in Conns \cup {None}
    /\ Call(conn, kind, arg, then)
    /\ \A n \in Nat \ {0} : [kind |-> kind, arg |-> arg, call |-> n] \in Requests
    /\ GoesOn(then)

CallsAtMostOnce == CallsOnce \/ UNCHANGED callVars

ShowsAtMostOnce ==
  \/ UNCHANGED <<shown, null_user>>
  \/ \E then, cache : ProcessChatMessages(then, cache) /\ GoesOn(then)

LEMMA ThenType ==
  ASSUME NEW to \in {"nothing", "joined", "member", "chat"}, NEW u \in Users \cup {None},
         to = "member" => u # None, NEW ids \in SUBSET ChatIds, NEW at \in Nat
  PROVE  /\ Then(to, u, ids, at) \in Continuation
         /\ Then(to, u, ids, at).chats = ids /\ Then(to, u, ids, at).at = at
         /\ Then(to, u, ids, at).to = to /\ Then(to, u, ids, at).user = u
BY DEF Then, Continuation

LEMMA NothingGoesOn == GoesOn(Nothing)
BY ThenType DEF Nothing, GoesOn

LEMMA ContinuationFacts ==
  ASSUME NEW t \in Continuation
  PROVE  /\ t.chats \subseteq ChatIds /\ t.at \in Nat
         /\ t.to = "member" => t.user \in Users
BY DEF Continuation

LEMMA LoadUsersShape ==
  ASSUME TypeOK, NEW conn \in Conns \cup {None}, NEW ids \in SUBSET Users, NEW then, GoesOn(then),
         LoadUsers(conn, ids, then)
  PROVE  CallsAtMostOnce /\ ShowsAtMostOnce
<1>1. CASE ids \subseteq users_cache
  BY <1>1 DEF LoadUsers, CallsAtMostOnce, ShowsAtMostOnce
<1>2. CASE ~ (ids \subseteq users_cache)
  <2>1. \A n \in Nat \ {0} : [kind |-> "users", arg |-> ids \ users_cache, call |-> n] \in Requests
    BY DEF Requests, RequestsWith
  <2>2. Call(conn, "users", ids \ users_cache, then) /\ UNCHANGED <<shown, null_user>>
    BY <1>2 DEF LoadUsers
  <2> QED BY <2>1, <2>2 DEF CallsAtMostOnce, CallsOnce, ShowsAtMostOnce
<1> QED BY <1>1, <1>2

LEMMA ChannelLoadedShape ==
  ASSUME TypeOK, NEW ch \in AllChannels, NEW then \in Continuation, ChannelLoaded(ch, then)
  PROVE  CallsAtMostOnce /\ ShowsAtMostOnce /\ channel_name' \in AllChannels \cup {None}
<1>1. channel_name' \in AllChannels \cup {None}
  BY DEF ChannelLoaded, SetChannelName, TypeOK, UiOK
<1>2. CASE LoadLatestChatLog(ch) /\ UNCHANGED <<shown, null_user>>
  <2>1. \A n \in Nat \ {0} : [kind |-> "chats", arg |-> ch, call |-> n] \in Requests
    BY DEF Requests, RequestsWith
  <2>2. connection_id \in Conns \cup {None}
    BY DEF TypeOK, UiOK
  <2>3. Call(connection_id, "chats", ch, Nothing) \/ UNCHANGED callVars
    BY <1>2 DEF LoadLatestChatLog
  <2> QED BY <1>1, <1>2, <2>1, <2>2, <2>3, NothingGoesOn DEF CallsAtMostOnce, CallsOnce, ShowsAtMostOnce
<1>3. CASE then.to = "member" /\ LoadUser(connection_id, then.user, Nothing)
  <2>1. {then.user} \in SUBSET Users /\ connection_id \in Conns \cup {None}
    BY <1>3, ContinuationFacts DEF TypeOK, UiOK
  <2>2. LoadUsers(connection_id, {then.user}, Nothing)
    BY <1>3 DEF LoadUser
  <2> QED BY <1>1, <2>1, <2>2, NothingGoesOn, LoadUsersShape
<1>4. CASE UNCHANGED <<callVars, shown, null_user>>
  BY <1>1, <1>4 DEF CallsAtMostOnce, ShowsAtMostOnce
<1> QED BY <1>2, <1>3, <1>4 DEF ChannelLoaded

LEMMA LoadChannelShape ==
  ASSUME TypeOK, NEW conn \in Conns \cup {None}, NEW ch \in AllChannels, NEW then, GoesOn(then),
         LoadChannel(conn, ch, then)
  PROVE  CallsAtMostOnce /\ ShowsAtMostOnce /\ channel_name' \in AllChannels \cup {None}
<1>1. CASE ch \in channels_cache
  BY <1>1, ChannelLoadedShape DEF LoadChannel, GoesOn
<1>2. CASE ch \notin channels_cache
  <2>1. \A n \in Nat \ {0} : [kind |-> "channel", arg |-> ch, call |-> n] \in Requests
    BY DEF Requests, RequestsWith
  <2>2. Call(conn, "channel", ch, then) /\ UNCHANGED <<channel_name, shown, null_user>>
    BY <1>2 DEF LoadChannel
  <2>3. channel_name' \in AllChannels \cup {None}
    BY <2>2 DEF TypeOK, UiOK
  <2> QED BY <2>1, <2>2, <2>3 DEF CallsAtMostOnce, CallsOnce, ShowsAtMostOnce
<1> QED BY <1>1, <1>2

LEMMA HandlerFacts ==
  ASSUME NEW h \in Handlers
  PROVE  /\ h.kind \in AnswerKinds => h.then \in Continuation /\ h.conn \in Conns \cup {None}
         /\ h.kind \notin AnswerKinds => h.user \in Users
         /\ h.at \in Nat
         /\ h.kind \in {"authenticate", "createUser"} => h.data \in Users
         /\ h.kind \in {"channels", "create"} => h.data \subseteq AllChannels
         /\ h.kind \in {"join", "channel", "created", "member"} => h.data \in AllChannels
         /\ h.kind = "chats" => h.data \subseteq ChatIds
         /\ h.kind = "users" => h.data \subseteq Users
         /\ h.kind = "chat" => h.data \in ChatIds
BY DEF Handlers, HandledWith, NotifiedWith, AnswerKinds

(* All that the body of a handler may do. *)
HandlerSteps ==
  /\ CallsAtMostOnce /\ ShowsAtMostOnce
  /\ channel_name' \in AllChannels \cup {None}
  /\ users_cache' \subseteq Users /\ channels_cache' \subseteq AllChannels
  /\ \/ UNCHANGED <<user, late_login>>
     \/ /\ app.kind = "authenticate" /\ user' \in Users
        /\ late_login' = (late_login \/ connection_id # app.conn)

LEMMA HandlerShape ==
  ASSUME TypeOK, Act
  PROVE  HandlerSteps
<1>1. app \in Handlers /\ app # Idle
  BY DEF TypeOK, AppOK, Act
<1>2. /\ connection_id \in Conns \cup {None} /\ channel_name \in AllChannels \cup {None}
      /\ users_cache \subseteq Users /\ channels_cache \subseteq AllChannels
  BY DEF TypeOK, UiOK
<1>3. CASE OnAuthenticated(app)
  <2>1. app.data \in Users
    BY <1>1, <1>3, HandlerFacts DEF OnAuthenticated
  <2>2. CallsAtMostOnce /\ ShowsAtMostOnce
    BY <1>3 DEF OnAuthenticated, Quietly, CallsAtMostOnce, ShowsAtMostOnce
  <2> QED BY <1>2, <1>3, <2>1, <2>2 DEF OnAuthenticated, CacheUsers, HandlerSteps
<1>4. CASE OnUserCreated(app)
  <2>1. app.data \in Users
    BY <1>1, <1>4, HandlerFacts DEF OnUserCreated
  <2>2. CallsAtMostOnce /\ ShowsAtMostOnce
    BY <1>4 DEF OnUserCreated, Quietly, CallsAtMostOnce, ShowsAtMostOnce
  <2> QED BY <1>2, <1>4, <2>1, <2>2 DEF OnUserCreated, CacheUsers, HandlerSteps
<1>5. CASE OnLoggedOut(app)
  <2>1. CallsAtMostOnce /\ ShowsAtMostOnce
    BY <1>5 DEF OnLoggedOut, Quietly, CallsAtMostOnce, ShowsAtMostOnce
  <2> QED BY <1>2, <1>5, <2>1 DEF OnLoggedOut, cacheVars, HandlerSteps
<1>6. CASE OnChannels(app)
  <2>1. app.data \subseteq AllChannels
    BY <1>1, <1>6, HandlerFacts DEF OnChannels
  <2>2. CallsAtMostOnce /\ ShowsAtMostOnce
    BY <1>6 DEF OnChannels, Quietly, CallsAtMostOnce, ShowsAtMostOnce
  <2> QED BY <1>2, <1>6, <2>1, <2>2 DEF OnChannels, CacheChannels, HandlerSteps
<1>7. CASE OnJoined(app)
  <2>1. app.data \in AllChannels
    BY <1>1, <1>7, HandlerFacts DEF OnJoined
  <2>2. GoesOn(Then("joined", None, {}, 0))
    BY ThenType DEF GoesOn
  <2>3. CallsAtMostOnce /\ ShowsAtMostOnce /\ channel_name' \in AllChannels \cup {None}
    BY <1>2, <1>7, <2>1, <2>2, LoadChannelShape DEF OnJoined
  <2> QED BY <1>2, <1>7, <2>3 DEF OnJoined, cacheVars, HandlerSteps
<1>8. CASE OnChannel(app)
  <2>1. app.data \in AllChannels /\ app.then \in Continuation
    BY <1>1, <1>8, HandlerFacts DEF OnChannel, AnswerKinds
  <2>2. CallsAtMostOnce /\ ShowsAtMostOnce /\ channel_name' \in AllChannels \cup {None}
    BY <1>8, <2>1, ChannelLoadedShape DEF OnChannel
  <2> QED BY <1>2, <1>8, <2>1, <2>2 DEF OnChannel, CacheChannels, HandlerSteps
<1>9. CASE OnChats(app)
  <2> DEFINE ids == {chats[j].user : j \in app.data}
             then == Then("chat", None, app.data, app.at)
  <2>1. app.kind = "chats" /\ app.data \subseteq ChatIds /\ app.at \in Nat
    BY <1>1, <1>9, HandlerFacts DEF OnChats
  <2>2. ids \in SUBSET Users
    <3>1. chats \in Seq([user : Users, channel : AllChannels])
      BY DEF TypeOK, ServerOK
    <3>2. \A j \in ChatIds : chats[j] \in [user : Users, channel : AllChannels]
      BY <3>1, ElementOf DEF ChatIds
    <3>3. \A j \in app.data : chats[j].user \in Users
      BY <2>1, <3>2
    <3> QED BY <3>3
  <2>3. GoesOn(then)
    BY <1>1, <2>1, ThenType DEF GoesOn
  <2>4. LoadUsers(connection_id, ids, then)
    BY <1>9 DEF OnChats
  <2> HIDE DEF ids, then
  <2>5. CallsAtMostOnce /\ ShowsAtMostOnce
    BY <1>2, <2>2, <2>3, <2>4, LoadUsersShape
  <2> QED BY <1>2, <1>9, <2>5 DEF OnChats, cacheVars, HandlerSteps
<1>10. CASE OnUsers(app)
  <2>1. app.kind = "users" /\ app.data \subseteq Users /\ app.then \in Continuation
    BY <1>1, <1>10, HandlerFacts DEF OnUsers, AnswerKinds
  <2>2. GoesOn(app.then)
    BY <1>1, <2>1 DEF GoesOn
  <2>3. CallsAtMostOnce /\ ShowsAtMostOnce
    BY <1>10, <2>2 DEF OnUsers, CallsAtMostOnce, ShowsAtMostOnce
  <2> QED BY <1>2, <1>10, <2>1, <2>3 DEF OnUsers, CacheUsers, HandlerSteps
<1>11. CASE HandlePresenceEvent(app)
  <2>1. {app.user} \in SUBSET Users
    BY <1>1, <1>11, HandlerFacts DEF HandlePresenceEvent, AnswerKinds
  <2>2. CallsAtMostOnce /\ ShowsAtMostOnce
    BY <1>2, <1>11, <2>1, NothingGoesOn, LoadUsersShape DEF HandlePresenceEvent, LoadUser
  <2> QED BY <1>2, <1>11, <2>2 DEF HandlePresenceEvent, cacheVars, HandlerSteps
<1>12. CASE HandleReceiveChatEvent(app)
  <2> DEFINE then == Then("chat", None, {app.data}, app.at)
  <2>1. app.kind = "chat" /\ {app.user} \in SUBSET Users /\ {app.data} \in SUBSET ChatIds /\ app.at \in Nat
    BY <1>1, <1>12, HandlerFacts DEF HandleReceiveChatEvent, AnswerKinds
  <2>2. GoesOn(then)
    BY <1>1, <2>1, ThenType DEF GoesOn
  <2>3. LoadUsers(connection_id, {app.user}, then)
    BY <1>12 DEF HandleReceiveChatEvent, LoadUser
  <2> HIDE DEF then
  <2>4. CallsAtMostOnce /\ ShowsAtMostOnce
    BY <1>2, <2>1, <2>2, <2>3, LoadUsersShape
  <2> QED BY <1>2, <1>12, <2>4 DEF HandleReceiveChatEvent, cacheVars, HandlerSteps
<1>13. CASE HandleChannelCreateEvent(app)
  <2>1. {app.user} \in SUBSET Users /\ app.data \in AllChannels
    BY <1>1, <1>13, HandlerFacts DEF HandleChannelCreateEvent, AnswerKinds
  <2>2. CallsAtMostOnce /\ ShowsAtMostOnce
    BY <1>2, <1>13, <2>1, NothingGoesOn, LoadUsersShape DEF HandleChannelCreateEvent, LoadUser
  <2> QED BY <1>2, <1>13, <2>1, <2>2 DEF HandleChannelCreateEvent, CacheChannels, HandlerSteps
<1>14. CASE HandleMemberEvent(app)
  <2> DEFINE then == Then("member", app.user, {}, 0)
  <2>1. app.user \in Users /\ app.data \in AllChannels
    BY <1>1, <1>14, HandlerFacts DEF HandleMemberEvent, AnswerKinds
  <2>2. GoesOn(then)
    BY <2>1, ThenType, Distinct DEF GoesOn
  <2>3. LoadChannel(connection_id, app.data, then)
    BY <1>14 DEF HandleMemberEvent
  <2> HIDE DEF then
  <2>4. CallsAtMostOnce /\ ShowsAtMostOnce /\ channel_name' \in AllChannels \cup {None}
    BY <1>2, <2>1, <2>2, <2>3, LoadChannelShape
  <2> QED BY <1>2, <1>14, <2>4 DEF HandleMemberEvent, cacheVars, HandlerSteps
<1> QED BY <1>3, <1>4, <1>5, <1>6, <1>7, <1>8, <1>9, <1>10, <1>11, <1>12, <1>13, <1>14 DEF Act

(* A command makes at most one call, or sends a chat. *)
SendsChat ==
  /\ requests' = IF connection_id \notin open THEN requests
                 ELSE [requests EXCEPT ![connection_id] = Append(@, [kind |-> "write", arg |-> None, call |-> 0])]
  /\ UNCHANGED <<calls, next_call>>

CommandSteps ==
  /\ CallsAtMostOnce \/ SendsChat
  /\ connecting' \in Nat /\ connecting' + conns <= MaxConns
  /\ channel_name' \in AllChannels \cup {None}
  /\ \/ UNCHANGED <<user, leaves>>
     \/ user' = None /\ leaves' = leaves + 1

LEMMA LoginName ==
  ASSUME NEW args \in Args, LoginCommand(args)
  PROVE  args[1] \in Users
<1>1. args = <<Me, "password">> \/ \E ch \in AllChannels : args = <<ch>>
  BY DEF Args
<1>2. \A ch \in AllChannels : Len(<<ch>>) = 1
  OBVIOUS
<1>3. Len(args) >= 2
  BY DEF LoginCommand
<1>4. ASSUME NEW ch \in AllChannels, args = <<ch>> PROVE FALSE
  <2>1. Len(args) = 1
    BY <1>2, <1>4
  <2> QED BY <1>3, <2>1
<1>5. args = <<Me, "password">>
  BY <1>1, <1>4
<1> QED BY <1>5 DEF Users

LEMMA CommandShape ==
  ASSUME TypeOK, NEW args \in Args, HandleInput(args)
  PROVE  CommandSteps
<1>1. /\ connection_id \in Conns \cup {None} /\ channel_name \in AllChannels \cup {None}
      /\ connecting \in Nat /\ conns \in Nat /\ connecting + conns <= MaxConns /\ MaxConns \in Nat
  BY ClientAssumption DEF TypeOK, UiOK
<1>2. ASSUME NEW kind, NEW arg, Call(connection_id, kind, arg, Nothing),
             \/ kind \in {"authenticate", "createUser"} /\ arg \in Users
             \/ kind \in {"create", "join"} /\ arg \in AllChannels
             \/ kind \in {"logout", "channels"} /\ arg = None
      PROVE  CallsAtMostOnce
  <2>1. \A n \in Nat \ {0} : [kind |-> kind, arg |-> arg, call |-> n] \in Requests
    BY <1>2 DEF Requests, RequestsWith
  <2> QED BY <1>1, <1>2, <2>1, NothingGoesOn DEF CallsAtMostOnce, CallsOnce
<1>3. CASE Send
  BY <1>1, <1>3 DEF Send, KeepsSession, CommandSteps, SendsChat
<1>4. CASE Connect
  BY <1>1, <1>4 DEF Connect, KeepsSession, CommandSteps, CallsAtMostOnce
<1>5. CASE LoginCommand(args)
  <2>1. args[1] \in Users
    BY <1>5, LoginName
  <2>2. CallsAtMostOnce
    BY <1>2, <1>5, <2>1 DEF LoginCommand, Login
  <2> QED BY <1>1, <1>5, <2>2 DEF LoginCommand, Login, KeepsSession, CommandSteps
<1>6. CASE AddUserCommand(args)
  <2>1. CallsAtMostOnce
    BY <1>2, <1>6 DEF AddUserCommand, AddUser, Users
  <2> QED BY <1>1, <1>6, <2>1 DEF AddUserCommand, AddUser, KeepsSession, CommandSteps
<1>7. CASE JoinChannelCommand(args)
  <2>1. CallsAtMostOnce
    BY <1>2, <1>7 DEF JoinChannelCommand, JoinChannel
  <2> QED BY <1>1, <1>7, <2>1 DEF JoinChannelCommand, JoinChannel, KeepsSession, CommandSteps
<1>8. CASE AddChannelCommand(args)
  <2>1. CallsAtMostOnce
    BY <1>2, <1>8 DEF AddChannelCommand, CreateChannel, AllChannels
  <2> QED BY <1>1, <1>8, <2>1 DEF AddChannelCommand, CreateChannel, KeepsSession, CommandSteps
<1>9. CASE GetChannelsCommand
  <2>1. CallsAtMostOnce
    BY <1>2, <1>9 DEF GetChannelsCommand, GetChannels
  <2> QED BY <1>1, <1>9, <2>1 DEF GetChannelsCommand, GetChannels, KeepsSession, CommandSteps
<1>10. CASE LogoutCommand
  <2>1. CallsAtMostOnce
    BY <1>2, <1>10 DEF LogoutCommand, Logout
  <2> QED BY <1>1, <1>10, <2>1 DEF LogoutCommand, Logout, SetChannelName, CommandSteps
<1> QED BY <1>3, <1>4, <1>5, <1>6, <1>7, <1>8, <1>9, <1>10 DEF HandleInput, Execute, ConnectCommand

-----------------------------------------------------------------------------
(* Types.                                                                  *)

LEMMA CallsOnceType ==
  ASSUME TypeOK, UNCHANGED chats, CallsOnce
  PROVE  CallsOK'
<1>1. PICK conn, kind, arg, then :
        /\ conn \in Conns \cup {None}
        /\ Call(conn, kind, arg, then)
        /\ \A n \in Nat \ {0} : [kind |-> kind, arg |-> arg, call |-> n] \in Requests
        /\ GoesOn(then)
  BY DEF CallsOnce
<1> DEFINE r == [kind |-> kind, arg |-> arg, call |-> next_call]
<1>2. /\ calls \subseteq [id : Nat \ {0}, conn : Conns \cup {None}, then : Continuation]
      /\ next_call \in Nat \ {0} /\ requests \in [Conns -> Seq(Requests)]
      /\ Continuation' = Continuation
  BY DEF TypeOK, CallsOK, Continuation, ChatIds
<1>3. calls' \subseteq [id : Nat \ {0}, conn : Conns \cup {None}, then : Continuation]
  BY <1>1, <1>2 DEF Call, GoesOn
<1>4. next_call' \in Nat \ {0}
  BY <1>1, <1>2 DEF Call
<1>5. r \in Requests
  BY <1>1, <1>2
<1>6. requests' = requests \/ requests' = [requests EXCEPT ![conn] = Append(@, r)]
  BY <1>1 DEF Call
<1> HIDE DEF r
<1>7. requests' \in [Conns -> Seq(Requests)]
  BY <1>2, <1>5, <1>6
<1>8. Requests' = Requests /\ Conns' = Conns
  BY DEF Requests, RequestsWith
<1> QED BY <1>2, <1>3, <1>4, <1>7, <1>8 DEF CallsOK

LEMMA CallsType ==
  ASSUME TypeOK, UNCHANGED chats, CallsAtMostOnce \/ SendsChat
  PROVE  CallsOK'
<1>1. CASE CallsOnce
  BY <1>1, CallsOnceType
<1>2. CASE UNCHANGED callVars
  BY <1>2 DEF TypeOK, CallsOK, callVars, Continuation, ChatIds, Requests, RequestsWith
<1>3. CASE SendsChat
  <2> DEFINE r == [kind |-> "write", arg |-> None, call |-> 0]
  <2>1. r \in Requests
    BY DEF Requests
  <2>2. requests' = requests \/ requests' = [requests EXCEPT ![connection_id] = Append(@, r)]
    BY <1>3 DEF SendsChat
  <2> HIDE DEF r
  <2>3. requests \in [Conns -> Seq(Requests)]
    BY DEF TypeOK, CallsOK
  <2>4. requests' \in [Conns -> Seq(Requests)]
    <3>1. \A c \in Conns : Append(requests[c], r) \in Seq(Requests)
      BY <2>1, <2>3
    <3> QED BY <2>2, <2>3, <3>1
  <2> QED BY <1>3, <2>4 DEF SendsChat, TypeOK, CallsOK, Continuation, ChatIds, Requests, RequestsWith
<1> QED BY <1>1, <1>2, <1>3 DEF CallsAtMostOnce

LEMMA ShowsType ==
  ASSUME TypeOK, UNCHANGED chats, ShowsAtMostOnce
  PROVE  shown' \subseteq ChatIds' /\ null_user' \subseteq {"left", "checked"}
<1>1. ChatIds' = ChatIds /\ shown \subseteq ChatIds /\ null_user \subseteq {"left", "checked"}
  BY DEF ChatIds, TypeOK, HistoryOK
<1>2. CASE UNCHANGED <<shown, null_user>>
  BY <1>1, <1>2
<1>3. ASSUME NEW then, NEW cache, ProcessChatMessages(then, cache), GoesOn(then)
      PROVE  shown' \subseteq ChatIds /\ null_user' \subseteq {"left", "checked"}
  <2>1. then.chats \subseteq ChatIds
    BY <1>3, ContinuationFacts DEF GoesOn
  <2> QED BY <1>1, <1>3, <2>1 DEF ProcessChatMessages
<1> QED BY <1>1, <1>2, <1>3 DEF ShowsAtMostOnce

LEMMA SameAppType ==
  ASSUME TypeOK, ChatsGrow, UNCHANGED <<app, inbox>>
  PROVE  AppOK'
BY Growing DEF TypeOK, AppOK

LEMMA SameCallsType ==
  ASSUME TypeOK, ChatsGrow, calls' \subseteq calls, UNCHANGED next_call,
         requests' \in [Conns -> Seq(Requests)]
  PROVE  CallsOK'
<1>1. Continuation \subseteq Continuation'
  BY Growing
<1>2. Requests' = Requests /\ Conns' = Conns
  BY DEF Requests, RequestsWith
<1> QED BY <1>1, <1>2 DEF TypeOK, CallsOK

LEMMA SameOlderType ==
  ASSUME TypeOK, UNCHANGED <<chats, older>>
  PROVE  OlderOK'
BY DEF TypeOK, OlderOK, ChatIds

LEMMA SameHistoryType ==
  ASSUME TypeOK, ChatsGrow, UNCHANGED histVars
  PROVE  HistoryOK'
BY Growing DEF TypeOK, HistoryOK, histVars

LEMMA TypeInput ==
  ASSUME TypeOK, NEW args \in Args, HandleInput(args)
  PROVE  TypeOK'
<1>1. CommandSteps
  BY CommandShape
<1>2. /\ UNCHANGED <<conns, open, connection_id, users_cache, channels_cache, app, inbox,
                     session, joined, chats, stored, older, events, shown, null_user, late_login>>
      /\ inputs' = inputs + 1 /\ overlapped' = (overlapped \/ Busy)
  BY DEF HandleInput, Typed, cacheVars, serverVars
<1>3. ChatsGrow
  BY <1>2, SameChats
<1>4. UiOK'
  BY <1>1, <1>2 DEF CommandSteps, TypeOK, UiOK
<1>5. CallsOK'
  BY <1>1, <1>2, CallsType DEF CommandSteps
<1>6. AppOK'
  BY <1>2, <1>3, SameAppType
<1>7. ServerOK'
  BY <1>2 DEF TypeOK, ServerOK
<1>8. HistoryOK'
  <2>1. leaves' \in Nat
    BY <1>1 DEF CommandSteps, TypeOK, HistoryOK
  <2>2. overlapped' \in BOOLEAN
    BY <1>2
  <2> QED BY <1>2, <2>1, <2>2 DEF TypeOK, HistoryOK, ChatIds
<1>9. OlderOK'
  BY <1>2, SameOlderType
<1> QED BY <1>4, <1>5, <1>6, <1>7, <1>8, <1>9 DEF TypeOK

LEMMA TypeConnection ==
  ASSUME TypeOK, OnConnected \/ OnConnectionFailed \/ \E c \in Conns : Lose(c)
  PROVE  TypeOK'
<1>1. UNCHANGED chats /\ ChatsGrow
  <2>1. UNCHANGED chats
    BY DEF OnConnected, OnConnectionFailed, Lose, serverVars
  <2> QED BY <2>1, SameChats
<1>2. CASE OnConnected
  <2>1. UiOK'
    <3>1. conns + 1 \in Conns
      BY <1>2, ClientAssumption DEF OnConnected, TypeOK, UiOK, Conns
    <3> QED BY <1>2, <3>1, ClientAssumption DEF OnConnected, TypeOK, UiOK, cacheVars
  <2>2. CallsOK'
    BY <1>1, <1>2, CallsType DEF OnConnected, CallsAtMostOnce
  <2>3. AppOK'
    BY <1>1, <1>2, SameAppType DEF OnConnected
  <2>4. ServerOK'
    BY <1>2 DEF OnConnected, TypeOK, ServerOK, serverVars
  <2>5. overlapped' \in BOOLEAN
    BY <1>2 DEF OnConnected
  <2>6. HistoryOK'
    BY <1>1, <1>2, <2>5 DEF OnConnected, TypeOK, HistoryOK, ChatIds
  <2>7. OlderOK'
    BY <1>2, SameOlderType DEF OnConnected, serverVars
  <2> QED BY <2>1, <2>2, <2>3, <2>4, <2>6, <2>7 DEF TypeOK
<1>3. CASE OnConnectionFailed
  <2>1. UiOK'
    BY <1>3, ClientAssumption DEF OnConnectionFailed, TypeOK, UiOK, cacheVars
  <2>2. CallsOK'
    BY <1>1, <1>3, CallsType DEF OnConnectionFailed, CallsAtMostOnce
  <2>3. AppOK'
    BY <1>1, <1>3, SameAppType DEF OnConnectionFailed
  <2>4. ServerOK'
    BY <1>3 DEF OnConnectionFailed, TypeOK, ServerOK, serverVars
  <2>5. HistoryOK'
    BY <1>1, <1>3, SameHistoryType DEF OnConnectionFailed
  <2>6. OlderOK'
    BY <1>3, SameOlderType DEF OnConnectionFailed, serverVars
  <2> QED BY <2>1, <2>2, <2>3, <2>4, <2>5, <2>6 DEF TypeOK
<1>4. ASSUME NEW c \in Conns, Lose(c) PROVE TypeOK'
  <2>1. UiOK'
    BY <1>4 DEF Lose, OnDisconnected, SetChannelName, TypeOK, UiOK, cacheVars
  <2>2. requests' \in [Conns -> Seq(Requests)]
    BY <1>4 DEF Lose, TypeOK, CallsOK
  <2>3. CallsOK'
    BY <1>1, <1>4, <2>2, SameCallsType DEF Lose
  <2>4. AppOK'
    BY <1>1, <1>4, SameAppType DEF Lose
  <2>5. ServerOK'
    BY <1>4 DEF Lose, TypeOK, ServerOK
  <2>6. overlapped' \in BOOLEAN
    BY <1>4 DEF Lose
  <2>7. HistoryOK'
    BY <1>1, <1>4, <2>6 DEF Lose, OnDisconnected, TypeOK, HistoryOK, ChatIds
  <2>8. OlderOK'
    BY <1>4, SameOlderType DEF Lose
  <2> QED BY <2>1, <2>3, <2>4, <2>5, <2>7, <2>8 DEF TypeOK
<1> QED BY <1>2, <1>3, <1>4

LEMMA SeqFacts ==
  ASSUME NEW S, NEW s \in Seq(S), s # <<>>
  PROVE  /\ Head(s) \in S /\ Head(s) = s[1] /\ 1 \in 1 .. Len(s)
         /\ Tail(s) \in Seq(S)
         /\ \A i \in 1 .. Len(Tail(s)) : i + 1 \in 1 .. Len(s) /\ Tail(s)[i] = s[i + 1]
OBVIOUS

LEMMA TypeTakeMessage ==
  ASSUME TypeOK, TakeMessage
  PROVE  TypeOK'
<1> DEFINE m == Head(inbox)
<1>1. /\ inbox' = Tail(inbox) /\ (TakeAnswer(m) \/ TakeEvent(m))
      /\ UNCHANGED <<uiVars, user, channel_name, cacheVars, next_call, requests, serverVars, histVars>>
  BY DEF TakeMessage
<1>2. m \in Messages /\ Tail(inbox) \in Seq(Messages)
  BY SeqFacts DEF TakeMessage, TypeOK, AppOK
<1> HIDE DEF m
<1>3. UNCHANGED chats /\ ChatsGrow
  BY <1>1, SameChats DEF serverVars
<1>4. calls' \subseteq calls
  BY <1>1 DEF TakeAnswer, TakeEvent
<1>5. UiOK' /\ ServerOK'
  BY <1>1 DEF TypeOK, UiOK, ServerOK, uiVars, cacheVars, serverVars
<1>6. CallsOK'
  BY <1>1, <1>3, <1>4, SameCallsType DEF TypeOK, CallsOK
<1>7. app' \in {Idle} \cup Handlers
  <2>1. leaves \in Nat
    BY DEF TypeOK, HistoryOK
  <2>2. CASE TakeAnswer(m)
    <3>1. CASE app' = Idle
      BY <3>1
    <3>2. CASE m.kind # "error" /\ Pending(m) # {}
      <4> DEFINE k == CHOOSE k \in calls : k.id = m.call
      <4>1. k \in calls
        BY <3>2 DEF Pending
      <4>2. k.conn \in Conns \cup {None} /\ k.then \in Continuation
        BY <4>1 DEF TypeOK, CallsOK
      <4>3. m.call > 0
        BY <2>2 DEF TakeAnswer
      <4>4. app' = Idle \/ app' = [kind |-> m.kind, data |-> m.data, conn |-> k.conn, then |-> k.then, at |-> leaves]
        BY <2>2 DEF TakeAnswer
      <4> HIDE DEF k
      <4> QED BY <1>2, <2>1, <3>2, <4>2, <4>3, <4>4, MessageFacts
    <3> QED BY <2>2, <3>1, <3>2 DEF TakeAnswer
  <2>3. CASE TakeEvent(m)
    BY <1>2, <2>1, <2>3, MessageFacts DEF TakeEvent
  <2> QED BY <1>1, <2>2, <2>3
<1>8. AppOK'
  BY <1>1, <1>2, <1>3, <1>7, Growing DEF AppOK
<1>9. HistoryOK'
  BY <1>1, <1>3, SameHistoryType
<1>10. OlderOK'
  BY SameOlderType DEF TakeMessage, serverVars
<1> QED BY <1>5, <1>6, <1>8, <1>9, <1>10 DEF TypeOK

LEMMA TypeAct ==
  ASSUME TypeOK, Act
  PROVE  TypeOK'
<1>1. HandlerSteps
  BY HandlerShape
<1>2. app' = Idle /\ UNCHANGED <<uiVars, inbox, serverVars, leaves, overlapped>>
  BY DEF Act
<1>3. UNCHANGED chats /\ ChatsGrow
  BY <1>2, SameChats DEF serverVars
<1>4. UiOK' /\ ServerOK'
  BY <1>1, <1>2 DEF HandlerSteps, TypeOK, UiOK, ServerOK, uiVars, serverVars
<1>5. CallsOK'
  BY <1>1, <1>3, CallsType DEF HandlerSteps
<1>6. AppOK'
  BY <1>2, <1>3, Growing DEF TypeOK, AppOK
<1>7. HistoryOK'
  <2>1. shown' \subseteq ChatIds' /\ null_user' \subseteq {"left", "checked"}
    BY <1>1, <1>3, ShowsType DEF HandlerSteps
  <2>2. late_login' \in BOOLEAN
    BY <1>1 DEF HandlerSteps, TypeOK, HistoryOK
  <2> QED BY <1>2, <2>1, <2>2 DEF TypeOK, HistoryOK
<1>8. OlderOK'
  BY SameOlderType DEF Act, serverVars
<1> QED BY <1>4, <1>5, <1>6, <1>7, <1>8 DEF TypeOK

LEMMA TypeTimeout ==
  ASSUME TypeOK, NEW k \in calls, Timeout(k)
  PROVE  TypeOK'
<1>1. UNCHANGED chats /\ ChatsGrow
  BY SameChats DEF Timeout, serverVars
<1>2. UiOK' /\ ServerOK'
  BY DEF Timeout, TypeOK, UiOK, ServerOK, uiVars, cacheVars, serverVars
<1>3. CallsOK'
  BY <1>1, SameCallsType DEF Timeout, TypeOK, CallsOK
<1>4. AppOK'
  BY <1>1, SameAppType DEF Timeout
<1>5. HistoryOK'
  BY <1>1 DEF Timeout, TypeOK, HistoryOK, ChatIds
<1>6. OlderOK'
  BY SameOlderType DEF Timeout, serverVars
<1> QED BY <1>2, <1>3, <1>4, <1>5, <1>6 DEF TypeOK

(* What the server may leave in the inbox when it handles a request with   *)
(* call id n: what was there, events and answers to that call.             *)
Deliverable(n) ==
  {m \in Messages' : m.call \in {0, n} \cup {inbox[i].call : i \in 1 .. Len(inbox)}}

LEMMA InboxKept ==
  ASSUME TypeOK, ChatsGrow, NEW n
  PROVE  inbox \in Seq(Deliverable(n))
<1>1. inbox \in Seq(Messages)
  BY DEF TypeOK, AppOK
<1>2. \A i \in 1 .. Len(inbox) : inbox[i] \in Messages
  BY <1>1, ElementOf
<1>3. \A i \in 1 .. Len(inbox) : inbox[i] \in Deliverable(n)
  BY <1>2, Growing DEF Deliverable
<1> HIDE DEF Deliverable
<1> QED BY <1>1, <1>3

LEMMA ErrorDelivered ==
  ASSUME NEW r \in Requests, r.call # 0
  PROVE  Error(r) \in Seq(Deliverable(r.call))
<1> DEFINE m == [call |-> r.call, kind |-> "error", data |-> None]
<1>1. m \in Messages' /\ m.call = r.call
  BY RequestFacts DEF Messages, AnswersWith
<1> HIDE DEF m
<1>2. m \in Deliverable(r.call)
  BY <1>1 DEF Deliverable
<1>3. Error(r) = <<m>>
  BY DEF Error, m
<1> QED BY <1>2, <1>3

LEMMA AnswerDelivered ==
  ASSUME NEW r \in Requests, NEW d,
         \/ r.kind \in {"authenticate", "createUser"} /\ d \in Users
         \/ r.kind \in {"channels", "create"} /\ d \subseteq AllChannels
         \/ r.kind \in {"join", "channel"} /\ d \in AllChannels
         \/ r.kind = "chats" /\ d \subseteq ChatIds'
         \/ r.kind = "users" /\ d \subseteq Users
         \/ r.kind = "logout" /\ d = None
  PROVE  Answer(r, d) \in Seq(Deliverable(r.call))
<1> DEFINE m == [call |-> r.call, kind |-> r.kind, data |-> d]
<1>1. r.call \in Nat \ {0}
  BY RequestFacts
<1>2. m \in Messages' /\ m.call = r.call
  BY <1>1 DEF Messages, AnswersWith
<1> HIDE DEF m
<1>3. m \in Deliverable(r.call)
  BY <1>2 DEF Deliverable
<1>4. Answer(r, d) = <<m>>
  BY DEF Answer, m
<1> QED BY <1>3, <1>4

LEMMA EventDelivered ==
  ASSUME NEW n, NEW kind, NEW u \in Users, NEW d, NEW to \in SUBSET Conns,
         \/ kind = "presence" /\ d = None
         \/ kind = "chat" /\ d \in ChatIds'
         \/ kind \in {"created", "member"} /\ d \in AllChannels
  PROVE  Broadcast(to, Event(kind, u, d)) \in Seq(Deliverable(n))
<1>1. Event(kind, u, d) \in Messages' /\ Event(kind, u, d).call = 0
  BY DEF Event, Messages, EventsWith
<1>2. Event(kind, u, d) \in Deliverable(n)
  BY <1>1 DEF Deliverable
<1> QED BY <1>2, BroadcastType

LEMMA Concatenated ==
  ASSUME NEW S, NEW s \in Seq(S), NEW t \in Seq(S)
  PROVE  s \o t \in Seq(S)
OBVIOUS

ServerSteps(n) == inbox' \in Seq(Deliverable(n)) /\ ServerOK' /\ ChatsGrow

LEMMA ServeShape ==
  ASSUME TypeOK, NEW c \in Conns, Serve(c)
  PROVE  ServerSteps(Head(requests[c]).call)
<1> DEFINE r == Head(requests[c])
<1>1. r \in Requests
  BY SeqFacts DEF Serve, TypeOK, CallsOK
<1>2. /\ \/ \E match \in BOOLEAN : ServeAuthenticate(c, r, match)
         \/ ServeCreateUser(r) \/ ServeUnauthorized(c, r) \/ ServeLogout(c, r) \/ ServeJoin(c, r)
         \/ ServeWrite(c, r) \/ ServeCreateChannel(c, r) \/ ServeQuery(c, r)
      /\ UNCHANGED events
  BY DEF Serve
<1> SUFFICES ServerSteps(r.call)
  OBVIOUS
<1> HIDE DEF r
<1>3. /\ session \in [Conns -> Users \cup {None}] /\ joined \in [Conns -> AllChannels \cup {None}]
      /\ stored \subseteq AllChannels /\ open \subseteq Conns
      /\ \A ch : In(ch) \subseteq Conns
  BY DEF TypeOK, ServerOK, UiOK, In
<1>4. UNCHANGED chats => ChatsGrow
  BY SameChats
<1>5. ChatsGrow => inbox \in Seq(Deliverable(r.call))
  BY InboxKept
<1>6. ASSUME NEW match \in BOOLEAN, ServeAuthenticate(c, r, match) PROVE ServerSteps(r.call)
  <2>1. r.kind = "authenticate" /\ r.arg \in Users /\ r.call # 0 /\ UNCHANGED <<joined, chats, stored>>
    BY <1>1, <1>6, RequestFacts DEF ServeAuthenticate
  <2>2. Error(r) \in Seq(Deliverable(r.call)) /\ Answer(r, r.arg) \in Seq(Deliverable(r.call))
    BY <1>1, <2>1, ErrorDelivered, AnswerDelivered
  <2>3. Broadcast(open, Event("presence", r.arg, None)) \in Seq(Deliverable(r.call))
    BY <1>3, <2>1, EventDelivered
  <2>4. \/ inbox' = inbox \o (Answer(r, r.arg) \o Broadcast(open, Event("presence", r.arg, None)))
        \/ inbox' = inbox \o Error(r)
    BY <1>6 DEF ServeAuthenticate
  <2>5. inbox' \in Seq(Deliverable(r.call))
    BY <1>4, <1>5, <2>1, <2>2, <2>3, <2>4, Concatenated
  <2>6. session' = session \/ session' = [session EXCEPT ![c] = r.arg]
    BY <1>6 DEF ServeAuthenticate
  <2>7. ServerOK'
    BY <1>2, <1>3, <2>1, <2>6 DEF TypeOK, ServerOK
  <2> QED BY <1>4, <2>1, <2>5, <2>7 DEF ServerSteps
<1>7. CASE ServeCreateUser(r)
  <2>1. r.kind = "createUser" /\ r.arg \in Users /\ r.call # 0 /\ UNCHANGED <<session, joined, chats, stored>>
    BY <1>1, <1>7, RequestFacts DEF ServeCreateUser
  <2>2. Error(r) \in Seq(Deliverable(r.call)) /\ Answer(r, r.arg) \in Seq(Deliverable(r.call))
    BY <1>1, <2>1, ErrorDelivered, AnswerDelivered
  <2>3. inbox' \in Seq(Deliverable(r.call))
    BY <1>4, <1>5, <1>7, <2>1, <2>2, Concatenated DEF ServeCreateUser
  <2> QED BY <1>2, <1>4, <2>1, <2>3 DEF ServerSteps, TypeOK, ServerOK
<1>8. CASE ServeUnauthorized(c, r)
  <2>1. UNCHANGED <<session, joined, chats, stored>>
    BY <1>8 DEF ServeUnauthorized
  <2>2. inbox' \in Seq(Deliverable(r.call))
    BY <1>1, <1>4, <1>5, <1>8, <2>1, ErrorDelivered, Concatenated DEF ServeUnauthorized
  <2> QED BY <1>2, <1>4, <2>1, <2>2 DEF ServerSteps, TypeOK, ServerOK
<1>9. CASE ServeLogout(c, r)
  <2>1. /\ r.kind = "logout" /\ session[c] \in Users /\ UNCHANGED <<chats, stored>>
        /\ session' = [session EXCEPT ![c] = None] /\ joined' = [joined EXCEPT ![c] = None]
    BY <1>3, <1>9 DEF ServeLogout
  <2>2. Answer(r, None) \in Seq(Deliverable(r.call))
    BY <1>1, <2>1, AnswerDelivered
  <2>3. Broadcast(open, Event("presence", session[c], None)) \in Seq(Deliverable(r.call))
    BY <1>3, <2>1, EventDelivered
  <2>4. inbox' \in Seq(Deliverable(r.call))
    BY <1>4, <1>5, <1>9, <2>1, <2>2, <2>3, Concatenated DEF ServeLogout
  <2>5. ServerOK'
    BY <1>2, <1>3, <2>1 DEF TypeOK, ServerOK
  <2> QED BY <1>4, <2>1, <2>4, <2>5 DEF ServerSteps
<1>10. CASE ServeJoin(c, r)
  <2> DEFINE left == Broadcast(In(joined[c]), Event("member", session[c], joined[c]))
             came == Broadcast(In(r.arg) \cup {c}, Event("member", session[c], r.arg))
  <2>1. /\ r.kind = "join" /\ r.arg \in AllChannels /\ r.call # 0 /\ session[c] \in Users
        /\ UNCHANGED <<session, chats, stored>>
    BY <1>1, <1>3, <1>10, RequestFacts DEF ServeJoin
  <2>2. Error(r) \in Seq(Deliverable(r.call)) /\ Answer(r, r.arg) \in Seq(Deliverable(r.call))
    BY <1>1, <2>1, ErrorDelivered, AnswerDelivered
  <2>3. came \in Seq(Deliverable(r.call))
    BY <1>3, <2>1, EventDelivered
  <2>4. joined[c] # None => left \in Seq(Deliverable(r.call))
    <3>1. joined[c] # None => joined[c] \in AllChannels
      BY <1>3
    <3> QED BY <1>3, <2>1, <3>1, EventDelivered
  <2>5. \/ inbox' = inbox \o Error(r)
        \/ inbox' = inbox \o ((<<>> \o came) \o Answer(r, r.arg))
        \/ joined[c] # None /\ inbox' = inbox \o ((left \o came) \o Answer(r, r.arg))
    BY <1>10 DEF ServeJoin
  <2>6. <<>> \in Seq(Deliverable(r.call))
    OBVIOUS
  <2> HIDE DEF left, came
  <2>7. inbox' \in Seq(Deliverable(r.call))
    BY <1>4, <1>5, <2>1, <2>2, <2>3, <2>4, <2>5, <2>6, Concatenated
  <2>8. joined' = joined \/ joined' = [joined EXCEPT ![c] = r.arg]
    BY <1>10 DEF ServeJoin
  <2>9. ServerOK'
    BY <1>2, <1>3, <2>1, <2>8 DEF TypeOK, ServerOK
  <2> QED BY <1>4, <2>1, <2>7, <2>9 DEF ServerSteps
<1>11. CASE ServeWrite(c, r)
  <2>1. session[c] \in Users /\ UNCHANGED <<session, joined, stored>>
    BY <1>3, <1>11 DEF ServeWrite
  <2>2. CASE joined[c] = None
    <3>1. UNCHANGED <<chats, inbox>>
      BY <1>11, <2>2 DEF ServeWrite
    <3> QED BY <1>2, <1>4, <1>5, <2>1, <3>1 DEF ServerSteps, TypeOK, ServerOK
  <2>3. CASE joined[c] # None
    <3> DEFINE chat == [user |-> session[c], channel |-> joined[c]]
    <3>1. chat \in [user : Users, channel : AllChannels]
      BY <1>3, <2>1, <2>3
    <3>2. /\ chats' = Append(chats, chat)
          /\ inbox' = inbox \o Broadcast(In(joined[c]), Event("chat", session[c], Len(chats) + 1))
      BY <1>11, <2>3 DEF ServeWrite
    <3> HIDE DEF chat
    <3>3. chats' \in Seq([user : Users, channel : AllChannels]) /\ ChatsGrow /\ Len(chats) + 1 \in ChatIds'
      <4>1. chats \in Seq([user : Users, channel : AllChannels])
        BY DEF TypeOK, ServerOK
      <4>2. chats' \in Seq([user : Users, channel : AllChannels]) /\ Len(chats') = Len(chats) + 1 /\ Len(chats) \in Nat
        BY <3>1, <3>2, <4>1
      <4> QED BY <4>2 DEF ChatsGrow, ChatIds
    <3>4. Broadcast(In(joined[c]), Event("chat", session[c], Len(chats) + 1)) \in Seq(Deliverable(r.call))
      BY <1>3, <2>1, <3>3, EventDelivered
    <3>5. inbox' \in Seq(Deliverable(r.call))
      BY <1>5, <3>2, <3>3, <3>4, Concatenated
    <3> QED BY <1>2, <2>1, <3>3, <3>5 DEF ServerSteps, TypeOK, ServerOK
  <2> QED BY <2>2, <2>3
<1>12. CASE ServeCreateChannel(c, r)
  <2> DEFINE e == Broadcast(open, Event("created", session[c], r.arg))
  <2>1. /\ r.kind = "create" /\ r.arg \in AllChannels /\ session[c] \in Users
        /\ stored' = stored \cup {r.arg} /\ UNCHANGED <<session, joined, chats>>
    BY <1>1, <1>3, <1>12, RequestFacts DEF ServeCreateChannel
  <2>2. Answer(r, {r.arg}) \in Seq(Deliverable(r.call))
    BY <1>1, <2>1, AnswerDelivered
  <2>3. e \in Seq(Deliverable(r.call))
    BY <1>3, <2>1, EventDelivered
  <2>4. inbox' = (inbox \o Answer(r, {r.arg})) \o <<>> \/ inbox' = (inbox \o Answer(r, {r.arg})) \o e
    BY <1>12 DEF ServeCreateChannel
  <2>5. <<>> \in Seq(Deliverable(r.call))
    OBVIOUS
  <2> HIDE DEF e
  <2>6. inbox \o Answer(r, {r.arg}) \in Seq(Deliverable(r.call))
    BY <1>4, <1>5, <2>1, <2>2, Concatenated
  <2>7. inbox' \in Seq(Deliverable(r.call))
    BY <2>3, <2>4, <2>5, <2>6, Concatenated
  <2> QED BY <1>2, <1>3, <1>4, <2>1, <2>7 DEF ServerSteps, TypeOK, ServerOK
<1>13. CASE ServeQuery(c, r)
  <2>1. UNCHANGED <<session, joined, chats, stored>>
    BY <1>13 DEF ServeQuery
  <2>2. ChatIds' = ChatIds /\ DOMAIN chats = ChatIds
    BY <2>1 DEF TypeOK, ServerOK, ChatIds
  <2>3. CASE r.kind = "channels"
    <3>1. inbox' = inbox \o Answer(r, stored)
      BY <1>13, <2>3 DEF ServeQuery
    <3>2. Answer(r, stored) \in Seq(Deliverable(r.call))
      BY <1>1, <1>3, <2>3, AnswerDelivered
    <3>3. inbox' \in Seq(Deliverable(r.call))
      BY <1>4, <1>5, <2>1, <3>1, <3>2, Concatenated
    <3> QED BY <1>2, <1>4, <2>1, <3>3 DEF ServerSteps, TypeOK, ServerOK
  <2>4. CASE r.kind = "chats"
    <3> DEFINE log == LatestChats(r.arg)
    <3>1. inbox' = inbox \o Answer(r, log)
      BY <1>13, <2>4 DEF ServeQuery
    <3>2. log \subseteq ChatIds'
      BY <2>2 DEF LatestChats, ChatLog
    <3> HIDE DEF log
    <3>3. Answer(r, log) \in Seq(Deliverable(r.call))
      BY <1>1, <2>4, <3>2, AnswerDelivered
    <3>4. inbox' \in Seq(Deliverable(r.call))
      BY <1>4, <1>5, <2>1, <3>1, <3>3, Concatenated
    <3> QED BY <1>2, <1>4, <2>1, <3>4 DEF ServerSteps, TypeOK, ServerOK
  <2>5. CASE r.kind \in {"users", "channel"}
    <3>1. inbox' = inbox \o Answer(r, r.arg)
      BY <1>13, <2>5 DEF ServeQuery
    <3>2. Answer(r, r.arg) \in Seq(Deliverable(r.call))
      BY <1>1, <2>5, RequestFacts, AnswerDelivered
    <3>3. inbox' \in Seq(Deliverable(r.call))
      BY <1>4, <1>5, <2>1, <3>1, <3>2, Concatenated
    <3> QED BY <1>2, <1>4, <2>1, <3>3 DEF ServerSteps, TypeOK, ServerOK
  <2> QED BY <1>13, <2>3, <2>4, <2>5 DEF ServeQuery
<1> QED BY <1>2, <1>6, <1>7, <1>8, <1>9, <1>10, <1>11, <1>12, <1>13

LEMMA OtherShape ==
  ASSUME TypeOK, OtherActs
  PROVE  ServerSteps(0)
<1>1. /\ Other \in Users /\ Channels \subseteq AllChannels /\ NewChannel \in AllChannels
      /\ open \subseteq Conns /\ \A ch : In(ch) \subseteq Conns
  BY DEF Users, AllChannels, TypeOK, UiOK, In
<1>2. UNCHANGED <<session, joined>> /\ events' \in Nat
  BY DEF OtherActs, TypeOK, ServerOK
<1>3. UNCHANGED chats => ChatsGrow
  BY SameChats
<1>4. ChatsGrow => inbox \in Seq(Deliverable(0))
  BY InboxKept
<1>5. ASSUME NEW ch \in Channels,
             chats' = Append(chats, [user |-> Other, channel |-> ch]),
             inbox' = inbox \o Broadcast(In(ch), Event("chat", Other, Len(chats) + 1)),
             UNCHANGED stored
      PROVE  ServerSteps(0)
  <2> DEFINE chat == [user |-> Other, channel |-> ch]
  <2>1. chat \in [user : Users, channel : AllChannels] /\ chats' = Append(chats, chat)
    BY <1>1, <1>5
  <2> HIDE DEF chat
  <2>2. chats \in Seq([user : Users, channel : AllChannels])
    BY DEF TypeOK, ServerOK
  <2>3. chats' \in Seq([user : Users, channel : AllChannels]) /\ Len(chats') = Len(chats) + 1 /\ Len(chats) \in Nat
    BY <2>1, <2>2
  <2>4. ChatsGrow /\ Len(chats) + 1 \in ChatIds'
    BY <2>3 DEF ChatsGrow, ChatIds
  <2>5. Broadcast(In(ch), Event("chat", Other, Len(chats) + 1)) \in Seq(Deliverable(0))
    BY <1>1, <2>4, EventDelivered
  <2>6. inbox' \in Seq(Deliverable(0))
    BY <1>4, <1>5, <2>4, <2>5, Concatenated
  <2> QED BY <1>2, <1>5, <2>3, <2>4, <2>6 DEF ServerSteps, TypeOK, ServerOK
<1>6. ASSUME NEW kind, NEW d, NEW to \in SUBSET Conns,
             \/ kind = "presence" /\ d = None
             \/ kind \in {"created", "member"} /\ d \in AllChannels,
             inbox' = inbox \o Broadcast(to, Event(kind, Other, d)),
             UNCHANGED chats, stored' \subseteq AllChannels
      PROVE  ServerSteps(0)
  <2>1. Broadcast(to, Event(kind, Other, d)) \in Seq(Deliverable(0))
    BY <1>1, <1>6, EventDelivered
  <2>2. inbox' \in Seq(Deliverable(0))
    BY <1>3, <1>4, <1>6, <2>1, Concatenated
  <2> QED BY <1>2, <1>3, <1>6, <2>2 DEF ServerSteps, TypeOK, ServerOK
<1>7. stored \subseteq AllChannels
  BY DEF TypeOK, ServerOK
<1>8. \/ \E ch \in Channels :
           /\ chats' = Append(chats, [user |-> Other, channel |-> ch])
           /\ inbox' = inbox \o Broadcast(In(ch), Event("chat", Other, Len(chats) + 1))
           /\ UNCHANGED stored
      \/ \E ch \in Channels : inbox' = inbox \o Broadcast(In(ch), Event("member", Other, ch)) /\ UNCHANGED <<chats, stored>>
      \/ inbox' = inbox \o Broadcast(open, Event("presence", Other, None)) /\ UNCHANGED <<chats, stored>>
      \/ /\ stored' = stored \cup {NewChannel}
         /\ inbox' = inbox \o Broadcast(open, Event("created", Other, NewChannel))
         /\ UNCHANGED chats
  BY DEF OtherActs
<1>9. ASSUME NEW ch \in Channels,
             inbox' = inbox \o Broadcast(In(ch), Event("member", Other, ch)), UNCHANGED <<chats, stored>>
      PROVE  ServerSteps(0)
  BY <1>1, <1>6, <1>7, <1>9
<1>10. ASSUME inbox' = inbox \o Broadcast(open, Event("presence", Other, None)), UNCHANGED <<chats, stored>>
       PROVE  ServerSteps(0)
  BY <1>1, <1>6, <1>7, <1>10
<1>11. ASSUME stored' = stored \cup {NewChannel},
              inbox' = inbox \o Broadcast(open, Event("created", Other, NewChannel)), UNCHANGED chats
       PROVE  ServerSteps(0)
  BY <1>1, <1>6, <1>7, <1>11
<1> QED BY <1>5, <1>8, <1>9, <1>10, <1>11

LEMMA TypeServer ==
  ASSUME TypeOK, OtherActs \/ \E c \in Conns : Serve(c)
  PROVE  TypeOK'
<1>1. inbox' \in Seq(Messages') /\ ServerOK' /\ ChatsGrow
  <2>1. \A n : Deliverable(n) \subseteq Messages'
    BY DEF Deliverable
  <2>2. \A n : ServerSteps(n) => inbox' \in Seq(Messages') /\ ServerOK' /\ ChatsGrow
    BY <2>1, SeqGrows DEF ServerSteps
  <2> QED BY <2>2, OtherShape, ServeShape
<1>2. /\ UNCHANGED <<uiVars, user, channel_name, cacheVars, calls, next_call, app, histVars>>
      /\ requests' = requests \/ \E c \in Conns : requests[c] # <<>> /\ requests' = [requests EXCEPT ![c] = Tail(@)]
  BY DEF OtherActs, Serve, callVars
<1>3. requests' \in [Conns -> Seq(Requests)]
  <2>1. requests \in [Conns -> Seq(Requests)]
    BY DEF TypeOK, CallsOK
  <2>2. \A c \in Conns : requests[c] # <<>> => Tail(requests[c]) \in Seq(Requests)
    BY <2>1, SeqFacts
  <2> QED BY <1>2, <2>1, <2>2
<1>4. UiOK'
  BY <1>2 DEF TypeOK, UiOK, uiVars, cacheVars
<1>5. CallsOK'
  BY <1>1, <1>2, <1>3, SameCallsType
<1>6. AppOK'
  BY <1>1, <1>2, Growing DEF TypeOK, AppOK
<1>7. HistoryOK'
  BY <1>1, <1>2, SameHistoryType
<1>8. OlderOK'
  <2>1. older \subseteq ChatIds /\ ChatIds \subseteq ChatIds' /\ DOMAIN chats = ChatIds
    BY <1>1, Growing DEF TypeOK, OlderOK, ServerOK, ChatIds
  <2>2. older' = older \/ \E ch : older' = older \cup (ChatLog(ch) \ LatestChats(ch))
    BY DEF OtherActs, Serve, ServeAuthenticate, ServeCreateUser, ServeUnauthorized, ServeLogout,
       ServeJoin, ServeWrite, ServeCreateChannel, ServeQuery
  <2> QED BY <2>1, <2>2 DEF OlderOK, ChatLog
<1> QED BY <1>1, <1>4, <1>5, <1>6, <1>7, <1>8 DEF TypeOK

LEMMA TypeInit == Init => TypeOK
<1> SUFFICES ASSUME Init PROVE TypeOK
  OBVIOUS
<1>1. UiOK
  BY ClientAssumption DEF Init, UiOK
<1>2. CallsOK
  BY DEF Init, CallsOK
<1>3. AppOK
  BY DEF Init, AppOK
<1>4. ServerOK
  BY DEF Init, ServerOK, AllChannels
<1>5. HistoryOK
  BY DEF Init, HistoryOK
<1>6. OlderOK
  BY DEF Init, OlderOK
<1> QED BY <1>1, <1>2, <1>3, <1>4, <1>5, <1>6 DEF TypeOK

LEMMA TypeStep == TypeOK /\ [Next]_vars => TypeOK'
<1> SUFFICES ASSUME TypeOK, [Next]_vars PROVE TypeOK'
  OBVIOUS
<1>1. CASE UNCHANGED vars
  <2>1. ChatsGrow
    BY <1>1, SameChats DEF vars, serverVars
  <2>2. UiOK' /\ ServerOK'
    BY <1>1 DEF vars, TypeOK, UiOK, ServerOK, uiVars, cacheVars, serverVars
  <2>3. CallsOK'
    BY <1>1, <2>1, SameCallsType DEF vars, callVars, TypeOK, CallsOK
  <2>4. AppOK'
    BY <1>1, <2>1, SameAppType DEF vars
  <2>5. HistoryOK'
    BY <1>1, <2>1, SameHistoryType DEF vars
  <2>6. OlderOK'
    BY <1>1, SameOlderType DEF vars, serverVars
  <2> QED BY <2>2, <2>3, <2>4, <2>5, <2>6 DEF TypeOK
<1> QED BY <1>1, TypeInput, TypeConnection, TypeTakeMessage, TypeAct, TypeTimeout, TypeServer DEF Next

(* Every message has what its handler goes on with, and every id in the    *)
(* client's state is of a user, a channel, a chat or a connection there    *)
(* is.                                                                     *)
THEOREM TypeCorrect == Spec => []TypeOK
BY TypeInit, TypeStep, PTL DEF Spec

-----------------------------------------------------------------------------
(* Requests and answers belong to calls that were made on a connection.    *)

(* MadeOnConnection after the step, of a number. *)
MadeAfter(i) == i \in 0 .. next_call' - 1 /\ \A k \in calls' : k.id = i => k.conn # None

FewerCalls == calls' \subseteq calls /\ UNCHANGED next_call

LEMMA MadeKept ==
  ASSUME TypeOK, FewerCalls \/ CallsOnce, NEW i, MadeOnConnection(i)
  PROVE  MadeAfter(i)
<1>1. CASE FewerCalls
  BY <1>1 DEF FewerCalls, MadeOnConnection, MadeAfter
<1>2. CASE CallsOnce
  <2>1. PICK conn, kind, arg, then : Call(conn, kind, arg, then)
    BY <1>2 DEF CallsOnce
  <2>2. next_call \in Nat /\ i \in 0 .. next_call - 1
    BY DEF TypeOK, CallsOK, MadeOnConnection
  <2>3. next_call' = next_call + 1 /\ calls' = calls \cup {[id |-> next_call, conn |-> conn, then |-> then]}
    BY <2>1 DEF Call
  <2> QED BY <2>2, <2>3 DEF MadeOnConnection, MadeAfter
<1> QED BY <1>1, <1>2

(* The parts of OriginInv, after the step. *)
LEMMA OriginParts ==
  ASSUME \A k \in calls' : k.id < next_call',
         \A c \in Conns : \A i \in 1 .. Len(requests'[c]) : MadeAfter(requests'[c][i].call),
         \A i \in 1 .. Len(inbox') : MadeAfter(inbox'[i].call),
         app' # Idle /\ app'.kind \in AnswerKinds => app'.conn # None
  PROVE  OriginInv'
BY DEF OriginInv, MadeOnConnection, MadeAfter, Conns

LEMMA CallIdsAfter ==
  ASSUME TypeOK, OriginInv, FewerCalls \/ CallsOnce
  PROVE  \A k \in calls' : k.id < next_call'
<1>1. CASE FewerCalls
  BY <1>1 DEF FewerCalls, OriginInv
<1>2. CASE CallsOnce
  <2>1. PICK conn, kind, arg, then : Call(conn, kind, arg, then)
    BY <1>2 DEF CallsOnce
  <2>2. next_call \in Nat /\ \A k \in calls : k.id \in Nat /\ k.id < next_call
    BY DEF TypeOK, CallsOK, OriginInv
  <2>3. next_call' = next_call + 1 /\ calls' = calls \cup {[id |-> next_call, conn |-> conn, then |-> then]}
    BY <2>1 DEF Call
  <2> QED BY <2>2, <2>3
<1> QED BY <1>1, <1>2

LEMMA InboxAfter ==
  ASSUME TypeOK, OriginInv, FewerCalls \/ CallsOnce, UNCHANGED inbox
  PROVE  \A i \in 1 .. Len(inbox') : MadeAfter(inbox'[i].call)
BY MadeKept DEF OriginInv

LEMMA RequestsAfter ==
  ASSUME TypeOK, OriginInv, CallsAtMostOnce \/ SendsChat
  PROVE  \A c \in Conns : \A i \in 1 .. Len(requests'[c]) : MadeAfter(requests'[c][i].call)
<1>1. /\ requests \in [Conns -> Seq(Requests)] /\ open \subseteq Conns /\ next_call \in Nat \ {0}
      /\ \A c \in Conns : \A i \in 1 .. Len(requests[c]) : MadeOnConnection(requests[c][i].call)
  BY DEF TypeOK, CallsOK, UiOK, OriginInv
<1>2. FewerCalls \/ CallsOnce => \A c \in Conns : \A i \in 1 .. Len(requests[c]) : MadeAfter(requests[c][i].call)
  BY <1>1, MadeKept
<1>3. ASSUME NEW d \in Conns, NEW r \in Requests, requests' = [requests EXCEPT ![d] = Append(@, r)],
             MadeAfter(r.call), FewerCalls \/ CallsOnce, NEW c \in Conns, NEW i \in 1 .. Len(requests'[c])
      PROVE  MadeAfter(requests'[c][i].call)
  <2>1. CASE c # d
    BY <1>1, <1>2, <1>3, <2>1
  <2>2. CASE c = d
    <3>1. requests'[c] = Append(requests[c], r) /\ requests[c] \in Seq(Requests)
      BY <1>1, <1>3, <2>2
    <3>2. \/ i \in 1 .. Len(requests[c]) /\ requests'[c][i] = requests[c][i]
          \/ requests'[c][i] = r
      BY <1>3, <3>1
    <3> QED BY <1>2, <1>3, <3>2
  <2> QED BY <2>1, <2>2
<1>4. CASE UNCHANGED callVars
  BY <1>2, <1>4 DEF callVars, FewerCalls
<1>5. CASE SendsChat
  <2>1. FewerCalls
    BY <1>5 DEF SendsChat, FewerCalls
  <2>2. CASE requests' = requests
    BY <1>2, <2>1, <2>2
  <2>3. CASE requests' # requests
    <3> DEFINE r == [kind |-> "write", arg |-> None, call |-> 0]
    <3>1. requests' = [requests EXCEPT ![connection_id] = Append(@, r)] /\ connection_id \in Conns
      BY <1>1, <1>5, <2>3 DEF SendsChat
    <3>2. r \in Requests /\ r.call = 0
      BY DEF Requests
    <3> HIDE DEF r
    <3>3. \A k \in calls : k.id # 0
      BY DEF TypeOK, CallsOK
    <3>4. MadeAfter(0)
      BY <1>1, <2>1, <3>3 DEF FewerCalls, MadeAfter
    <3> QED BY <1>3, <2>1, <3>1, <3>2, <3>4
  <2> QED BY <2>2, <2>3
<1>6. CASE CallsOnce
  <2>1. PICK conn, kind, arg, then :
          /\ conn \in Conns \cup {None}
          /\ Call(conn, kind, arg, then)
          /\ \A n \in Nat \ {0} : [kind |-> kind, arg |-> arg, call |-> n] \in Requests
    BY <1>6 DEF CallsOnce
  <2>2. CASE requests' = requests
    BY <1>2, <1>6, <2>2
  <2>3. CASE requests' # requests
    <3> DEFINE r == [kind |-> kind, arg |-> arg, call |-> next_call]
    <3>1. requests' = [requests EXCEPT ![conn] = Append(@, r)] /\ conn \in Conns
      BY <1>1, <2>1, <2>3 DEF Call
    <3>2. r \in Requests /\ r.call = next_call
      BY <1>1, <2>1
    <3> HIDE DEF r
    <3>3. MadeAfter(next_call)
      <4>1. \A k \in calls : k.id \in Nat /\ k.id < next_call
        BY DEF TypeOK, CallsOK, OriginInv
      <4>2. next_call' = next_call + 1 /\ calls' = calls \cup {[id |-> next_call, conn |-> conn, then |-> then]}
        BY <2>1 DEF Call
      <4>3. conn # None
        BY <3>1, Distinct
      <4> QED BY <1>1, <4>1, <4>2, <4>3 DEF MadeAfter
    <3> QED BY <1>3, <1>6, <3>1, <3>2, <3>3
  <2> QED BY <2>2, <2>3
<1> QED BY <1>4, <1>5, <1>6 DEF CallsAtMostOnce

LEMMA OriginTakeMessage ==
  ASSUME TypeOK, OriginInv, TakeMessage
  PROVE  OriginInv'
<1> DEFINE m == Head(inbox)
<1>1. /\ inbox' = Tail(inbox) /\ (TakeAnswer(m) \/ TakeEvent(m))
      /\ UNCHANGED <<next_call, requests>>
  BY DEF TakeMessage
<1>2. /\ inbox \in Seq(Messages) /\ inbox # <<>>
  BY DEF TakeMessage, TypeOK, AppOK
<1>3. m \in Messages /\ m = inbox[1] /\ 1 \in 1 .. Len(inbox)
  BY <1>2, SeqFacts
<1> HIDE DEF m
<1>4. FewerCalls
  BY <1>1 DEF TakeAnswer, TakeEvent, FewerCalls
<1>5. \A i \in 1 .. Len(inbox') : MadeAfter(inbox'[i].call)
  <2>1. \A i \in 1 .. Len(inbox) : MadeAfter(inbox[i].call)
    BY <1>4, MadeKept DEF OriginInv
  <2> QED BY <1>1, <1>2, <2>1, SeqFacts
<1>6. \A c \in Conns : \A i \in 1 .. Len(requests'[c]) : MadeAfter(requests'[c][i].call)
  BY <1>1, <1>4, MadeKept DEF OriginInv
<1>7. ASSUME app' # Idle, app'.kind \in AnswerKinds PROVE app'.conn # None
  <2>1. CASE TakeAnswer(m)
    <3> DEFINE k == CHOOSE k \in calls : k.id = m.call
    <3>1. Pending(m) # {} /\ app' = [kind |-> m.kind, data |-> m.data, conn |-> k.conn, then |-> k.then, at |-> leaves]
      BY <1>7, <2>1 DEF TakeAnswer
    <3>2. k \in calls /\ k.id = m.call
      BY <3>1 DEF Pending
    <3>3. MadeOnConnection(m.call)
      BY <1>3 DEF OriginInv
    <3>4. k.conn # None
      BY <3>2, <3>3 DEF MadeOnConnection
    <3> QED BY <3>1, <3>4
  <2>2. CASE TakeEvent(m)
    <3>1. m.kind \notin AnswerKinds
      BY <1>3, <2>2, MessageFacts DEF TakeEvent
    <3> QED BY <1>7, <2>2, <3>1 DEF TakeEvent
  <2> QED BY <1>1, <2>1, <2>2
<1> QED BY <1>4, <1>5, <1>6, <1>7, CallIdsAfter, OriginParts

LEMMA OriginServer ==
  ASSUME TypeOK, OriginInv, OtherActs \/ \E c \in Conns : Serve(c)
  PROVE  OriginInv'
<1>1. UNCHANGED <<calls, next_call, app>>
  BY DEF OtherActs, Serve, callVars
<1>2. FewerCalls
  BY <1>1 DEF FewerCalls
<1>3. requests \in [Conns -> Seq(Requests)]
  BY DEF TypeOK, CallsOK
<1>4. \A c \in Conns : \A i \in 1 .. Len(requests[c]) : MadeAfter(requests[c][i].call)
  BY <1>2, MadeKept DEF OriginInv
<1>5. MadeAfter(0)
  BY <1>1 DEF MadeAfter, TypeOK, CallsOK
<1>6. ASSUME NEW n, ServerSteps(n), MadeAfter(n)
      PROVE  \A i \in 1 .. Len(inbox') : MadeAfter(inbox'[i].call)
  <2>1. \A i \in 1 .. Len(inbox) : MadeAfter(inbox[i].call)
    BY <1>2, MadeKept DEF OriginInv
  <2>2. \A m \in Deliverable(n) : MadeAfter(m.call)
    BY <1>5, <1>6, <2>1 DEF Deliverable
  <2>3. \A i \in 1 .. Len(inbox') : inbox'[i] \in Deliverable(n)
    BY <1>6, ElementOf DEF ServerSteps
  <2> QED BY <2>2, <2>3
<1>7. CASE OtherActs
  <2>1. \A i \in 1 .. Len(inbox') : MadeAfter(inbox'[i].call)
    BY <1>5, <1>6, <1>7, OtherShape
  <2>2. \A c \in Conns : \A i \in 1 .. Len(requests'[c]) : MadeAfter(requests'[c][i].call)
    BY <1>4, <1>7 DEF OtherActs, callVars
  <2> QED BY <1>1, <1>2, <2>1, <2>2, CallIdsAfter, OriginParts DEF OriginInv
<1>8. ASSUME NEW c \in Conns, Serve(c) PROVE OriginInv'
  <2>1. requests[c] # <<>> /\ requests' = [requests EXCEPT ![c] = Tail(@)]
    BY <1>8 DEF Serve
  <2>2. MadeAfter(Head(requests[c]).call)
    BY <1>3, <1>4, <2>1, SeqFacts
  <2>3. \A i \in 1 .. Len(inbox') : MadeAfter(inbox'[i].call)
    BY <1>6, <1>8, <2>2, ServeShape
  <2>4. ASSUME NEW d \in Conns, NEW i \in 1 .. Len(requests'[d]) PROVE MadeAfter(requests'[d][i].call)
    <3>1. CASE d # c
      BY <1>3, <1>4, <2>1, <2>4, <3>1
    <3>2. CASE d = c
      <4>1. requests'[d] = Tail(requests[c]) /\ requests[c] \in Seq(Requests)
        BY <1>3, <2>1, <3>2
      <4>2. i + 1 \in 1 .. Len(requests[c]) /\ requests'[d][i] = requests[c][i + 1]
        BY <2>1, <2>4, <4>1, SeqFacts
      <4> QED BY <1>4, <4>2
    <3> QED BY <3>1, <3>2
  <2> QED BY <1>1, <1>2, <2>3, <2>4, CallIdsAfter, OriginParts DEF OriginInv
<1> QED BY <1>7, <1>8

LEMMA OriginStep == TypeOK /\ OriginInv /\ [Next]_vars => OriginInv'
<1> SUFFICES ASSUME TypeOK, OriginInv, [Next]_vars PROVE OriginInv'
  OBVIOUS
<1>1. ASSUME CallsAtMostOnce \/ SendsChat, UNCHANGED inbox, app' = app \/ app' = Idle
      PROVE  OriginInv'
  <2>1. FewerCalls \/ CallsOnce
    BY <1>1 DEF CallsAtMostOnce, SendsChat, FewerCalls, callVars
  <2>2. \A i \in 1 .. Len(inbox') : MadeAfter(inbox'[i].call)
    BY <1>1, <2>1, InboxAfter
  <2>3. \A c \in Conns : \A i \in 1 .. Len(requests'[c]) : MadeAfter(requests'[c][i].call)
    BY <1>1, RequestsAfter
  <2> QED BY <1>1, <2>1, <2>2, <2>3, CallIdsAfter, OriginParts DEF OriginInv
<1>2. ASSUME NEW args \in Args, HandleInput(args) PROVE OriginInv'
  <2>1. CommandSteps
    BY <1>2, CommandShape
  <2> QED BY <1>1, <1>2, <2>1 DEF CommandSteps, HandleInput, Typed
<1>3. CASE OnConnected \/ OnConnectionFailed
  BY <1>1, <1>3 DEF OnConnected, OnConnectionFailed, CallsAtMostOnce
<1>4. ASSUME NEW d \in Conns, Lose(d) PROVE OriginInv'
  <2>1. FewerCalls /\ UNCHANGED <<app, inbox>> /\ requests' = [requests EXCEPT ![d] = <<>>]
    BY <1>4 DEF Lose, FewerCalls
  <2>2. \A i \in 1 .. Len(inbox') : MadeAfter(inbox'[i].call)
    BY <2>1, InboxAfter
  <2>3. \A c \in Conns : \A i \in 1 .. Len(requests'[c]) : MadeAfter(requests'[c][i].call)
    <3>1. requests \in [Conns -> Seq(Requests)]
      BY DEF TypeOK, CallsOK
    <3>2. \A c \in Conns : \A i \in 1 .. Len(requests[c]) : MadeAfter(requests[c][i].call)
      BY <2>1, MadeKept DEF OriginInv
    <3> QED BY <2>1, <3>1, <3>2
  <2> QED BY <2>1, <2>2, <2>3, CallIdsAfter, OriginParts DEF OriginInv
<1>5. CASE Act
  <2>1. HandlerSteps
    BY <1>5, HandlerShape
  <2> QED BY <1>1, <1>5, <2>1 DEF HandlerSteps, Act
<1>6. ASSUME NEW k \in calls, Timeout(k) PROVE OriginInv'
  <2>1. FewerCalls /\ UNCHANGED <<app, inbox, requests>>
    BY <1>6 DEF Timeout, FewerCalls
  <2>2. \A i \in 1 .. Len(inbox') : MadeAfter(inbox'[i].call)
    BY <2>1, InboxAfter
  <2>3. \A c \in Conns : \A i \in 1 .. Len(requests'[c]) : MadeAfter(requests'[c][i].call)
    BY <2>1, MadeKept DEF OriginInv
  <2> QED BY <2>1, <2>2, <2>3, CallIdsAfter, OriginParts DEF OriginInv
<1>7. CASE UNCHANGED vars
  BY <1>1, <1>7 DEF vars, CallsAtMostOnce
<1> QED BY <1>2, <1>3, <1>4, <1>5, <1>6, <1>7, OriginTakeMessage, OriginServer DEF Next

-----------------------------------------------------------------------------
(* A session that was checked lasts until user_ is reset.                  *)

(* CheckedAt after the step, of a number. *)
CheckedAfter(a) == a <= leaves' /\ (a = leaves' => user' # None)

(* What a step may do to the session. *)
SessionSteps ==
  \/ UNCHANGED <<user, leaves>>
  \/ UNCHANGED leaves /\ user' \in Users
  \/ leaves' = leaves + 1

LEMMA CheckedKept ==
  ASSUME TypeOK, SessionSteps, NEW a \in Nat, CheckedAt(a)
  PROVE  CheckedAfter(a)
BY Distinct DEF SessionSteps, CheckedAt, CheckedAfter, TypeOK, HistoryOK

LEMMA GoesOnChecked ==
  ASSUME TypeOK, CheckInv, NEW then, GoesOn(then), then.chats # {}
  PROVE  then.at \in Nat /\ CheckedAt(then.at)
<1>1. then.at \in Nat
  BY ContinuationFacts DEF GoesOn
<1> QED BY <1>1 DEF GoesOn, CheckInv

LEMMA CheckParts ==
  ASSUME \A k \in calls' : k.then.chats # {} => CheckedAfter(k.then.at),
         app' # Idle /\ app'.kind \in {"chats", "chat"} => CheckedAfter(app'.at),
         app' # Idle /\ app'.kind = "users" /\ app'.then.chats # {} => CheckedAfter(app'.then.at)
  PROVE  CheckInv'
BY DEF CheckInv, CheckedAt, CheckedAfter

LEMMA CallsChecked ==
  ASSUME TypeOK, CheckInv, SessionSteps, calls' \subseteq calls \/ CallsOnce
  PROVE  \A k \in calls' : k.then.chats # {} => CheckedAfter(k.then.at)
<1>1. ASSUME NEW k \in calls, k.then.chats # {} PROVE CheckedAfter(k.then.at)
  <2>1. k.then \in Continuation /\ CheckedAt(k.then.at)
    BY <1>1 DEF TypeOK, CallsOK, CheckInv
  <2> QED BY <2>1, ContinuationFacts, CheckedKept
<1>2. CASE calls' \subseteq calls
  BY <1>1, <1>2
<1>3. CASE CallsOnce
  <2>1. PICK conn, kind, arg, then : Call(conn, kind, arg, then) /\ GoesOn(then)
    BY <1>3 DEF CallsOnce
  <2>2. calls' = calls \cup {[id |-> next_call, conn |-> conn, then |-> then]}
    BY <2>1 DEF Call
  <2>3. then.chats # {} => CheckedAfter(then.at)
    BY <2>1, GoesOnChecked, CheckedKept
  <2> QED BY <1>1, <2>2, <2>3
<1> QED BY <1>2, <1>3

LEMMA AppChecked ==
  ASSUME TypeOK, CheckInv, SessionSteps, UNCHANGED app \/ app' = Idle
  PROVE  /\ app' # Idle /\ app'.kind \in {"chats", "chat"} => CheckedAfter(app'.at)
         /\ app' # Idle /\ app'.kind = "users" /\ app'.then.chats # {} => CheckedAfter(app'.then.at)
<1> SUFFICES ASSUME app' = app, app # Idle
             PROVE  /\ app.kind \in {"chats", "chat"} => CheckedAfter(app.at)
                    /\ app.kind = "users" /\ app.then.chats # {} => CheckedAfter(app.then.at)
  OBVIOUS
<1>1. app \in Handlers
  BY DEF TypeOK, AppOK
<1>2. app.at \in Nat /\ (app.kind = "users" => app.then.at \in Nat)
  BY <1>1, HandlerFacts, ContinuationFacts DEF AnswerKinds
<1> QED BY <1>2, CheckedKept DEF CheckInv

LEMMA CheckTakeMessage ==
  ASSUME TypeOK, CheckInv, TakeMessage
  PROVE  CheckInv'
<1> DEFINE m == Head(inbox)
<1>1. (TakeAnswer(m) \/ TakeEvent(m)) /\ UNCHANGED <<user, leaves>>
  BY DEF TakeMessage, histVars
<1>2. m \in Messages
  BY SeqFacts DEF TakeMessage, TypeOK, AppOK
<1> HIDE DEF m
<1>3. SessionSteps /\ calls' \subseteq calls /\ leaves \in Nat
  BY <1>1 DEF SessionSteps, TakeAnswer, TakeEvent, TypeOK, HistoryOK
<1>4. \A k \in calls' : k.then.chats # {} => CheckedAfter(k.then.at)
  BY <1>3, CallsChecked
<1>5. ValidateSession => CheckedAfter(leaves)
  BY <1>1, <1>3 DEF ValidateSession, CheckedAfter
<1>6. CASE TakeAnswer(m)
  <2> DEFINE k == CHOOSE k \in calls : k.id = m.call
  <2> SUFFICES ASSUME app' # Idle
               PROVE  /\ app'.kind \in {"chats", "chat"} => CheckedAfter(app'.at)
                      /\ app'.kind = "users" /\ app'.then.chats # {} => CheckedAfter(app'.then.at)
    BY <1>4, CheckParts
  <2>1. /\ m.kind # "error" /\ ChecksAnswer(m.kind) /\ Pending(m) # {} /\ m.call > 0
        /\ app' = [kind |-> m.kind, data |-> m.data, conn |-> k.conn, then |-> k.then, at |-> leaves]
    BY <1>6 DEF TakeAnswer
  <2>2. k \in calls
    BY <2>1 DEF Pending
  <2>3. k.then.chats # {} => CheckedAfter(k.then.at)
    <3>1. k.then \in Continuation /\ (k.then.chats # {} => CheckedAt(k.then.at))
      BY <2>2 DEF TypeOK, CallsOK, CheckInv
    <3> QED BY <1>3, <3>1, ContinuationFacts, CheckedKept
  <2>4. m.kind # "chat"
    BY <1>2, <2>1 DEF Messages, AnswersWith, EventsWith
  <2> HIDE DEF k
  <2> QED BY <1>5, <2>1, <2>3, <2>4 DEF ChecksAnswer
<1>7. CASE TakeEvent(m)
  <2> SUFFICES ASSUME app' # Idle
               PROVE  /\ app'.kind \in {"chats", "chat"} => CheckedAfter(app'.at)
                      /\ app'.kind # "users"
    BY <1>4, CheckParts
  <2> QED BY <1>2, <1>5, <1>7, MessageFacts DEF TakeEvent, ChecksEvent, AnswerKinds
<1> QED BY <1>1, <1>6, <1>7

LEMMA CheckStep == TypeOK /\ CheckInv /\ [Next]_vars => CheckInv'
<1> SUFFICES ASSUME TypeOK, CheckInv, [Next]_vars PROVE CheckInv'
  OBVIOUS
<1>1. ASSUME SessionSteps, calls' \subseteq calls \/ CallsOnce, UNCHANGED app \/ app' = Idle
      PROVE  CheckInv'
  BY <1>1, CallsChecked, AppChecked, CheckParts
<1>2. CASE \E args \in Args : HandleInput(args)
  <2>1. CommandSteps /\ UNCHANGED app
    BY <1>2, CommandShape DEF HandleInput, Typed
  <2> QED BY <1>1, <2>1 DEF CommandSteps, SessionSteps, CallsAtMostOnce, SendsChat, callVars
<1>3. CASE OnConnected \/ OnConnectionFailed
  BY <1>1, <1>3 DEF OnConnected, OnConnectionFailed, SessionSteps, callVars, histVars
<1>4. CASE \E c \in Conns : Lose(c)
  BY <1>1, <1>4 DEF Lose, OnDisconnected, SessionSteps
<1>5. CASE Act
  <2>1. HandlerSteps
    BY <1>5, HandlerShape
  <2>2. app' = Idle /\ UNCHANGED leaves
    BY <1>5 DEF Act
  <2> QED BY <1>1, <2>1, <2>2 DEF HandlerSteps, SessionSteps, CallsAtMostOnce, callVars
<1>6. CASE \E k \in calls : Timeout(k)
  BY <1>1, <1>6 DEF Timeout, SessionSteps
<1>7. CASE OtherActs \/ \E c \in Conns : Serve(c)
  BY <1>1, <1>7 DEF OtherActs, Serve, SessionSteps, callVars, histVars
<1>8. CASE UNCHANGED vars
  BY <1>1, <1>8 DEF vars, SessionSteps, callVars, histVars
<1> QED BY <1>2, <1>3, <1>4, <1>5, <1>6, <1>7, <1>8, CheckTakeMessage DEF Next

-----------------------------------------------------------------------------
(* The two properties.                                                     *)

LEMMA NullUserStep ==
  TypeOK /\ CheckInv /\ NullUserOnlyAfterLeave /\ [Next]_vars => NullUserOnlyAfterLeave'
<1> SUFFICES ASSUME TypeOK, CheckInv, NullUserOnlyAfterLeave, [Next]_vars PROVE NullUserOnlyAfterLeave'
  OBVIOUS
<1>1. ASSUME UNCHANGED null_user PROVE NullUserOnlyAfterLeave'
  BY <1>1 DEF NullUserOnlyAfterLeave
<1>2. CASE Act
  <2>1. ShowsAtMostOnce
    BY <1>2, HandlerShape DEF HandlerSteps
  <2>2. ASSUME NEW then, NEW cache, ProcessChatMessages(then, cache), GoesOn(then)
        PROVE  NullUserOnlyAfterLeave'
    <3>1. then.chats # {} /\ user = None => then.at # leaves
      BY <2>2, GoesOnChecked DEF CheckedAt
    <3>2. \/ null_user' = null_user
          \/ /\ user = None /\ then.chats # {}
             /\ null_user' = null_user \cup {IF then.at = leaves THEN "checked" ELSE "left"}
      BY <2>2 DEF ProcessChatMessages
    <3> QED BY <3>1, <3>2 DEF NullUserOnlyAfterLeave
  <2> QED BY <1>1, <2>1, <2>2 DEF ShowsAtMostOnce
<1>3. CASE ~ Act
  <2>1. UNCHANGED null_user
    BY <1>3 DEF Next, vars, histVars, HandleInput, Typed, OnConnected, OnConnectionFailed, Lose, Serve,
                TakeMessage, Timeout, OtherActs
  <2> QED BY <1>1, <2>1
<1> QED BY <1>2, <1>3

LEMMA UserStep ==
  TypeOK /\ OriginInv /\ UserOnlyWhileConnected /\ [Next]_vars => UserOnlyWhileConnected'
<1> SUFFICES ASSUME TypeOK, OriginInv, UserOnlyWhileConnected, [Next]_vars PROVE UserOnlyWhileConnected'
  OBVIOUS
<1>1. ASSUME UNCHANGED late_login, user' = None \/ UNCHANGED <<user, connection_id>>
      PROVE  UserOnlyWhileConnected'
  BY <1>1 DEF UserOnlyWhileConnected
<1>2. CASE \E args \in Args : HandleInput(args)
  <2>1. CommandSteps /\ UNCHANGED <<connection_id, late_login>>
    BY <1>2, CommandShape DEF HandleInput, Typed
  <2> QED BY <1>1, <2>1 DEF CommandSteps
<1>3. CASE OnConnected
  <2>1. conns + 1 \in Conns
    BY <1>3, ClientAssumption DEF OnConnected, TypeOK, UiOK, Conns
  <2>2. connection_id' # None
    BY <1>3, <2>1, Distinct DEF OnConnected
  <2> QED BY <2>2 DEF UserOnlyWhileConnected
<1>4. CASE \E c \in Conns : Lose(c)
  BY <1>1, <1>4 DEF Lose, OnDisconnected
<1>5. CASE Act
  <2>1. UNCHANGED connection_id /\ app # Idle
    BY <1>5 DEF Act, uiVars
  <2>2. CASE UNCHANGED <<user, late_login>>
    BY <1>1, <2>1, <2>2
  <2>3. CASE app.kind = "authenticate" /\ late_login' = (late_login \/ connection_id # app.conn)
    <3>1. app.conn # None
      BY <2>1, <2>3 DEF OriginInv, AnswerKinds
    <3> QED BY <2>1, <2>3, <3>1 DEF UserOnlyWhileConnected
  <2> QED BY <1>5, <2>2, <2>3, HandlerShape DEF HandlerSteps
<1>6. CASE OnConnectionFailed \/ TakeMessage \/ OtherActs
           \/ (\E k \in calls : Timeout(k)) \/ (\E c \in Conns : Serve(c)) \/ UNCHANGED vars
  <2>1. UNCHANGED <<late_login, user, connection_id>>
    BY <1>6 DEF OnConnectionFailed, TakeMessage, OtherActs, Timeout, Serve, vars, uiVars, histVars
  <2> QED BY <1>1, <2>1
<1> QED BY <1>2, <1>3, <1>4, <1>5, <1>6 DEF Next

LEMMA ClientInit == Init => ClientInv
<1> SUFFICES ASSUME Init PROVE ClientInv
  OBVIOUS
<1>1. OriginInv
  BY DEF Init, OriginInv
<1>2. CheckInv
  BY DEF Init, CheckInv
<1> QED BY <1>1, <1>2, TypeInit DEF Init, ClientInv, NullUserOnlyAfterLeave, UserOnlyWhileConnected

(* The inductive invariant: well-formed messages, calls made on a          *)
(* connection, sessions that last from check to reset.                     *)
THEOREM ClientInvariant == Spec => []ClientInv
<1>1. ClientInv /\ [Next]_vars => ClientInv'
  BY TypeStep, OriginStep, CheckStep, NullUserStep, UserStep DEF ClientInv
<1> QED BY <1>1, ClientInit, PTL DEF Spec

(* user_ is read while empty only if a logout or a lost connection came    *)
(* after the last check: each of the checks on the way is enough, with any *)
(* number of connections, calls and chats.                                 *)
THEOREM NullUserCorrect == Spec => []NullUserOnlyAfterLeave
<1>1. ClientInv => NullUserOnlyAfterLeave
  BY DEF ClientInv
<1> QED BY <1>1, ClientInvariant, PTL

(* The client is logged in without a connection only if the answer to a    *)
(* login was handled after its connection was lost or replaced.            *)
THEOREM ConnectedUser == Spec => []UserOnlyWhileConnected
<1>1. ClientInv => UserOnlyWhileConnected
  BY DEF ClientInv
<1> QED BY <1>1, ClientInvariant, PTL

-----------------------------------------------------------------------------
(* The inductive invariant behind SessionAgrees and NoGap.  As long as     *)
(* nothing overlaps there is one connection; what waits on it, answers     *)
(* before requests, is in the order of the calls, and at most one of the   *)
(* calls under way changes the session.                                    *)

Received == Range(inbox)
Queued == Range(requests[connection_id])
InTransit == Received \cup Queued

(* The one connection, and nothing left of an earlier one. *)
OneConnection ==
  /\ open = {connection_id} \ {None}
  /\ \A c \in Conns : c # connection_id => session[c] = None /\ joined[c] = None /\ requests[c] = <<>>
  /\ connection_id = None => ~ Busy /\ inbox = <<>> /\ user = None /\ channel_name = None

InCallOrder(s) == \A i, j \in DOMAIN s : i < j /\ s[j].call # 0 => s[i].call < s[j].call

(* Every call that is answered later was made later, and is still pending. *)
CallsInOrder ==
  /\ \A k, l \in calls : k.id = l.id => k = l
  /\ InCallOrder(inbox) /\ InCallOrder(requests[connection_id])
  /\ \A m \in Received, r \in Queued : r.call # 0 => m.call < r.call
  /\ \A m \in InTransit : m.call # 0 => \E k \in calls : k.id = m.call

(* Does this request or answer load the channel that was joined? *)
LoadsJoined(m) == m.kind = "channel" /\ \E k \in calls : k.id = m.call /\ k.then.to = "joined"
ChangesSession(m) == m.kind \in {"authenticate", "logout", "join"} \/ LoadsJoined(m)

AppLoadsJoined == app.kind = "channel" /\ app.then.to = "joined"
AppIs(kind) == app.kind = kind
AppChangesSession == AppIs("authenticate") \/ AppIs("logout") \/ AppIs("join") \/ AppLoadsJoined

OneChange ==
  /\ \A m, n \in InTransit : ChangesSession(m) /\ ChangesSession(n) => m.call = n.call
  /\ AppChangesSession => \A m \in InTransit : ~ ChangesSession(m)

(* A logout the server has not seen yet; the user whose login and the      *)
(* channel whose joining the client has not finished yet.                  *)
LoggingOut == \E r \in Queued : r.kind = "logout"
LoggingIn(u) ==
  \/ \E m \in Received : m.kind = "authenticate" /\ m.data = u
  \/ AppIs("authenticate") /\ app.data = u
Joining(ch) ==
  \/ \E m \in Received : (m.kind = "join" \/ LoadsJoined(m)) /\ m.data = ch
  \/ \E r \in Queued : LoadsJoined(r) /\ r.arg = ch
  \/ (AppIs("join") \/ AppLoadsJoined) /\ app.data = ch

(* What the server has is what the client has, or will have at the end of  *)
(* the change under way.                                                   *)
Agreement ==
  /\ session[connection_id] = None => joined[connection_id] = None
  /\ \A u \in Users : LoggingIn(u) => session[connection_id] = u /\ joined[connection_id] = None
  /\ \A ch \in AllChannels : Joining(ch) => session[connection_id] # None /\ joined[connection_id] = ch
  /\ LoggingOut => user = None /\ channel_name = None
  /\ ~ LoggingOut /\ (\A u \in Users : ~ LoggingIn(u)) => user = session[connection_id]
  /\ ~ LoggingOut /\ (\A ch \in AllChannels : ~ Joining(ch)) => channel_name = joined[connection_id]

(* Chat i is shown once this answer, event or handler is done with, or     *)
(* this request answered: the chat itself, the log of its channel, or its  *)
(* author.                                                                 *)
WaitsFor(m, i) == \E k \in calls : k.id = m.call /\ i \in k.then.chats
Brings(m, i) ==
  \/ m.kind = "chat" /\ m.data = i
  \/ m.kind = "chats" /\ i \in m.data
  \/ m.kind = "users" /\ WaitsFor(m, i) /\ chats[i].user \in users_cache \cup m.data
AppBrings(i) ==
  \/ AppIs("chat") /\ app.data = i
  \/ AppIs("chats") /\ i \in app.data
  \/ AppIs("users") /\ i \in app.then.chats /\ chats[i].user \in users_cache \cup app.data
AsksFor(r, i) ==
  \/ r.kind = "chats" /\ r.arg = chats[i].channel
  \/ r.kind = "users" /\ WaitsFor(r, i) /\ chats[i].user \in users_cache \cup r.arg
OnItsWay(i) ==
  (\E m \in Received : Brings(m, i)) \/ AppBrings(i) \/ (\E r \in Queued : AsksFor(r, i))

(* Every chat of the channel has been shown, was too old for its log, or   *)
(* is on its way.                                                          *)
Delivery ==
  /\ \A m \in Received : m.kind = "chat" => m.user = chats[m.data].user
  /\ AppIs("chat") => app.user = chats[app.data].user
  /\ ~ LoggingOut => \A i \in DOMAIN chats : chats[i].channel = joined[connection_id] =>
       i \in shown \cup older \/ Joining(chats[i].channel) \/ OnItsWay(i)

SoloInv ==
  ~ overlapped =>
    /\ OneConnection
    /\ connection_id # None => CallsInOrder /\ OneChange /\ Agreement /\ Delivery

-----------------------------------------------------------------------------
(* While nothing overlaps: sequences and the sets of their elements.       *)

LEMMA RangeType ==
  ASSUME NEW S, NEW s \in Seq(S)
  PROVE  Range(s) \subseteq S
BY DEF Range

LEMMA RangeEmpty == Range(<<>>) = {}
BY DEF Range

LEMMA RangeSingle ==
  ASSUME NEW x
  PROVE  Range(<<x>>) = {x}
BY DEF Range

LEMMA RangeTail ==
  ASSUME NEW S, NEW s \in Seq(S), s # <<>>
  PROVE  Range(s) = {Head(s)} \cup Range(Tail(s))
<1>1. DOMAIN s = 1 .. Len(s) /\ DOMAIN Tail(s) = 1 .. Len(s) - 1 /\ Len(s) \in Nat /\ Len(s) > 0
  OBVIOUS
<1>2. \A i \in 1 .. Len(s) - 1 : Tail(s)[i] = s[i + 1]
  OBVIOUS
<1>3. Head(s) = s[1]
  OBVIOUS
<1>4. ASSUME NEW i \in 1 .. Len(s) PROVE s[i] \in {Head(s)} \cup Range(Tail(s))
  <2>1. CASE i = 1
    BY <1>3, <2>1
  <2>2. CASE i # 1
    <3>1. i - 1 \in 1 .. Len(s) - 1 /\ Tail(s)[i - 1] = s[i]
      BY <1>1, <1>2, <2>2
    <3> QED BY <1>1, <3>1 DEF Range
  <2> QED BY <2>1, <2>2
<1>5. ASSUME NEW i \in 1 .. Len(s) - 1 PROVE Tail(s)[i] \in Range(s)
  BY <1>1, <1>2 DEF Range
<1>6. Head(s) \in Range(s)
  BY <1>1, <1>3 DEF Range
<1> QED BY <1>1, <1>4, <1>5, <1>6 DEF Range

LEMMA RangeConcat ==
  ASSUME NEW S, NEW T, NEW s \in Seq(S), NEW t \in Seq(T)
  PROVE  Range(s \o t) = Range(s) \cup Range(t)
<1>1. /\ DOMAIN s = 1 .. Len(s) /\ DOMAIN t = 1 .. Len(t) /\ DOMAIN (s \o t) = 1 .. Len(s) + Len(t)
      /\ Len(s) \in Nat /\ Len(t) \in Nat
  OBVIOUS
<1>2. \A i \in 1 .. Len(s) + Len(t) : (s \o t)[i] = IF i <= Len(s) THEN s[i] ELSE t[i - Len(s)]
  OBVIOUS
<1>3. ASSUME NEW i \in 1 .. Len(s) + Len(t) PROVE (s \o t)[i] \in Range(s) \cup Range(t)
  <2>1. CASE i <= Len(s)
    BY <1>1, <1>2, <2>1 DEF Range
  <2>2. CASE ~ (i <= Len(s))
    <3>1. i - Len(s) \in 1 .. Len(t) /\ (s \o t)[i] = t[i - Len(s)]
      BY <1>1, <1>2, <2>2
    <3> QED BY <1>1, <3>1 DEF Range
  <2> QED BY <2>1, <2>2
<1>4. ASSUME NEW i \in 1 .. Len(s) PROVE s[i] \in Range(s \o t)
  <2>1. i \in 1 .. Len(s) + Len(t) /\ (s \o t)[i] = s[i]
    BY <1>1, <1>2
  <2> QED BY <1>1, <2>1 DEF Range
<1>5. ASSUME NEW i \in 1 .. Len(t) PROVE t[i] \in Range(s \o t)
  <2>1. i + Len(s) \in 1 .. Len(s) + Len(t) /\ (s \o t)[i + Len(s)] = t[i]
    BY <1>1, <1>2
  <2> QED BY <1>1, <2>1 DEF Range
<1> QED BY <1>1, <1>3, <1>4, <1>5 DEF Range

LEMMA RangeAppend ==
  ASSUME NEW S, NEW s \in Seq(S), NEW x \in S
  PROVE  Range(Append(s, x)) = Range(s) \cup {x}
<1> DEFINE t == <<x>>
<1>1. t \in Seq(S) /\ Append(s, x) = s \o t
  OBVIOUS
<1>2. Range(t) = {x}
  BY RangeSingle
<1> HIDE DEF t
<1>3. Range(s \o t) = Range(s) \cup Range(t)
  BY <1>1, RangeConcat
<1> QED BY <1>1, <1>2, <1>3

(* Call ids in ascending order stay so when a later one is added at the    *)
(* end or the first one is taken.                                          *)
LEMMA OrderEmpty == InCallOrder(<<>>)
BY DEF InCallOrder

LEMMA OrderSingle ==
  ASSUME NEW x
  PROVE  InCallOrder(<<x>>)
BY DEF InCallOrder

LEMMA OrderConcat ==
  ASSUME NEW S, NEW T, NEW s \in Seq(S), NEW t \in Seq(T), InCallOrder(s), InCallOrder(t),
         \A m \in Range(s), n \in Range(t) : n.call # 0 => m.call < n.call
  PROVE  InCallOrder(s \o t)
<1>1. /\ DOMAIN s = 1 .. Len(s) /\ DOMAIN t = 1 .. Len(t) /\ DOMAIN (s \o t) = 1 .. Len(s) + Len(t)
      /\ Len(s) \in Nat /\ Len(t) \in Nat
  OBVIOUS
<1>2. \A i \in 1 .. Len(s) + Len(t) : (s \o t)[i] = IF i <= Len(s) THEN s[i] ELSE t[i - Len(s)]
  OBVIOUS
<1>3. \A i \in 1 .. Len(s), j \in 1 .. Len(t) : t[j].call # 0 => s[i].call < t[j].call
  BY <1>1 DEF Range
<1> DEFINE u == s \o t
<1>4. SUFFICES ASSUME NEW i \in 1 .. Len(s) + Len(t), NEW j \in 1 .. Len(s) + Len(t), i < j, u[j].call # 0
               PROVE  u[i].call < u[j].call
  BY <1>1 DEF InCallOrder
<1> HIDE DEF u
<1>5. /\ u[i] = IF i <= Len(s) THEN s[i] ELSE t[i - Len(s)]
      /\ u[j] = IF j <= Len(s) THEN s[j] ELSE t[j - Len(s)]
  BY <1>2 DEF u
<1>6. CASE j <= Len(s)
  <2>1. i \in 1 .. Len(s) /\ j \in 1 .. Len(s) /\ u[i] = s[i] /\ u[j] = s[j]
    BY <1>1, <1>4, <1>5, <1>6
  <2> QED BY <1>1, <1>4, <2>1 DEF InCallOrder
<1>7. CASE i <= Len(s) /\ ~ (j <= Len(s))
  <2>1. i \in 1 .. Len(s) /\ j - Len(s) \in 1 .. Len(t) /\ u[i] = s[i] /\ u[j] = t[j - Len(s)]
    BY <1>1, <1>4, <1>5, <1>7
  <2> QED BY <1>3, <1>4, <2>1
<1>8. CASE ~ (i <= Len(s)) /\ ~ (j <= Len(s))
  <2>1. /\ i - Len(s) \in 1 .. Len(t) /\ j - Len(s) \in 1 .. Len(t) /\ i - Len(s) < j - Len(s)
        /\ u[i] = t[i - Len(s)] /\ u[j] = t[j - Len(s)]
    BY <1>1, <1>4, <1>5, <1>8
  <2> QED BY <1>1, <1>4, <2>1 DEF InCallOrder
<1>9. j <= Len(s) \/ (i <= Len(s) /\ ~ (j <= Len(s))) \/ (~ (i <= Len(s)) /\ ~ (j <= Len(s)))
  OBVIOUS
<1> QED BY <1>6, <1>7, <1>8, <1>9

LEMMA OrderAppend ==
  ASSUME NEW S, NEW s \in Seq(S), NEW x \in S, InCallOrder(s),
         x.call # 0 => \A m \in Range(s) : m.call < x.call
  PROVE  InCallOrder(Append(s, x))
<1>1. <<x>> \in Seq(S) /\ Append(s, x) = s \o <<x>>
  OBVIOUS
<1>2. Range(<<x>>) = {x} /\ InCallOrder(<<x>>)
  BY RangeSingle, OrderSingle
<1> QED BY <1>1, <1>2, OrderConcat

LEMMA OrderTail ==
  ASSUME NEW S, NEW s \in Seq(S), s # <<>>, InCallOrder(s)
  PROVE  /\ InCallOrder(Tail(s))
         /\ \A m \in Range(Tail(s)) : m.call # 0 => Head(s).call < m.call
<1>1. DOMAIN s = 1 .. Len(s) /\ DOMAIN Tail(s) = 1 .. Len(s) - 1 /\ Len(s) \in Nat /\ Len(s) > 0
  OBVIOUS
<1>2. \A i \in 1 .. Len(s) - 1 : Tail(s)[i] = s[i + 1] /\ i + 1 \in 1 .. Len(s) /\ 1 < i + 1
  OBVIOUS
<1>3. Head(s) = s[1] /\ 1 \in 1 .. Len(s)
  BY <1>1
<1>4. ASSUME NEW i \in 1 .. Len(s) - 1, NEW j \in 1 .. Len(s) - 1, i < j, Tail(s)[j].call # 0
      PROVE  Tail(s)[i].call < Tail(s)[j].call
  <2>1. i + 1 < j + 1
    BY <1>1, <1>4
  <2> QED BY <1>1, <1>2, <1>4, <2>1 DEF InCallOrder
<1>5. ASSUME NEW i \in 1 .. Len(s) - 1, Tail(s)[i].call # 0
      PROVE  Head(s).call < Tail(s)[i].call
  BY <1>1, <1>2, <1>3, <1>5 DEF InCallOrder
<1> QED BY <1>1, <1>4, <1>5 DEF InCallOrder, Range

-----------------------------------------------------------------------------
(* What waits on the one connection, before and after a step.              *)

(* The part of the invariant that says where things are. *)
Attached == TypeOK /\ OriginInv /\ OneConnection /\ connection_id # None /\ CallsInOrder

LEMMA AttachedFacts ==
  ASSUME Attached
  PROVE  /\ connection_id \in Conns /\ open = {connection_id}
         /\ requests \in [Conns -> Seq(Requests)] /\ requests[connection_id] \in Seq(Requests)
         /\ inbox \in Seq(Messages)
         /\ Received \subseteq Messages /\ Queued \subseteq Requests
         /\ next_call \in Nat \ {0}
         /\ \A m \in InTransit : m.call \in Nat /\ m.call < next_call
         /\ \A k \in calls : k.id < next_call /\ k.id \in Nat \ {0} /\ k.then \in Continuation
<1>1. connection_id \in Conns /\ open = {connection_id}
  BY Distinct DEF Attached, TypeOK, UiOK, OneConnection
<1>2. /\ requests \in [Conns -> Seq(Requests)] /\ requests[connection_id] \in Seq(Requests)
      /\ inbox \in Seq(Messages)
  BY <1>1 DEF Attached, TypeOK, CallsOK, AppOK
<1>3. Received \subseteq Messages /\ Queued \subseteq Requests
  BY <1>2, RangeType DEF Received, Queued
<1>4. next_call \in Nat \ {0} /\ \A k \in calls : k.id < next_call /\ k.id \in Nat \ {0} /\ k.then \in Continuation
  BY DEF Attached, TypeOK, CallsOK, OriginInv
<1>5. ASSUME NEW m \in Received PROVE m.call \in Nat /\ m.call < next_call
  <2>1. PICK i \in 1 .. Len(inbox) : m = inbox[i]
    BY <1>2 DEF Received, Range
  <2>2. MadeOnConnection(m.call)
    BY <2>1 DEF Attached, OriginInv
  <2> QED BY <1>4, <2>2 DEF MadeOnConnection
<1>6. ASSUME NEW r \in Queued PROVE r.call \in Nat /\ r.call < next_call
  <2>1. PICK i \in 1 .. Len(requests[connection_id]) : r = requests[connection_id][i]
    BY <1>2 DEF Queued, Range
  <2>2. MadeOnConnection(r.call)
    BY <1>1, <2>1 DEF Attached, OriginInv
  <2> QED BY <1>4, <2>2 DEF MadeOnConnection
<1> QED BY <1>1, <1>2, <1>3, <1>4, <1>5, <1>6 DEF InTransit

(* A request is added, with a call of its own or without one. *)
LEMMA RequestQueued ==
  ASSUME Attached, UNCHANGED <<inbox, connection_id>>, NEW r \in Requests,
         requests' = [requests EXCEPT ![connection_id] = Append(@, r)],
         r.call # 0 => r.call = next_call
  PROVE  /\ Received' = Received /\ Queued' = Queued \cup {r}
         /\ InCallOrder(inbox') /\ InCallOrder(requests'[connection_id'])
         /\ \A d \in Conns : d # connection_id => requests'[d] = requests[d]
<1>1. requests'[connection_id'] = Append(requests[connection_id], r)
  BY AttachedFacts
<1>2. Received' = Received /\ Queued' = Queued \cup {r}
  BY <1>1, AttachedFacts, RangeAppend DEF Received, Queued
<1>3. InCallOrder(requests'[connection_id'])
  <2>1. r.call # 0 => \A m \in Range(requests[connection_id]) : m.call < r.call
    BY AttachedFacts DEF InTransit, Queued
  <2>2. InCallOrder(requests[connection_id])
    BY DEF Attached, CallsInOrder
  <2> QED BY <1>1, <2>1, <2>2, AttachedFacts, OrderAppend
<1>4. InCallOrder(inbox')
  BY DEF Attached, CallsInOrder
<1>5. \A d \in Conns : d # connection_id => requests'[d] = requests[d]
  BY AttachedFacts
<1> QED BY <1>2, <1>3, <1>4, <1>5

LEMMA CallMade ==
  ASSUME Attached, UNCHANGED <<inbox, connection_id>>, NEW kind, NEW arg, NEW then, NEW r \in Requests,
         r = [kind |-> kind, arg |-> arg, call |-> next_call],
         Call(connection_id, kind, arg, then)
  PROVE  /\ Received' = Received /\ Queued' = Queued \cup {r} /\ CallsInOrder'
         /\ \A d \in Conns : d # connection_id => requests'[d] = requests[d]
         /\ \A m \in InTransit : m.call # next_call
         /\ \A m \in InTransit : LoadsJoined(m)' <=> LoadsJoined(m)
         /\ \A m \in InTransit : \A i : WaitsFor(m, i)' <=> WaitsFor(m, i)
         /\ LoadsJoined(r)' <=> kind = "channel" /\ then.to = "joined"
         /\ \A i : WaitsFor(r, i)' <=> i \in then.chats
<1> DEFINE k == [id |-> next_call, conn |-> connection_id, then |-> then]
<1>1. /\ calls' = calls \cup {k} /\ next_call' = next_call + 1
      /\ requests' = [requests EXCEPT ![connection_id] = Append(@, r)]
  BY AttachedFacts DEF Call
<1>2. /\ Received' = Received /\ Queued' = Queued \cup {r}
      /\ InCallOrder(inbox') /\ InCallOrder(requests'[connection_id'])
      /\ \A d \in Conns : d # connection_id => requests'[d] = requests[d]
  BY <1>1, RequestQueued
<1>3. k.id = next_call /\ k.then = then /\ r.call = next_call /\ r.kind = kind
  OBVIOUS
<1> HIDE DEF k
<1>4. \A l \in calls : l.id # next_call
  BY AttachedFacts
<1>5. \A m \in InTransit : m.call # next_call /\ m.call \in Nat
  BY AttachedFacts
<1>6. CallsInOrder'
  <2>1. \A l, n \in calls' : l.id = n.id => l = n
    BY <1>1, <1>3, <1>4 DEF Attached, CallsInOrder
  <2>2. \A m \in Received', q \in Queued' : q.call # 0 => m.call < q.call
    <3>1. \A m \in Received, q \in Queued : q.call # 0 => m.call < q.call
      BY DEF Attached, CallsInOrder
    <3>2. \A m \in Received : m.call < r.call
      BY <1>3, AttachedFacts DEF InTransit
    <3> QED BY <1>2, <3>1, <3>2
  <2>3. \A m \in InTransit' : m.call # 0 => \E l \in calls' : l.id = m.call
    BY <1>1, <1>2, <1>3 DEF Attached, CallsInOrder, InTransit
  <2> QED BY <1>2, <2>1, <2>2, <2>3 DEF CallsInOrder
<1>7. \A m \in InTransit : LoadsJoined(m)' <=> LoadsJoined(m)
  BY <1>1, <1>3, <1>5 DEF LoadsJoined
<1>8. \A m \in InTransit : \A i : WaitsFor(m, i)' <=> WaitsFor(m, i)
  BY <1>1, <1>3, <1>5 DEF WaitsFor
<1>9. LoadsJoined(r)' <=> kind = "channel" /\ then.to = "joined"
  BY <1>1, <1>3, <1>4 DEF LoadsJoined
<1>10. \A i : WaitsFor(r, i)' <=> i \in then.chats
  BY <1>1, <1>3, <1>4 DEF WaitsFor
<1> QED BY <1>2, <1>5, <1>6, <1>7, <1>8, <1>9, <1>10

LEMMA ChatQueued ==
  ASSUME Attached, UNCHANGED <<inbox, connection_id, calls>>, NEW r \in Requests, r.call = 0,
         requests' = [requests EXCEPT ![connection_id] = Append(@, r)]
  PROVE  /\ Received' = Received /\ Queued' = Queued \cup {r} /\ CallsInOrder'
         /\ \A d \in Conns : d # connection_id => requests'[d] = requests[d]
<1>1. /\ Received' = Received /\ Queued' = Queued \cup {r}
      /\ InCallOrder(inbox') /\ InCallOrder(requests'[connection_id'])
      /\ \A d \in Conns : d # connection_id => requests'[d] = requests[d]
  BY RequestQueued
<1>2. CallsInOrder'
  BY <1>1 DEF Attached, CallsInOrder, InTransit
<1> QED BY <1>1, <1>2

(* A message is taken: what is left belongs to later calls. *)
LEMMA MessageTaken ==
  ASSUME Attached, TakeMessage, NEW m, m = Head(inbox)
  PROVE  /\ m \in Received /\ m \in Messages
         /\ Received = {m} \cup Received' /\ Queued' = Queued
         /\ \A n \in InTransit' : n.call # 0 => m.call < n.call
         /\ CallsInOrder'
         /\ \A n \in InTransit' : LoadsJoined(n)' <=> LoadsJoined(n)
         /\ \A n \in InTransit' : n.call # 0 => \A i : WaitsFor(n, i)' <=> WaitsFor(n, i)
<1>1. /\ inbox # <<>> /\ inbox' = Tail(inbox) /\ (TakeAnswer(m) \/ TakeEvent(m))
      /\ UNCHANGED <<requests, connection_id>>
  BY DEF TakeMessage, uiVars
<1>2. Received = {m} \cup Received' /\ Queued' = Queued
  BY <1>1, AttachedFacts, RangeTail DEF Received, Queued
<1>3. m \in Received /\ m \in Messages
  BY <1>2, AttachedFacts
<1>4. InCallOrder(inbox) /\ InCallOrder(requests[connection_id])
      /\ (\A l, n \in Received, r \in Queued : r.call # 0 => n.call < r.call)
  BY DEF Attached, CallsInOrder
<1>5. InCallOrder(inbox') /\ \A n \in Received' : n.call # 0 => m.call < n.call
  BY <1>1, <1>4, AttachedFacts, OrderTail DEF Received
<1>6. \A n \in InTransit' : n \in InTransit /\ (n.call # 0 => m.call < n.call)
  BY <1>2, <1>3, <1>4, <1>5 DEF InTransit
<1>7. calls' = calls \/ calls' = calls \ {k \in calls : k.id = m.call}
  BY <1>1 DEF TakeAnswer, TakeEvent, Pending
<1>8. m.call \in Nat /\ \A n \in InTransit' : n.call \in Nat
  BY <1>3, <1>6, AttachedFacts DEF InTransit
<1>9. \A n \in InTransit' : n.call # 0 => \A k \in calls : k.id = n.call => k \in calls'
  BY <1>6, <1>7, <1>8
<1>10. calls' \subseteq calls
  BY <1>7
<1>11. CallsInOrder'
  <2>1. \A k, l \in calls' : k.id = l.id => k = l
    BY <1>10 DEF Attached, CallsInOrder
  <2>2. InCallOrder(requests'[connection_id'])
    BY <1>1, <1>4
  <2>3. \A n \in Received', r \in Queued' : r.call # 0 => n.call < r.call
    BY <1>2, <1>4
  <2>4. \A n \in InTransit' : n.call # 0 => \E k \in calls' : k.id = n.call
    BY <1>6, <1>9 DEF Attached, CallsInOrder
  <2> QED BY <1>5, <2>1, <2>2, <2>3, <2>4 DEF CallsInOrder
<1>12. ASSUME NEW n \in InTransit' PROVE LoadsJoined(n)' <=> LoadsJoined(n)
  <2>1. n.kind = "channel" => n.call # 0
    <3>1. n \in Messages \/ n \in Requests
      BY <1>6, AttachedFacts DEF InTransit
    <3> QED BY <3>1, MessageFacts, RequestFacts DEF AnswerKinds
  <2> QED BY <1>9, <1>10, <2>1 DEF LoadsJoined
<1>13. \A n \in InTransit' : n.call # 0 => \A i : WaitsFor(n, i)' <=> WaitsFor(n, i)
  BY <1>9, <1>10 DEF WaitsFor
<1> QED BY <1>2, <1>3, <1>6, <1>11, <1>12, <1>13

-----------------------------------------------------------------------------
(* What the server sends, and what it does to the session of the client.   *)

Solo == Attached /\ OneChange /\ Agreement /\ Delivery

LEMMA AgreementKept ==
  ASSUME Agreement, UNCHANGED <<connection_id, session, joined, user, channel_name>>,
         LoggingOut' <=> LoggingOut,
         \A u \in Users : LoggingIn(u)' <=> LoggingIn(u),
         \A ch \in AllChannels : Joining(ch)' <=> Joining(ch)
  PROVE  Agreement'
<1>1. Users' = Users /\ AllChannels' = AllChannels
  BY DEF Users, AllChannels
<1> QED BY <1>1 DEF Agreement

LEMMA ChangeKept ==
  ASSUME OneChange, AppChangesSession' => AppChangesSession,
         \A m \in InTransit' : ChangesSession(m)' => \E n \in InTransit : ChangesSession(n) /\ n.call = m.call
  PROVE  OneChange'
BY DEF OneChange

(* A step that leaves the changes under way as they are. *)
LEMMA SessionUntouched ==
  ASSUME OneChange, Agreement, UNCHANGED <<connection_id, session, joined, user, channel_name>>,
         \A m : m \in Received' /\ ChangesSession(m)' <=> m \in Received /\ ChangesSession(m),
         \A r : r \in Queued' /\ ChangesSession(r)' <=> r \in Queued /\ ChangesSession(r),
         \/ app' = app
         \/ ~ AppChangesSession' /\ ~ AppIs("authenticate") /\ ~ AppIs("join") /\ ~ AppLoadsJoined
  PROVE  OneChange' /\ Agreement'
<1>1. OneChange'
  <2>1. \A m \in InTransit' : ChangesSession(m)' => m \in InTransit /\ ChangesSession(m)
    BY DEF InTransit
  <2>2. AppChangesSession' => AppChangesSession
    BY DEF AppChangesSession, AppIs, AppLoadsJoined
  <2> QED BY <2>1, <2>2, ChangeKept
<1>2. LoggingOut' <=> LoggingOut
  BY DEF LoggingOut, ChangesSession
<1>3. \A kind \in {"authenticate", "join"} : AppIs(kind)' <=> AppIs(kind) /\ app' = app
  BY DEF AppChangesSession, AppIs
<1>4. AppLoadsJoined' <=> AppLoadsJoined /\ app' = app
  BY DEF AppChangesSession, AppLoadsJoined
<1>5. ASSUME NEW u \in Users PROVE LoggingIn(u)' <=> LoggingIn(u)
  <2>1. AppIs("authenticate") => app' = app
    BY DEF AppIs
  <2>2. (\E m \in Received : m.kind = "authenticate" /\ m.data = u)' <=> \E m \in Received : m.kind = "authenticate" /\ m.data = u
    BY DEF ChangesSession
  <2>3. (AppIs("authenticate") /\ app.data = u)' <=> AppIs("authenticate") /\ app.data = u
    BY <1>3, <2>1
  <2> QED BY <2>2, <2>3 DEF LoggingIn
<1>6. ASSUME NEW ch \in AllChannels PROVE Joining(ch)' <=> Joining(ch)
  <2>1. AppIs("join") \/ AppLoadsJoined => app' = app
    OBVIOUS
  <2>2. \A m : m \in Received' /\ (m.kind = "join" \/ LoadsJoined(m)') <=> m \in Received /\ (m.kind = "join" \/ LoadsJoined(m))
    BY DEF ChangesSession, LoadsJoined
  <2>3. \A r : r \in Queued' /\ LoadsJoined(r)' <=> r \in Queued /\ LoadsJoined(r)
    BY DEF ChangesSession, LoadsJoined
  <2>4. ((AppIs("join") \/ AppLoadsJoined) /\ app.data = ch)' <=> (AppIs("join") \/ AppLoadsJoined) /\ app.data = ch
    BY <1>3, <1>4, <2>1
  <2> QED BY <2>2, <2>3, <2>4 DEF Joining
<1> QED BY <1>1, <1>2, <1>5, <1>6, AgreementKept

(* Outside a channel no chat is owed. *)
LEMMA NoChannel ==
  ASSUME TypeOK', joined'[connection_id'] = None,
         \A m \in Received' : m.kind = "chat" => m.user = chats'[m.data].user,
         (AppIs("chat") => app.user = chats[app.data].user)'
  PROVE  Delivery'
<1>1. \A i \in DOMAIN chats' : chats'[i].channel # None
  <2>1. chats' \in Seq([user : Users, channel : AllChannels])
    BY DEF TypeOK, ServerOK, Users, AllChannels
  <2>2. DOMAIN chats' = 1 .. Len(chats')
    BY <2>1
  <2>3. \A i \in 1 .. Len(chats') : chats'[i] \in [user : Users, channel : AllChannels]
    BY <2>1, ElementOf
  <2> QED BY <2>2, <2>3, Distinct
<1> QED BY <1>1 DEF Delivery

LEMMA BroadcastFacts ==
  ASSUME NEW to \in SUBSET Conns, NEW e
  PROVE  /\ Broadcast(to, e) \in Seq({e}) /\ Range(Broadcast(to, e)) \subseteq {e}
         /\ to # {} => Range(Broadcast(to, e)) = {e}
         /\ to = {} => Broadcast(to, e) = <<>>
         /\ e.call = 0 => InCallOrder(Broadcast(to, e))
<1>1. IsFiniteSet(to)
  <2>1. MaxConns \in Int /\ 1 \in Int
    BY ClientAssumption
  <2>2. IsFiniteSet(Conns)
    BY <2>1, FS_Interval DEF Conns
  <2> QED BY <2>2, FS_Subset
<1>2. Cardinality(to) \in Nat /\ (Cardinality(to) = 0 <=> to = {})
  BY <1>1, FS_CardinalityType, FS_EmptySet
<1> DEFINE n == Cardinality(to)
<1> HIDE DEF n
<1>3. Broadcast(to, e) = [i \in 1 .. n |-> e] /\ n \in Nat /\ (n = 0 <=> to = {})
  BY <1>2 DEF Broadcast, n
<1>4. Broadcast(to, e) \in Seq({e})
  BY <1>3
<1>5. Range(Broadcast(to, e)) \subseteq {e}
  BY <1>4, RangeType
<1>6. to # {} => Range(Broadcast(to, e)) = {e}
  BY <1>3 DEF Range
<1>7. to = {} => Broadcast(to, e) = <<>>
  BY <1>3
<1>8. e.call = 0 => InCallOrder(Broadcast(to, e))
  BY <1>3 DEF InCallOrder
<1> QED BY <1>4, <1>5, <1>6, <1>7, <1>8

(* A sequence of messages in the order of their calls, with the set of them. *)
Orderly(s, N) == (\E S : s \in Seq(S)) /\ InCallOrder(s) /\ Range(s) = N

LEMMA OrderlyConcat ==
  ASSUME NEW s, NEW t, NEW M, NEW N, Orderly(s, M), Orderly(t, N),
         \A m \in M, n \in N : n.call # 0 => m.call < n.call
  PROVE  Orderly(s \o t, M \cup N)
<1>1. PICK S : s \in Seq(S)
  BY DEF Orderly
<1>2. PICK T : t \in Seq(T)
  BY DEF Orderly
<1>3. s \o t \in Seq(S \cup T)
  BY <1>1, <1>2, SeqGrows, Concatenated
<1>4. Range(s \o t) = M \cup N
  BY <1>1, <1>2, RangeConcat DEF Orderly
<1>5. InCallOrder(s \o t)
  BY <1>1, <1>2, OrderConcat DEF Orderly
<1> QED BY <1>3, <1>4, <1>5 DEF Orderly

LEMMA OrderlyOne ==
  ASSUME NEW x
  PROVE  Orderly(<<x>>, {x})
<1>1. <<x>> \in Seq({x})
  OBVIOUS
<1> QED BY <1>1, RangeSingle, OrderSingle DEF Orderly

LEMMA OrderlyNone == Orderly(<<>>, {})
<1>1. <<>> \in Seq({})
  OBVIOUS
<1> QED BY <1>1, RangeEmpty, OrderEmpty DEF Orderly

LEMMA OrderlyEvents ==
  ASSUME NEW to \in SUBSET Conns, NEW e, e.call = 0
  PROVE  /\ Orderly(Broadcast(to, e), Range(Broadcast(to, e))) /\ Range(Broadcast(to, e)) \subseteq {e}
         /\ to # {} => Range(Broadcast(to, e)) = {e}
BY BroadcastFacts DEF Orderly

(* Events that neither change the session nor carry a chat. *)
Harmless(E) == \A e \in E : e.call = 0 /\ e.kind \in {"presence", "created", "member"}
Arrived(N) == InCallOrder(inbox') /\ Received' = Received \cup N
Arrivals(X) == \E E : Harmless(E) /\ Arrived(X \cup E)

LEMMA Arrives ==
  ASSUME Attached, NEW new, NEW N, Orderly(new, N), inbox' = inbox \o new,
         \A m \in Received, n \in N : n.call # 0 => m.call < n.call
  PROVE  Arrived(N)
<1>1. Orderly(inbox, Received)
  BY AttachedFacts DEF Orderly, Received, Attached, CallsInOrder
<1>2. Orderly(inbox', Received \cup N)
  BY <1>1, OrderlyConcat
<1> QED BY <1>2 DEF Arrived, Orderly, Received

(* A request is served: it comes before the other requests and after all   *)
(* that was answered.                                                      *)
LEMMA RequestServed ==
  ASSUME Attached, NEW c \in Conns, Serve(c), NEW r, r = Head(requests[c])
  PROVE  /\ c = connection_id /\ r \in Queued /\ r \in Requests
         /\ Queued = {r} \cup Queued'
         /\ \A q \in Queued' : q.call # 0 => r.call < q.call
         /\ InCallOrder(requests'[connection_id'])
         /\ r.call # 0 => \A m \in Received : m.call < r.call
         /\ \A d \in Conns : d # connection_id => requests'[d] = requests[d]
         /\ UNCHANGED <<open, connection_id, user, channel_name, users_cache, calls, app, shown, overlapped>>
<1>1. c = connection_id /\ requests[c] # <<>> /\ requests' = [requests EXCEPT ![c] = Tail(@)]
  BY AttachedFacts DEF Serve
<1>2. UNCHANGED <<open, connection_id, user, channel_name, users_cache, calls, app, shown, overlapped>>
  BY DEF Serve, uiVars, cacheVars, histVars
<1>3. requests'[connection_id'] = Tail(requests[connection_id])
  BY <1>1, <1>2, AttachedFacts
<1>4. Queued = {r} \cup Queued'
  BY <1>1, <1>3, AttachedFacts, RangeTail DEF Queued
<1>5. r \in Queued /\ r \in Requests
  BY <1>4, AttachedFacts
<1>6. InCallOrder(requests'[connection_id']) /\ \A q \in Queued' : q.call # 0 => r.call < q.call
  BY <1>1, <1>3, AttachedFacts, OrderTail DEF Queued, Attached, CallsInOrder
<1>7. r.call # 0 => \A m \in Received : m.call < r.call
  BY <1>5 DEF Attached, CallsInOrder
<1>8. \A d \in Conns : d # connection_id => requests'[d] = requests[d]
  BY <1>1, AttachedFacts
<1> QED BY <1>1, <1>2, <1>4, <1>5, <1>6, <1>7, <1>8

LEMMA ServedInOrder ==
  ASSUME Attached, NEW c \in Conns, Serve(c), NEW r, r = Head(requests[c]),
         NEW N, Arrived(N), \A m \in N : m.call \in {0, r.call}
  PROVE  CallsInOrder'
<1>1. /\ r \in Queued /\ r.call \in Nat
      /\ Queued = {r} \cup Queued'
      /\ \A q \in Queued' : q.call # 0 => r.call < q.call
      /\ InCallOrder(requests'[connection_id'])
      /\ UNCHANGED <<connection_id, calls>>
  BY RequestServed, AttachedFacts DEF InTransit
<1>2. \A q \in Queued' : q.call \in Nat
  BY <1>1, AttachedFacts DEF InTransit
<1>3. InCallOrder(inbox') /\ Received' = Received \cup N
  BY DEF Arrived
<1>4. \A m \in Received', q \in Queued' : q.call # 0 => m.call < q.call
  BY <1>1, <1>2, <1>3 DEF Attached, CallsInOrder
<1>5. \A m \in InTransit' : m.call # 0 => \E k \in calls' : k.id = m.call
  <2>1. \A m \in InTransit : m.call # 0 => \E k \in calls : k.id = m.call
    BY DEF Attached, CallsInOrder
  <2>2. \A m \in InTransit' : m.call = 0 \/ \E n \in InTransit : n.call = m.call
    BY <1>1, <1>3 DEF InTransit
  <2> QED BY <1>1, <2>1, <2>2
<1>6. \A k, l \in calls' : k.id = l.id => k = l
  BY <1>1 DEF Attached, CallsInOrder
<1> QED BY <1>1, <1>3, <1>4, <1>5, <1>6 DEF CallsInOrder

(* If the request served changes the session, nothing else does. *)
LEMMA OnlyChange ==
  ASSUME Attached, OneChange, NEW c \in Conns, Serve(c), NEW r, r = Head(requests[c]), ChangesSession(r)
  PROVE  /\ \A m \in Received : ~ ChangesSession(m)
         /\ \A q \in Queued' : ~ ChangesSession(q)
         /\ ~ AppChangesSession
<1>1. /\ r \in Queued /\ Queued = {r} \cup Queued' /\ r \in Requests
      /\ \A q \in Queued' : q.call # 0 => r.call < q.call
      /\ r.call # 0 => \A m \in Received : m.call < r.call
  BY RequestServed
<1>2. r.call # 0 /\ r.call \in Nat
  BY <1>1, RequestFacts DEF ChangesSession, LoadsJoined
<1>3. \A m \in Received : ~ ChangesSession(m)
  BY <1>1, <1>2 DEF OneChange, InTransit
<1>4. ~ AppChangesSession
  BY <1>1 DEF OneChange, InTransit
<1>5. ASSUME NEW q \in Queued', ChangesSession(q) PROVE FALSE
  <2>1. q.call = r.call
    BY <1>1, <1>5 DEF OneChange, InTransit
  <2> QED BY <1>1, <1>2, <1>5, <2>1
<1> QED BY <1>3, <1>4, <1>5

(* A request is served without a change of the session. *)
LEMMA ServedKept ==
  ASSUME Attached, OneChange, Agreement, NEW c \in Conns, Serve(c), NEW r, r = Head(requests[c]),
         UNCHANGED <<session, joined>>, r.kind # "logout", ~ LoadsJoined(r),
         NEW X, Arrivals(X), \A x \in X : ~ ChangesSession(x)
  PROVE  OneChange' /\ Agreement'
<1>1. /\ Queued = {r} \cup Queued' /\ UNCHANGED <<connection_id, user, channel_name, calls, app>>
  BY RequestServed
<1>2. PICK E : Harmless(E) /\ Arrived(X \cup E)
  BY DEF Arrivals
<1>3. \A m : ChangesSession(m)' <=> ChangesSession(m)
  BY <1>1 DEF ChangesSession, LoadsJoined
<1>4. \A m : LoadsJoined(m)' <=> LoadsJoined(m)
  BY <1>1 DEF LoadsJoined
<1>5. \A m \in X \cup E : ~ ChangesSession(m)
  BY <1>2 DEF Harmless, ChangesSession, LoadsJoined
<1>6. Received' = Received \cup (X \cup E)
  BY <1>2 DEF Arrived
<1>7. OneChange'
  <2>1. \A m \in InTransit' : ChangesSession(m)' => m \in InTransit /\ ChangesSession(m)
    BY <1>1, <1>3, <1>5, <1>6 DEF InTransit
  <2>2. AppChangesSession' => AppChangesSession
    BY <1>1 DEF AppChangesSession, AppIs, AppLoadsJoined
  <2> QED BY <2>1, <2>2, ChangeKept
<1>8. LoggingOut' <=> LoggingOut
  BY <1>1 DEF LoggingOut
<1>9. ASSUME NEW u \in Users PROVE LoggingIn(u)' <=> LoggingIn(u)
  <2>1. \A m : m \in Received' /\ m.kind = "authenticate" <=> m \in Received /\ m.kind = "authenticate"
    BY <1>5, <1>6 DEF ChangesSession
  <2> QED BY <1>1, <2>1 DEF LoggingIn, AppIs
<1>10. ASSUME NEW ch \in AllChannels PROVE Joining(ch)' <=> Joining(ch)
  <2>1. \A m : m \in Received' /\ (m.kind = "join" \/ LoadsJoined(m)) <=> m \in Received /\ (m.kind = "join" \/ LoadsJoined(m))
    BY <1>5, <1>6 DEF ChangesSession
  <2>2. \A q : q \in Queued' /\ LoadsJoined(q) <=> q \in Queued /\ LoadsJoined(q)
    BY <1>1
  <2>3. (AppIs("join") \/ AppLoadsJoined)' <=> AppIs("join") \/ AppLoadsJoined
    BY <1>1 DEF AppIs, AppLoadsJoined
  <2> QED BY <1>1, <1>4, <2>1, <2>2, <2>3 DEF Joining
<1> QED BY <1>1, <1>7, <1>8, <1>9, <1>10, AgreementKept

(* What a log has left out stays recorded. *)
LEMMA OlderGrows ==
  ASSUME NEW c \in Conns, Serve(c)
  PROVE  older \subseteq older'
BY DEF Serve, ServeAuthenticate, ServeCreateUser, ServeUnauthorized, ServeLogout, ServeJoin, ServeWrite,
   ServeCreateChannel, ServeQuery

(* What is on its way stays so, whatever arrives in place of the request. *)
LEMMA ServedDelivery ==
  ASSUME Attached, Delivery, NEW c \in Conns, Serve(c), NEW r, r = Head(requests[c]),
         UNCHANGED <<joined, chats>>, ~ LoggingOut' => ~ LoggingOut,
         NEW X, Arrivals(X), \A x \in X : x.kind # "chat",
         \A i \in DOMAIN chats : AsksFor(r, i) /\ chats[i].channel = joined[connection_id]
                                   => i \in older' \/ \E x \in X : Brings(x, i),
         \A ch : Joining(ch) => Joining(ch)'
  PROVE  Delivery'
<1>1. /\ Queued = {r} \cup Queued'
      /\ UNCHANGED <<connection_id, users_cache, calls, app, shown>>
  BY RequestServed
<1>2. PICK E : Harmless(E) /\ Arrived(X \cup E)
  BY DEF Arrivals
<1>3. Received' = Received \cup (X \cup E) /\ \A m \in X \cup E : m.kind # "chat"
  BY <1>2 DEF Arrived, Harmless
<1>4. /\ \A m, i : Brings(m, i)' <=> Brings(m, i)
      /\ \A m, i : AsksFor(m, i)' <=> AsksFor(m, i)
      /\ \A i : AppBrings(i)' <=> AppBrings(i)
  BY <1>1 DEF Brings, AsksFor, AppBrings, WaitsFor, AppIs
<1>5. \A i \in DOMAIN chats : chats[i].channel = joined[connection_id] /\ OnItsWay(i)
        => i \in older' \/ OnItsWay(i)'
  BY <1>1, <1>3, <1>4 DEF OnItsWay
<1>6. ASSUME ~ LoggingOut', NEW i \in DOMAIN chats, chats[i].channel = joined[connection_id]
      PROVE  i \in shown \cup older' \/ Joining(chats[i].channel)' \/ OnItsWay(i)'
  <2>1. i \in shown \cup older \/ Joining(chats[i].channel) \/ OnItsWay(i)
    BY <1>6 DEF Delivery
  <2>2. older \subseteq older'
    BY OlderGrows
  <2> QED BY <1>5, <1>6, <2>1, <2>2
<1>7. \A m \in Received' : m.kind = "chat" => m.user = chats[m.data].user
  BY <1>3 DEF Delivery
<1>8. (AppIs("chat") => app.user = chats[app.data].user)'
  BY <1>1 DEF Delivery, AppIs
<1> QED BY <1>1, <1>6, <1>7, <1>8 DEF Delivery

-----------------------------------------------------------------------------
(* The requests, one by one.                                               *)

SoloAfter == CallsInOrder' /\ OneChange' /\ Agreement' /\ Delivery'

LEMMA ReceivedOrderly ==
  ASSUME Attached
  PROVE  Orderly(inbox, Received)
BY AttachedFacts DEF Orderly, Received, Attached, CallsInOrder

LEMMA OneArrives ==
  ASSUME Attached, NEW c \in Conns, Serve(c), NEW r, r = Head(requests[c]), r.call # 0,
         NEW x, x.call = r.call, inbox' = inbox \o <<x>>
  PROVE  Arrived({x}) /\ Arrivals({x})
<1>1. \A m \in Received : m.call < x.call
  BY RequestServed
<1>2. Arrived({x})
  BY <1>1, OrderlyOne, Arrives
<1>3. Harmless({}) /\ {x} \cup {} = {x}
  BY DEF Harmless
<1> QED BY <1>2, <1>3 DEF Arrivals

LEMMA ArrivalsInOrder ==
  ASSUME Attached, NEW c \in Conns, Serve(c), NEW r, r = Head(requests[c]),
         NEW X, Arrivals(X), \A x \in X : x.call \in {0, r.call}
  PROVE  CallsInOrder'
<1>1. PICK E : Harmless(E) /\ Arrived(X \cup E)
  BY DEF Arrivals
<1>2. \A m \in X \cup E : m.call \in {0, r.call}
  BY <1>1 DEF Harmless
<1> QED BY <1>1, <1>2, ServedInOrder

(* Joining a channel goes on if neither its messages nor its handler are   *)
(* touched.                                                                *)
LEMMA JoiningKept ==
  ASSUME Received \subseteq Received', UNCHANGED <<calls, app>>,
         \A r \in Queued : LoadsJoined(r) => r \in Queued', NEW ch
  PROVE  Joining(ch) => Joining(ch)'
<1>1. \A m : LoadsJoined(m)' <=> LoadsJoined(m)
  BY DEF LoadsJoined
<1>2. (AppIs("join") \/ AppLoadsJoined) => (AppIs("join") \/ AppLoadsJoined)'
  BY DEF AppIs, AppLoadsJoined
<1> QED BY <1>1, <1>2 DEF Joining

(* A request that is refused, or answered with what the session does not   *)
(* depend on.                                                              *)
LEMMA ServedPlainly ==
  ASSUME Solo, NEW c \in Conns, Serve(c), NEW r, r = Head(requests[c]),
         UNCHANGED <<session, joined, chats>>, r.kind # "logout", ~ LoadsJoined(r),
         NEW X, Arrivals(X),
         \A x \in X : x.call \in {0, r.call} /\ ~ ChangesSession(x) /\ x.kind # "chat",
         \A i \in DOMAIN chats : AsksFor(r, i) /\ chats[i].channel = joined[connection_id]
                                   => i \in older' \/ \E x \in X : Brings(x, i)
  PROVE  SoloAfter
<1>1. /\ Queued = {r} \cup Queued' /\ UNCHANGED <<calls, app>>
  BY RequestServed DEF Solo
<1>2. CallsInOrder'
  BY ArrivalsInOrder DEF Solo
<1>3. OneChange' /\ Agreement'
  BY ServedKept DEF Solo
<1>4. Received \subseteq Received'
  BY DEF Arrivals, Arrived
<1>5. \A ch : Joining(ch) => Joining(ch)'
  BY <1>1, <1>4, JoiningKept
<1>6. ~ LoggingOut' => ~ LoggingOut
  BY <1>1 DEF LoggingOut
<1>7. Delivery'
  BY <1>5, <1>6, ServedDelivery DEF Solo
<1> QED BY <1>2, <1>3, <1>7 DEF SoloAfter

LEMMA ChatTypes ==
  ASSUME TypeOK, NEW i \in DOMAIN chats
  PROVE  i \in ChatIds /\ chats[i].user \in Users /\ chats[i].channel \in AllChannels /\ chats[i].channel # None
<1>1. chats \in Seq([user : Users, channel : AllChannels])
  BY DEF TypeOK, ServerOK
<1>2. DOMAIN chats = 1 .. Len(chats)
  BY <1>1
<1>3. chats[i] \in [user : Users, channel : AllChannels]
  BY <1>1, <1>2, ElementOf
<1> QED BY <1>2, <1>3, Distinct DEF ChatIds

LEMMA Refused ==
  ASSUME Solo, NEW c \in Conns, Serve(c), NEW r, r = Head(requests[c]), r.call # 0,
         UNCHANGED <<session, joined, chats>>, inbox' = inbox \o Error(r), r.kind # "logout", ~ LoadsJoined(r),
         r.kind \in {"chats", "users"} => joined[connection_id] = None
  PROVE  SoloAfter
<1> DEFINE x == [call |-> r.call, kind |-> "error", data |-> None]
<1>1. x.call = r.call /\ x.kind = "error" /\ inbox' = inbox \o <<x>>
  BY DEF Error
<1> HIDE DEF x
<1>2. Arrivals({x})
  BY <1>1, OneArrives DEF Solo
<1>3. ~ ChangesSession(x)
  BY <1>1 DEF ChangesSession, LoadsJoined
<1>4. \A i \in DOMAIN chats : ~ (AsksFor(r, i) /\ chats[i].channel = joined[connection_id])
  BY ChatTypes DEF AsksFor, Solo, Attached
<1> QED BY <1>1, <1>2, <1>3, <1>4, ServedPlainly

LEMMA SoloAuthenticate ==
  ASSUME Solo, TypeOK', NEW c \in Conns, Serve(c), NEW r, r = Head(requests[c]),
         NEW match \in BOOLEAN, ServeAuthenticate(c, r, match)
  PROVE  SoloAfter
<1> DEFINE x == [call |-> r.call, kind |-> r.kind, data |-> r.arg]
           e == Event("presence", r.arg, None)
<1>1. /\ c = connection_id /\ r \in Requests /\ Queued = {r} \cup Queued'
      /\ UNCHANGED <<connection_id, user, channel_name, calls, app>>
      /\ r.call # 0 => \A m \in Received : m.call < r.call
  BY RequestServed DEF Solo
<1>2. r.kind = "authenticate" /\ r.arg \in Users /\ r.call \in Nat \ {0} /\ UNCHANGED <<joined, chats>>
  BY <1>1, RequestFacts DEF ServeAuthenticate
<1>3. ~ LoadsJoined(r) /\ ChangesSession(r)
  BY <1>2 DEF LoadsJoined, ChangesSession
<1>4. \/ session' = session /\ inbox' = inbox \o Error(r)
      \/ /\ session[c] = None /\ session' = [session EXCEPT ![c] = r.arg]
         /\ inbox' = inbox \o (<<x>> \o Broadcast(open, e))
  BY DEF ServeAuthenticate, Answer
<1>5. CASE session' = session /\ inbox' = inbox \o Error(r)
  BY <1>2, <1>3, <1>5, Refused
<1>6. CASE /\ session[c] = None /\ session' = [session EXCEPT ![c] = r.arg]
           /\ inbox' = inbox \o (<<x>> \o Broadcast(open, e))
  <2>1. /\ x.call = r.call /\ x.kind = "authenticate" /\ x.data = r.arg
        /\ e.call = 0 /\ e.kind = "presence" /\ open \subseteq Conns
    BY <1>2, AttachedFacts DEF Event, Solo
  <2> HIDE DEF x, e
  <2>2. PICK E : Orderly(Broadcast(open, e), E) /\ E \subseteq {e}
    BY <2>1, OrderlyEvents
  <2>3. Orderly(<<x>> \o Broadcast(open, e), {x} \cup E)
    BY <2>1, <2>2, OrderlyOne, OrderlyConcat
  <2>4. Arrived({x} \cup E)
    BY <1>1, <1>2, <1>6, <2>1, <2>2, <2>3, Arrives DEF Solo
  <2>5. Harmless(E) /\ Arrivals({x})
    BY <2>1, <2>2, <2>4 DEF Harmless, Arrivals
  <2>6. CallsInOrder'
    BY <2>1, <2>5, ArrivalsInOrder DEF Solo
  <2>7. Received' = Received \cup ({x} \cup E)
    BY <2>4 DEF Arrived
  <2>8. /\ \A m \in Received : ~ ChangesSession(m)
        /\ \A q \in Queued' : ~ ChangesSession(q)
        /\ ~ AppChangesSession
    BY <1>3, OnlyChange DEF Solo
  <2>9. \A m : ChangesSession(m)' <=> ChangesSession(m)
    BY <1>1 DEF ChangesSession, LoadsJoined
  <2>10. \A m \in InTransit' : ChangesSession(m)' => m = x
    BY <2>1, <2>2, <2>7, <2>8, <2>9 DEF InTransit, ChangesSession, LoadsJoined
  <2>11. ~ AppChangesSession'
    BY <1>1, <2>8 DEF AppChangesSession, AppIs, AppLoadsJoined
  <2>12. OneChange'
    BY <2>10, <2>11 DEF OneChange
  <2>13. /\ session'[connection_id'] = r.arg /\ r.arg # None
         /\ joined[connection_id] = None
    BY <1>1, <1>2, <1>6, Distinct DEF Solo, Attached, TypeOK, ServerOK, Agreement
  <2>14. \A u : LoggingIn(u)' => u = r.arg
    BY <2>1, <2>10, <2>11 DEF LoggingIn, InTransit, ChangesSession, AppChangesSession
  <2>15. LoggingIn(r.arg)'
    BY <2>1, <2>7 DEF LoggingIn
  <2>16. \A ch : ~ Joining(ch)' /\ ~ Joining(ch)
    <3>1. \A ch : ~ Joining(ch)'
      BY <2>1, <2>10, <2>11 DEF Joining, InTransit, ChangesSession, AppChangesSession, LoadsJoined
    <3>2. \A ch : ~ Joining(ch)
      BY <1>1, <1>3, <2>8 DEF Joining, ChangesSession, AppChangesSession
    <3> QED BY <3>1, <3>2
  <2>17. ~ LoggingOut' /\ ~ LoggingOut
    BY <1>1, <1>2, <2>8 DEF LoggingOut, ChangesSession
  <2>18. Agreement'
    <3>1. channel_name' = joined'[connection_id']
      BY <1>1, <1>2, <2>16, <2>17 DEF Agreement, Solo
    <3>2. Users' = Users /\ r.arg \in Users
      BY <1>2 DEF Users
    <3> QED BY <1>2, <2>13, <2>14, <2>15, <2>16, <2>17, <3>1, <3>2, <1>1 DEF Agreement
  <2>19. Delivery'
    <3>1. \A m \in Received' : m.kind = "chat" => m.user = chats'[m.data].user
      BY <1>2, <2>1, <2>2, <2>7 DEF Delivery, Solo
    <3>2. (AppIs("chat") => app.user = chats[app.data].user)'
      BY <1>1, <1>2 DEF Delivery, AppIs, Solo
    <3>3. joined'[connection_id'] = None
      BY <1>1, <1>2, <2>13
    <3> QED BY <3>1, <3>2, <3>3, NoChannel
  <2> QED BY <2>6, <2>12, <2>18, <2>19 DEF SoloAfter
<1> QED BY <1>4, <1>5, <1>6

LEMMA SoloCreateUser ==
  ASSUME Solo, NEW c \in Conns, Serve(c), NEW r, r = Head(requests[c]), ServeCreateUser(r)
  PROVE  SoloAfter
<1> DEFINE x == [call |-> r.call, kind |-> r.kind, data |-> r.arg]
<1>1. r.kind = "createUser" /\ r.call # 0 /\ UNCHANGED <<session, joined, chats>>
  BY RequestServed, RequestFacts DEF ServeCreateUser, Solo
<1>2. ~ LoadsJoined(r) /\ \A i : ~ AsksFor(r, i)
  BY <1>1 DEF LoadsJoined, AsksFor
<1>3. CASE inbox' = inbox \o Error(r)
  BY <1>1, <1>2, <1>3, Refused
<1>4. CASE inbox' = inbox \o Answer(r, r.arg)
  <2>1. x.call = r.call /\ x.kind = "createUser" /\ inbox' = inbox \o <<x>>
    BY <1>1, <1>4 DEF Answer
  <2> HIDE DEF x
  <2>2. Arrivals({x})
    BY <1>1, <2>1, OneArrives DEF Solo
  <2>3. ~ ChangesSession(x)
    BY <2>1 DEF ChangesSession, LoadsJoined
  <2> QED BY <1>1, <1>2, <2>1, <2>2, <2>3, ServedPlainly
<1> QED BY <1>3, <1>4 DEF ServeCreateUser

LEMMA NothingArrives ==
  ASSUME Attached, UNCHANGED inbox
  PROVE  Arrivals({})
<1>1. Harmless({}) /\ Arrived({} \cup {})
  BY DEF Harmless, Arrived, Received, Attached, CallsInOrder
<1> QED BY <1>1 DEF Arrivals

LEMMA SoloUnauthorized ==
  ASSUME Solo, TypeOK', NEW c \in Conns, Serve(c), NEW r, r = Head(requests[c]), ServeUnauthorized(c, r)
  PROVE  SoloAfter
<1>1. /\ c = connection_id /\ r \in Requests /\ r \in Queued /\ Queued = {r} \cup Queued'
      /\ UNCHANGED <<connection_id, user, channel_name, calls, app>>
  BY RequestServed DEF Solo
<1>2. session[connection_id] = None /\ joined[connection_id] = None /\ UNCHANGED <<session, joined, chats>>
  BY <1>1 DEF ServeUnauthorized, Solo, Agreement
<1>3. ~ LoadsJoined(r)
  <2>1. ASSUME LoadsJoined(r) PROVE FALSE
    <3>1. r.arg \in AllChannels
      BY <1>1, <2>1, RequestFacts DEF LoadsJoined
    <3>2. Joining(r.arg)
      BY <1>1, <2>1 DEF Joining
    <3> QED BY <1>2, <3>1, <3>2 DEF Solo, Agreement
  <2> QED BY <2>1
<1>4. CASE r.call = 0
  <2>1. inbox' = inbox /\ r.kind = "write"
    BY <1>1, <1>4, RequestFacts DEF ServeUnauthorized
  <2>2. Arrivals({})
    BY <2>1, NothingArrives DEF Solo
  <2>3. \A i : ~ AsksFor(r, i)
    BY <2>1 DEF AsksFor
  <2> QED BY <1>2, <1>3, <2>1, <2>2, <2>3, ServedPlainly
<1>5. CASE r.call # 0 /\ r.kind # "logout"
  <2>1. inbox' = inbox \o Error(r)
    BY <1>5 DEF ServeUnauthorized
  <2> QED BY <1>2, <1>3, <1>5, <2>1, Refused
<1>6. CASE r.call # 0 /\ r.kind = "logout"
  <2> DEFINE x == [call |-> r.call, kind |-> "error", data |-> None]
  <2>1. x.call = r.call /\ x.kind = "error" /\ inbox' = inbox \o <<x>>
    BY <1>6 DEF ServeUnauthorized, Error
  <2> HIDE DEF x
  <2>2. Arrived({x}) /\ Arrivals({x})
    BY <1>6, <2>1, OneArrives DEF Solo
  <2>3. CallsInOrder'
    BY <2>1, <2>2, ArrivalsInOrder DEF Solo
  <2>4. Received' = Received \cup {x}
    BY <2>2 DEF Arrived
  <2>5. /\ \A m \in Received : ~ ChangesSession(m)
        /\ \A q \in Queued' : ~ ChangesSession(q)
        /\ ~ AppChangesSession
    BY <1>6, OnlyChange DEF Solo, ChangesSession
  <2>6. ~ AppChangesSession' /\ \A m \in InTransit' : ~ ChangesSession(m)'
    <3>1. \A m : ChangesSession(m)' <=> ChangesSession(m)
      BY <1>1 DEF ChangesSession, LoadsJoined
    <3>2. ~ ChangesSession(x)
      BY <2>1 DEF ChangesSession, LoadsJoined
    <3>3. ~ AppChangesSession'
      BY <1>1, <2>5 DEF AppChangesSession, AppIs, AppLoadsJoined
    <3> QED BY <2>4, <2>5, <3>1, <3>2, <3>3 DEF InTransit
  <2>7. OneChange'
    BY <2>6 DEF OneChange
  <2>8. user = None /\ channel_name = None
    BY <1>1, <1>6 DEF Solo, Agreement, LoggingOut
  <2>9. /\ \A u : ~ LoggingIn(u)'
        /\ \A ch : ~ Joining(ch)'
        /\ ~ LoggingOut'
    BY <2>6 DEF LoggingIn, Joining, LoggingOut, InTransit, ChangesSession, AppChangesSession
  <2>10. Agreement'
    BY <1>1, <1>2, <2>8, <2>9 DEF Agreement
  <2>11. Delivery'
    <3>1. \A m \in Received' : m.kind = "chat" => m.user = chats'[m.data].user
      BY <1>2, <2>1, <2>4 DEF Delivery, Solo
    <3>2. (AppIs("chat") => app.user = chats[app.data].user)'
      BY <1>1, <1>2 DEF Delivery, AppIs, Solo
    <3>3. joined'[connection_id'] = None
      BY <1>1, <1>2
    <3> QED BY <3>1, <3>2, <3>3, NoChannel
  <2> QED BY <2>3, <2>7, <2>10, <2>11 DEF SoloAfter
<1> QED BY <1>4, <1>5, <1>6

LEMMA SoloLogout ==
  ASSUME Solo, TypeOK', NEW c \in Conns, Serve(c), NEW r, r = Head(requests[c]), ServeLogout(c, r)
  PROVE  SoloAfter
<1> DEFINE x == [call |-> r.call, kind |-> r.kind, data |-> None]
           e == Event("presence", session[c], None)
<1>1. /\ c = connection_id /\ r \in Requests /\ r \in Queued /\ Queued = {r} \cup Queued'
      /\ UNCHANGED <<connection_id, user, channel_name, calls, app>>
      /\ r.call # 0 => \A m \in Received : m.call < r.call
  BY RequestServed DEF Solo
<1>2. /\ r.kind = "logout" /\ r.call \in Nat \ {0} /\ UNCHANGED chats
      /\ session' = [session EXCEPT ![c] = None] /\ joined' = [joined EXCEPT ![c] = None]
      /\ inbox' = (inbox \o Broadcast(open, e)) \o <<x>>
  BY <1>1, RequestFacts DEF ServeLogout, Answer
<1>3. session'[connection_id'] = None /\ joined'[connection_id'] = None
  BY <1>1, <1>2 DEF Solo, Attached, TypeOK, ServerOK
<1>4. /\ x.call = r.call /\ x.kind = "logout"
      /\ e.call = 0 /\ e.kind = "presence" /\ open \subseteq Conns
  BY <1>2, AttachedFacts DEF Event, Solo
<1> HIDE DEF x, e
<1>5. PICK E : Orderly(Broadcast(open, e), E) /\ E \subseteq {e}
  BY <1>4, OrderlyEvents
<1>6. Orderly(inbox \o Broadcast(open, e), Received \cup E)
  BY <1>4, <1>5, ReceivedOrderly, OrderlyConcat DEF Solo
<1>7. Orderly((inbox \o Broadcast(open, e)) \o <<x>>, (Received \cup E) \cup {x})
  <2>1. \A m \in Received \cup E, n \in {x} : n.call # 0 => m.call < n.call
    BY <1>1, <1>2, <1>4, <1>5
  <2> QED BY <1>6, <2>1, OrderlyOne, OrderlyConcat
<1>8. Harmless(E) /\ Arrived({x} \cup E) /\ Arrivals({x})
  BY <1>2, <1>4, <1>5, <1>7 DEF Harmless, Arrived, Arrivals, Orderly, Received
<1>9. CallsInOrder'
  BY <1>4, <1>8, ArrivalsInOrder DEF Solo
<1>10. Received' = Received \cup ({x} \cup E)
  BY <1>8 DEF Arrived
<1>11. /\ \A m \in Received : ~ ChangesSession(m)
       /\ \A q \in Queued' : ~ ChangesSession(q)
       /\ ~ AppChangesSession
  BY <1>2, OnlyChange DEF Solo, ChangesSession
<1>12. \A m \in InTransit' : ChangesSession(m)' => m = x
  <2>1. \A m : ChangesSession(m)' <=> ChangesSession(m)
    BY <1>1 DEF ChangesSession, LoadsJoined
  <2> QED BY <1>4, <1>5, <1>10, <1>11, <2>1 DEF InTransit, ChangesSession, LoadsJoined
<1>13. ~ AppChangesSession'
  BY <1>1, <1>11 DEF AppChangesSession, AppIs, AppLoadsJoined
<1>14. OneChange'
  BY <1>12, <1>13 DEF OneChange
<1>15. user = None /\ channel_name = None
  BY <1>1, <1>2 DEF Solo, Agreement, LoggingOut
<1>16. /\ \A u : ~ LoggingIn(u)'
       /\ \A ch : ~ Joining(ch)'
  BY <1>4, <1>12, <1>13 DEF LoggingIn, Joining, InTransit, ChangesSession, AppChangesSession, LoadsJoined
<1>17. Agreement'
  BY <1>1, <1>3, <1>15, <1>16 DEF Agreement
<1>18. Delivery'
  <2>1. \A m \in Received' : m.kind = "chat" => m.user = chats'[m.data].user
    BY <1>2, <1>4, <1>5, <1>10 DEF Delivery, Solo
  <2>2. (AppIs("chat") => app.user = chats[app.data].user)'
    BY <1>1, <1>2 DEF Delivery, AppIs, Solo
  <2> QED BY <1>3, <2>1, <2>2, NoChannel
<1> QED BY <1>9, <1>14, <1>17, <1>18 DEF SoloAfter

LEMMA SoloJoin ==
  ASSUME Solo, TypeOK', NEW c \in Conns, Serve(c), NEW r, r = Head(requests[c]), ServeJoin(c, r)
  PROVE  SoloAfter
<1> DEFINE x == [call |-> r.call, kind |-> r.kind, data |-> r.arg]
           e == Event("member", session[c], joined[c])
           f == Event("member", session[c], r.arg)
           left == IF joined[c] = None THEN <<>> ELSE Broadcast(In(joined[c]), e)
           came == Broadcast(In(r.arg) \cup {c}, f)
<1>1. /\ c = connection_id /\ r \in Requests /\ r \in Queued /\ Queued = {r} \cup Queued'
      /\ UNCHANGED <<connection_id, user, channel_name, calls, app, users_cache, shown>>
      /\ r.call # 0 => \A m \in Received : m.call < r.call
  BY RequestServed DEF Solo
<1>2. /\ r.kind = "join" /\ r.call \in Nat \ {0} /\ r.arg \in AllChannels /\ UNCHANGED <<session, chats>>
      /\ session[connection_id] # None
  BY <1>1, RequestFacts DEF ServeJoin
<1>3. ChangesSession(r) /\ ~ LoadsJoined(r)
  BY <1>2 DEF ChangesSession, LoadsJoined
<1>4. \/ UNCHANGED joined /\ inbox' = inbox \o Error(r)
      \/ joined' = [joined EXCEPT ![c] = r.arg] /\ inbox' = inbox \o ((left \o came) \o <<x>>)
  BY DEF ServeJoin, Answer
<1>5. CASE UNCHANGED joined /\ inbox' = inbox \o Error(r)
  BY <1>2, <1>3, <1>5, Refused
<1>6. CASE joined' = [joined EXCEPT ![c] = r.arg] /\ inbox' = inbox \o ((left \o came) \o <<x>>)
  <2>1. /\ x.call = r.call /\ x.kind = "join" /\ x.data = r.arg
        /\ e.call = 0 /\ e.kind = "member" /\ f.call = 0 /\ f.kind = "member"
        /\ In(joined[c]) \subseteq Conns /\ In(r.arg) \cup {c} \subseteq Conns
    BY <1>2, AttachedFacts DEF Event, Solo, In
  <2> HIDE DEF x, e, f
  <2>2. PICK E : Orderly(left, E) /\ E \subseteq {e}
    <3>1. CASE joined[c] = None
      BY <3>1, OrderlyNone
    <3>2. CASE joined[c] # None
      BY <2>1, <3>2, OrderlyEvents
    <3> QED BY <3>1, <3>2
  <2>3. PICK F : Orderly(came, F) /\ F \subseteq {f}
    BY <2>1, OrderlyEvents
  <2> HIDE DEF left, came
  <2>4. Orderly(left \o came, E \cup F)
    BY <2>1, <2>2, <2>3, OrderlyConcat
  <2>5. Orderly((left \o came) \o <<x>>, (E \cup F) \cup {x})
    <3>1. \A m \in E \cup F, n \in {x} : n.call # 0 => m.call < n.call
      BY <1>2, <2>1, <2>2, <2>3
    <3> QED BY <2>4, <3>1, OrderlyOne, OrderlyConcat
  <2>6. \A m \in (E \cup F) \cup {x} : m.call = 0 \/ m.call = r.call
    BY <2>1, <2>2, <2>3
  <2>7. Arrived((E \cup F) \cup {x})
    BY <1>1, <1>6, <2>5, <2>6, Arrives DEF Solo
  <2>8. Harmless(E \cup F) /\ Arrivals({x})
    <3>1. Harmless(E \cup F)
      BY <2>1, <2>2, <2>3 DEF Harmless
    <3>2. {x} \cup (E \cup F) = (E \cup F) \cup {x}
      OBVIOUS
    <3> QED BY <2>7, <3>1, <3>2 DEF Arrivals
  <2>9. CallsInOrder'
    BY <2>1, <2>8, ArrivalsInOrder DEF Solo
  <2>10. Received' = Received \cup ((E \cup F) \cup {x})
    BY <2>7 DEF Arrived
  <2>11. /\ \A m \in Received : ~ ChangesSession(m)
         /\ \A q \in Queued' : ~ ChangesSession(q)
         /\ ~ AppChangesSession
    BY <1>3, OnlyChange DEF Solo
  <2>12. \A m \in InTransit' : ChangesSession(m)' => m = x
    <3>1. \A m : ChangesSession(m)' <=> ChangesSession(m)
      BY <1>1 DEF ChangesSession, LoadsJoined
    <3>2. \A m \in E \cup F : ~ ChangesSession(m)
      BY <2>8 DEF Harmless, ChangesSession, LoadsJoined
    <3> QED BY <2>10, <2>11, <3>1, <3>2 DEF InTransit
  <2>13. ~ AppChangesSession'
    BY <1>1, <2>11 DEF AppChangesSession, AppIs, AppLoadsJoined
  <2>14. OneChange'
    BY <2>12, <2>13 DEF OneChange
  <2>15. joined'[connection_id'] = r.arg /\ session'[connection_id'] # None
    BY <1>1, <1>2, <1>6 DEF Solo, Attached, TypeOK, ServerOK
  <2>16. Joining(r.arg)'
    BY <2>1, <2>10 DEF Joining
  <2>17. \A ch : Joining(ch)' => ch = r.arg
    <3>1. \A m \in Received' : ((m.kind = "join") \/ LoadsJoined(m)') => m = x
      BY <2>12 DEF InTransit, ChangesSession
    <3>2. \A q \in Queued' : LoadsJoined(q)' => q = x
      BY <2>12 DEF InTransit, ChangesSession
    <3>3. \A m : LoadsJoined(m)' => m.kind = "channel"
      BY DEF LoadsJoined
    <3>4. ~ (AppIs("join") \/ AppLoadsJoined)'
      BY <2>13 DEF AppChangesSession
    <3> QED BY <2>1, <3>1, <3>2, <3>3, <3>4 DEF Joining
  <2>18. \A u : ~ LoggingIn(u)' /\ ~ LoggingIn(u)
    <3>1. \A u : ~ LoggingIn(u)'
      BY <2>1, <2>12, <2>13 DEF LoggingIn, InTransit, ChangesSession, AppChangesSession
    <3>2. \A u : ~ LoggingIn(u)
      BY <2>11 DEF LoggingIn, ChangesSession, AppChangesSession
    <3> QED BY <3>1, <3>2
  <2>19. ~ LoggingOut' /\ ~ LoggingOut
    <3>1. \A q \in Queued' : q.kind # "logout"
      BY <2>11 DEF ChangesSession
    <3> QED BY <1>1, <1>2, <3>1 DEF LoggingOut
  <2>20. Agreement'
    <3>1. user = session[connection_id]
      BY <2>18, <2>19 DEF Solo, Agreement
    <3>2. AllChannels' = AllChannels
      BY DEF AllChannels
    <3> QED BY <1>1, <1>2, <2>15, <2>16, <2>17, <2>18, <2>19, <3>1, <3>2 DEF Agreement
  <2>21. Delivery'
    <3>1. \A m \in Received' : m.kind = "chat" => m.user = chats'[m.data].user
      <4>1. \A m \in (E \cup F) \cup {x} : m.kind # "chat"
        BY <2>1, <2>8 DEF Harmless
      <4> QED BY <1>2, <2>10, <4>1 DEF Delivery, Solo
    <3>2. (AppIs("chat") => app.user = chats[app.data].user)'
      BY <1>1, <1>2 DEF Delivery, AppIs, Solo
    <3>3. \A i \in DOMAIN chats' : chats'[i].channel = joined'[connection_id'] => Joining(chats[i].channel)'
      BY <2>15, <2>16
    <3> QED BY <3>1, <3>2, <3>3 DEF Delivery
  <2> QED BY <2>9, <2>14, <2>20, <2>21 DEF SoloAfter
<1> QED BY <1>4, <1>5, <1>6

(* A new chat is owed only if its channel is joined, and then its event    *)
(* has arrived.                                                            *)
LEMMA ChatArrives ==
  ASSUME TypeOK, TypeOK', Delivery, UNCHANGED <<connection_id, joined, users_cache, calls, app, older, shown>>,
         ~ LoggingOut' => ~ LoggingOut, \A ch : Joining(ch) => Joining(ch)',
         Received \subseteq Messages,
         \A q \in Queued : q.kind \in {"chats", "users"} => q \in Queued',
         NEW u, NEW channel, chats' = Append(chats, [user |-> u, channel |-> channel]),
         NEW e, e = Event("chat", u, Len(chats) + 1),
         Received \subseteq Received', Received' \subseteq Received \cup {e},
         joined[connection_id] = channel => e \in Received'
  PROVE  Delivery'
<1>1. /\ chats \in Seq([user : Users, channel : AllChannels]) /\ Len(chats) \in Nat
      /\ DOMAIN chats = 1 .. Len(chats) /\ ChatIds = 1 .. Len(chats)
  BY DEF TypeOK, ServerOK, ChatIds
<1> DEFINE new == [user |-> u, channel |-> channel]
<1>2. new.user = u /\ new.channel = channel /\ chats' = Append(chats, new)
  OBVIOUS
<1> HIDE DEF new
<1>3. /\ DOMAIN chats' = 1 .. Len(chats) + 1
      /\ \A i \in 1 .. Len(chats) : chats'[i] = chats[i]
      /\ chats'[Len(chats) + 1] = new
  <2>1. DOMAIN chats' = 1 .. Len(chats) + 1
    BY <1>1, <1>2
  <2>2. \A i \in 1 .. Len(chats) : Append(chats, new)[i] = chats[i]
    BY <1>1
  <2>3. Append(chats, new)[Len(chats) + 1] = new
    BY <1>1
  <2> QED BY <1>2, <2>1, <2>2, <2>3
<1>4. e.kind = "chat" /\ e.user = u /\ e.data = Len(chats) + 1 /\ e.call = 0
  BY DEF Event
<1>5. \A m \in Received' : m.kind = "chat" => m.user = chats'[m.data].user
  <2>1. \A m \in Received : m.kind = "chat" => m.data \in 1 .. Len(chats) /\ m.user = chats[m.data].user
    <3>1. \A m \in Messages : m.kind = "chat" => m.data \in ChatIds
      BY DEF Messages, AnswersWith, EventsWith
    <3> QED BY <1>1, <3>1 DEF Delivery
  <2> QED BY <1>2, <1>3, <1>4, <2>1
<1>6. (AppIs("chat") => app.user = chats[app.data].user)'
  <2>1. AppIs("chat") => app.data \in 1 .. Len(chats) /\ app.user = chats[app.data].user
    BY <1>1, HandlerFacts DEF AppIs, Delivery, TypeOK, AppOK, Idle
  <2> QED BY <1>3, <2>1 DEF AppIs
<1>7. ASSUME NEW i \in 1 .. Len(chats)
      PROVE  OnItsWay(i) => OnItsWay(i)'
  <2>1. chats'[i] = chats[i]
    BY <1>3
  <2>2. /\ \A m : Brings(m, i) => Brings(m, i)'
        /\ \A m : AsksFor(m, i) => AsksFor(m, i)'
        /\ AppBrings(i) => AppBrings(i)'
    BY <2>1 DEF Brings, AsksFor, AppBrings, WaitsFor, AppIs
  <2>3. \A q : AsksFor(q, i) => q.kind \in {"chats", "users"}
    BY DEF AsksFor
  <2> QED BY <2>2, <2>3 DEF OnItsWay
<1>8. ASSUME ~ LoggingOut', NEW i \in DOMAIN chats', chats'[i].channel = joined'[connection_id']
      PROVE  i \in shown' \cup older' \/ Joining(chats[i].channel)' \/ OnItsWay(i)'
  <2>1. CASE i \in 1 .. Len(chats)
    <3>1. chats[i].channel = joined[connection_id] /\ chats'[i].channel = chats[i].channel
      BY <1>3, <1>8, <2>1
    <3>2. i \in shown \cup older \/ Joining(chats[i].channel) \/ OnItsWay(i)
      BY <1>1, <1>8, <2>1, <3>1 DEF Delivery
    <3>3. CASE Joining(chats[i].channel)
      <4> DEFINE ch == chats[i].channel
      <4>1. Joining(ch)
        BY <3>3
      <4> HIDE DEF ch
      <4>2. PICK d : d = ch
        OBVIOUS
      <4>3. Joining(d)'
        BY <4>1, <4>2
      <4>4. chats'[i].channel = d
        BY <3>1, <4>2 DEF ch
      <4> QED BY <4>3, <4>4 DEF Joining
    <3> QED BY <1>7, <2>1, <3>2, <3>3
  <2>2. CASE i = Len(chats) + 1
    <3>1. channel = joined[connection_id]
      BY <1>2, <1>3, <1>8, <2>2
    <3>2. Brings(e, i)'
      BY <1>4, <2>2 DEF Brings
    <3> QED BY <3>1, <3>2 DEF OnItsWay
  <2> QED BY <1>1, <1>3, <2>1, <2>2
<1> QED BY <1>5, <1>6, <1>8 DEF Delivery

LEMMA InChannel ==
  ASSUME Attached, NEW ch
  PROVE  /\ In(ch) \subseteq Conns
         /\ joined[connection_id] = ch => In(ch) # {}
BY AttachedFacts DEF In

LEMMA SoloWrite ==
  ASSUME Solo, TypeOK', NEW c \in Conns, Serve(c), NEW r, r = Head(requests[c]), ServeWrite(c, r)
  PROVE  SoloAfter
<1> DEFINE e == Event("chat", session[c], Len(chats) + 1)
<1>1. /\ c = connection_id /\ Queued = {r} \cup Queued'
      /\ UNCHANGED <<connection_id, user, channel_name, calls, app, users_cache, shown>>
  BY RequestServed DEF Solo
<1>2. r.kind = "write" /\ r.call = 0 /\ UNCHANGED <<session, joined, older>>
  BY RequestServed, RequestFacts DEF ServeWrite, Solo
<1>3. ~ LoadsJoined(r) /\ \A i : ~ AsksFor(r, i)
  BY <1>2 DEF LoadsJoined, AsksFor
<1>4. CASE joined[c] = None
  <2>1. UNCHANGED <<chats, inbox>>
    BY <1>4 DEF ServeWrite
  <2>2. Arrivals({})
    BY <2>1, NothingArrives DEF Solo
  <2> QED BY <1>2, <1>3, <2>1, <2>2, ServedPlainly
<1>5. CASE joined[c] # None
  <2>1. /\ chats' = Append(chats, [user |-> session[c], channel |-> joined[c]])
        /\ inbox' = inbox \o Broadcast(In(joined[c]), e)
    BY <1>5 DEF ServeWrite
  <2>2. e.call = 0 /\ e.kind = "chat"
    BY DEF Event
  <2>3. e = Event("chat", session[c], Len(chats) + 1)
    OBVIOUS
  <2> HIDE DEF e
  <2>4. Orderly(Broadcast(In(joined[c]), e), {e})
    <3>1. In(joined[c]) \subseteq Conns /\ In(joined[c]) # {}
      BY <1>1, InChannel DEF Solo
    <3> QED BY <2>2, <3>1, OrderlyEvents
  <2>5. Arrived({e})
    BY <2>1, <2>2, <2>4, Arrives DEF Solo
  <2>6. Arrivals({e})
    <3>1. Harmless({}) /\ {e} \cup {} = {e}
      BY DEF Harmless
    <3> QED BY <2>5, <3>1 DEF Arrivals
  <2>7. CallsInOrder'
    BY <2>2, <2>6, ArrivalsInOrder DEF Solo
  <2>8. OneChange' /\ Agreement'
    <3>1. ~ ChangesSession(e)
      BY <2>2 DEF ChangesSession, LoadsJoined
    <3> QED BY <1>2, <1>3, <2>6, <3>1, ServedKept DEF Solo
  <2>9. Received' = Received \cup {e}
    BY <2>5 DEF Arrived
  <2>10. Delivery'
    <3>1. \A ch : Joining(ch) => Joining(ch)'
      BY <1>1, <1>3, <2>9, JoiningKept
    <3>2. ~ LoggingOut' => ~ LoggingOut
      BY <1>1, <1>2 DEF LoggingOut
    <3>3. \A q \in Queued : q.kind \in {"chats", "users"} => q \in Queued'
      BY <1>1, <1>2
    <3>4. Received \subseteq Messages
      BY AttachedFacts DEF Solo
    <3> QED BY <1>1, <1>2, <2>1, <2>3, <2>9, <3>1, <3>2, <3>3, <3>4, ChatArrives DEF Solo, Attached
  <2> QED BY <2>7, <2>8, <2>10 DEF SoloAfter
<1> QED BY <1>4, <1>5

LEMMA SoloCreateChannel ==
  ASSUME Solo, NEW c \in Conns, Serve(c), NEW r, r = Head(requests[c]), ServeCreateChannel(c, r)
  PROVE  SoloAfter
<1> DEFINE x == [call |-> r.call, kind |-> r.kind, data |-> {r.arg}]
           e == Event("created", session[c], r.arg)
           more == IF r.arg \in stored THEN <<>> ELSE Broadcast(open, e)
<1>1. /\ r \in Requests /\ (r.call # 0 => \A m \in Received : m.call < r.call)
  BY RequestServed DEF Solo
<1>2. /\ r.kind = "create" /\ r.call \in Nat \ {0} /\ UNCHANGED <<session, joined, chats>>
      /\ inbox' = (inbox \o <<x>>) \o more
  BY <1>1, RequestFacts DEF ServeCreateChannel, Answer
<1>3. /\ x.call = r.call /\ x.kind = "create"
      /\ e.call = 0 /\ e.kind = "created" /\ open \subseteq Conns
  BY <1>2, AttachedFacts DEF Event, Solo
<1> HIDE DEF x, e
<1>4. PICK E : Orderly(more, E) /\ E \subseteq {e}
  <2>1. CASE r.arg \in stored
    BY <2>1, OrderlyNone
  <2>2. CASE r.arg \notin stored
    BY <1>3, <2>2, OrderlyEvents
  <2> QED BY <2>1, <2>2
<1> HIDE DEF more
<1>5. Orderly(inbox \o <<x>>, Received \cup {x})
  <2>1. \A m \in Received, n \in {x} : n.call # 0 => m.call < n.call
    BY <1>1, <1>3
  <2> QED BY <2>1, ReceivedOrderly, OrderlyOne, OrderlyConcat DEF Solo
<1>6. Orderly((inbox \o <<x>>) \o more, (Received \cup {x}) \cup E)
  <2>1. \A m \in Received \cup {x}, n \in E : n.call # 0 => m.call < n.call
    BY <1>3, <1>4
  <2> QED BY <1>4, <1>5, <2>1, OrderlyConcat
<1>7. Arrivals({x})
  <2>1. Harmless(E)
    BY <1>3, <1>4 DEF Harmless
  <2>2. Arrived({x} \cup E)
    BY <1>2, <1>6 DEF Arrived, Orderly, Received
  <2> QED BY <2>1, <2>2 DEF Arrivals
<1>8. ~ ChangesSession(x) /\ ~ LoadsJoined(r) /\ \A i : ~ AsksFor(r, i)
  BY <1>2, <1>3 DEF ChangesSession, LoadsJoined, AsksFor
<1> QED BY <1>2, <1>3, <1>7, <1>8, ServedPlainly

LEMMA SoloQuery ==
  ASSUME Solo, NEW c \in Conns, Serve(c), NEW r, r = Head(requests[c]), ServeQuery(c, r)
  PROVE  SoloAfter
<1> DEFINE data == CASE r.kind = "channels" -> stored
                     [] r.kind = "chats" -> LatestChats(r.arg)
                     [] OTHER -> r.arg
<1>0. PICK x : x = [call |-> r.call, kind |-> r.kind, data |-> data]
  OBVIOUS
<1>1. /\ r \in Requests /\ r \in Queued /\ Queued = {r} \cup Queued'
      /\ UNCHANGED <<connection_id, user, channel_name, calls, app>>
  BY RequestServed DEF Solo
<1>2. /\ r.kind \in {"users", "channel", "channels", "chats"} /\ r.call # 0
      /\ UNCHANGED <<session, joined, chats>> /\ inbox' = inbox \o <<x>>
  BY <1>0, <1>1, RequestFacts DEF ServeQuery, Answer
<1>3. /\ x.call = r.call /\ x.kind = r.kind /\ x.data = data
      /\ r.kind \in {"users", "channel"} => data = r.arg
      /\ r.kind = "chats" => data = LatestChats(r.arg)
  BY <1>0, <1>2
<1> HIDE DEF data
<1>4. Arrived({x}) /\ Arrivals({x})
  BY <1>2, <1>3, OneArrives DEF Solo
<1>5. /\ LoadsJoined(x) <=> LoadsJoined(r)
      /\ ChangesSession(x) <=> LoadsJoined(r)
      /\ \A i : WaitsFor(x, i) <=> WaitsFor(r, i)
  BY <1>2, <1>3 DEF LoadsJoined, ChangesSession, WaitsFor
<1>6. \A i \in DOMAIN chats : AsksFor(r, i) => i \in older' \/ Brings(x, i)
  <2>1. r.kind = "chats" => older' = older \cup (ChatLog(r.arg) \ LatestChats(r.arg))
    BY DEF ServeQuery
  <2> QED BY <1>3, <1>5, <2>1 DEF AsksFor, Brings, ChatLog
<1>7. CASE ~ LoadsJoined(r)
  BY <1>2, <1>3, <1>4, <1>5, <1>6, <1>7, ServedPlainly
<1>8. CASE LoadsJoined(r)
  <2>1. r.kind = "channel" /\ ChangesSession(r) /\ x.data = r.arg
    BY <1>3, <1>8 DEF LoadsJoined, ChangesSession
  <2>2. /\ \A m \in Received : ~ ChangesSession(m)
        /\ \A q \in Queued' : ~ ChangesSession(q)
        /\ ~ AppChangesSession
    BY <2>1, OnlyChange DEF Solo
  <2>3. /\ \A m : LoadsJoined(m)' <=> LoadsJoined(m)
        /\ \A m : ChangesSession(m)' <=> ChangesSession(m)
    BY <1>1 DEF LoadsJoined, ChangesSession
  <2>4. Received' = Received \cup {x}
    BY <1>4 DEF Arrived
  <2>5. CallsInOrder'
    BY <1>3, <1>4, ArrivalsInOrder DEF Solo
  <2>6. OneChange'
    <3>1. \A m \in InTransit' : ChangesSession(m)' => m = x
      BY <2>2, <2>3, <2>4 DEF InTransit
    <3>2. ~ AppChangesSession'
      BY <1>1, <2>2 DEF AppChangesSession, AppIs, AppLoadsJoined
    <3> QED BY <3>1, <3>2 DEF OneChange
  <2>7. LoggingOut' <=> LoggingOut
    BY <1>1, <2>1 DEF LoggingOut
  <2>8. \A u : LoggingIn(u)' <=> LoggingIn(u)
    BY <1>1, <1>3, <2>1, <2>4 DEF LoggingIn, AppIs
  <2>9. \A ch : Joining(ch)' <=> Joining(ch)
    <3>1. \A ch : Joining(ch) <=> ch = r.arg
      <4>1. \A q \in Queued : LoadsJoined(q) => q = r
        BY <1>1, <2>2 DEF ChangesSession
      <4>2. \A m \in Received : ~ (m.kind = "join" \/ LoadsJoined(m))
        BY <2>2 DEF ChangesSession
      <4>3. ~ (AppIs("join") \/ AppLoadsJoined)
        BY <2>2 DEF AppChangesSession
      <4> QED BY <1>1, <1>8, <4>1, <4>2, <4>3 DEF Joining
    <3>2. \A ch : Joining(ch)' <=> ch = r.arg
      <4>1. \A q \in Queued' : ~ LoadsJoined(q)'
        BY <2>2, <2>3 DEF ChangesSession
      <4>2. \A m \in Received' : (m.kind = "join" \/ LoadsJoined(m)') => m = x
        BY <2>2, <2>3, <2>4 DEF ChangesSession
      <4>3. x \in Received' /\ LoadsJoined(x)'
        BY <1>5, <1>8, <2>3, <2>4
      <4>4. ~ (AppIs("join") \/ AppLoadsJoined)'
        BY <1>1, <2>2 DEF AppChangesSession, AppIs, AppLoadsJoined
      <4> QED BY <2>1, <4>1, <4>2, <4>3, <4>4 DEF Joining
    <3> QED BY <3>1, <3>2
  <2>10. Agreement'
    BY <1>1, <1>2, <2>7, <2>8, <2>9, AgreementKept DEF Solo
  <2>11. Delivery'
    <3>1. x.kind # "chat"
      BY <1>3, <2>1
    <3> QED BY <1>2, <1>4, <1>6, <2>7, <2>9, <3>1, ServedDelivery DEF Solo
  <2> QED BY <2>5, <2>6, <2>10, <2>11 DEF SoloAfter
<1> QED BY <1>7, <1>8

-----------------------------------------------------------------------------
(* The other user.                                                         *)

(* What is owed stays owed or is shown; a log is requested for what was    *)
(* being joined.                                                           *)
LEMMA DeliveryKept ==
  ASSUME Delivery, UNCHANGED <<connection_id, joined, chats>>, app' = app \/ ~ AppIs("chat")',
         ~ LoggingOut' => ~ LoggingOut, shown \subseteq shown', older \subseteq older',
         \A m \in Received' : m \in Received \/ m.kind # "chat",
         \A i \in DOMAIN chats : ~ LoggingOut /\ chats[i].channel = joined[connection_id] /\ OnItsWay(i)
                                   => i \in shown' \/ OnItsWay(i)',
         \A ch : Joining(ch) => Joining(ch)' \/ \E q \in Queued' : q.kind = "chats" /\ q.arg = ch
  PROVE  Delivery'
<1>1. \A m \in Received' : m.kind = "chat" => m.user = chats'[m.data].user
  BY DEF Delivery
<1>2. (AppIs("chat") => app.user = chats[app.data].user)'
  BY DEF Delivery, AppIs
<1>3. ASSUME ~ LoggingOut', NEW i \in DOMAIN chats', chats'[i].channel = joined'[connection_id']
      PROVE  i \in shown' \cup older' \/ Joining(chats[i].channel)' \/ OnItsWay(i)'
  <2>1. i \in shown \cup older \/ Joining(chats[i].channel) \/ OnItsWay(i)
    BY <1>3 DEF Delivery
  <2>2. CASE Joining(chats[i].channel)
    <3>1. Joining(chats[i].channel)' \/ \E q \in Queued' : q.kind = "chats" /\ q.arg = chats[i].channel
      BY <2>2
    <3>2. \A q \in Queued' : q.kind = "chats" /\ q.arg = chats[i].channel => AsksFor(q, i)'
      BY DEF AsksFor
    <3> QED BY <3>1, <3>2 DEF OnItsWay
  <2> QED BY <1>3, <2>1, <2>2
<1> QED BY <1>1, <1>2, <1>3 DEF Delivery

LEMMA WayKept ==
  ASSUME UNCHANGED chats, users_cache \subseteq users_cache', Received \subseteq Received', Queued \subseteq Queued',
         \A m \in InTransit : \A i : WaitsFor(m, i) => WaitsFor(m, i)'
  PROVE  \A i : OnItsWay(i) => OnItsWay(i)' \/ AppBrings(i)
<1>1. \A m \in Received : \A i : Brings(m, i) => Brings(m, i)'
  BY DEF Brings, InTransit
<1>2. \A m \in Queued : \A i : AsksFor(m, i) => AsksFor(m, i)'
  BY DEF AsksFor, InTransit
<1> QED BY <1>1, <1>2 DEF OnItsWay

LEMMA EventsInOrder ==
  ASSUME Attached, UNCHANGED <<requests, connection_id, calls>>, NEW E, Arrived(E), \A e \in E : e.call = 0
  PROVE  CallsInOrder'
<1>1. InCallOrder(inbox') /\ Received' = Received \cup E /\ Queued' = Queued
  BY DEF Arrived, Queued
<1>2. \A m \in Received', q \in Queued' : q.call # 0 => m.call < q.call
  <2>1. \A q \in Queued : q.call \in Nat
    BY AttachedFacts DEF InTransit
  <2> QED BY <1>1, <2>1 DEF Attached, CallsInOrder
<1>3. \A m \in InTransit' : m.call # 0 => \E k \in calls' : k.id = m.call
  BY <1>1 DEF Attached, CallsInOrder, InTransit
<1> QED BY <1>1, <1>2, <1>3 DEF Attached, CallsInOrder

LEMMA SoloOther ==
  ASSUME Solo, TypeOK', OtherActs
  PROVE  SoloAfter
<1>1. UNCHANGED <<connection_id, user, channel_name, users_cache, calls, requests, app, session, joined, older, shown>>
  BY DEF OtherActs, uiVars, cacheVars, callVars, histVars
<1>2. Queued' = Queued
  BY <1>1 DEF Queued
<1>3. /\ \A m : LoadsJoined(m)' <=> LoadsJoined(m)
      /\ \A m : ChangesSession(m)' <=> ChangesSession(m)
  BY <1>1 DEF LoadsJoined, ChangesSession
<1>4. open \subseteq Conns /\ \A ch : In(ch) \subseteq Conns /\ (joined[connection_id] = ch => In(ch) # {})
  BY AttachedFacts, InChannel DEF Solo
<1>5. ASSUME NEW e, e.call = 0, e.kind \in {"chat", "member", "presence", "created"},
             NEW to \in SUBSET Conns, inbox' = inbox \o Broadcast(to, e)
      PROVE  /\ CallsInOrder' /\ OneChange' /\ Agreement'
             /\ Received \subseteq Received' /\ Received' \subseteq Received \cup {e}
             /\ to # {} => e \in Received'
  <2> DEFINE E == Range(Broadcast(to, e))
  <2>1. Orderly(Broadcast(to, e), E) /\ E \subseteq {e} /\ (to # {} => E = {e})
    BY <1>5, OrderlyEvents
  <2> HIDE DEF E
  <2>2. Arrived(E)
    BY <1>5, <2>1, Arrives DEF Solo
  <2>3. Received' = Received \cup E
    BY <2>2 DEF Arrived
  <2>4. CallsInOrder'
    BY <1>1, <1>5, <2>1, <2>2, EventsInOrder DEF Solo
  <2>5. \A m \in E : ~ ChangesSession(m)
    BY <1>5, <2>1 DEF ChangesSession, LoadsJoined
  <2>6. OneChange' /\ Agreement'
    BY <1>1, <1>2, <1>3, <2>3, <2>5, SessionUntouched DEF Solo
  <2> QED BY <2>1, <2>3, <2>4, <2>6
<1>6. ASSUME Received \subseteq Received' PROVE \A ch : Joining(ch) => Joining(ch)'
  BY <1>1, <1>2, <1>6, JoiningKept
<1>7. LoggingOut' <=> LoggingOut
  BY <1>2 DEF LoggingOut
<1>8. ASSUME NEW e, e.call = 0, e.kind \in {"member", "presence", "created"}, UNCHANGED chats,
             NEW to \in SUBSET Conns, inbox' = inbox \o Broadcast(to, e)
      PROVE  SoloAfter
  <2>1. /\ CallsInOrder' /\ OneChange' /\ Agreement'
        /\ Received \subseteq Received' /\ Received' \subseteq Received \cup {e}
    BY <1>5, <1>8
  <2>2. \A i : OnItsWay(i) => OnItsWay(i)' \/ AppBrings(i)
    BY <1>1, <1>2, <1>8, <2>1, WayKept DEF WaitsFor
  <2>3. \A i : AppBrings(i) => AppBrings(i)'
    BY <1>1, <1>8 DEF AppBrings, AppIs
  <2>4. \A i : OnItsWay(i) => OnItsWay(i)'
    BY <2>2, <2>3 DEF OnItsWay
  <2>5. Delivery'
    BY <1>1, <1>6, <1>7, <1>8, <2>1, <2>4, DeliveryKept DEF Solo
  <2> QED BY <2>1, <2>5 DEF SoloAfter
<1>9. ASSUME NEW ch \in Channels,
             chats' = Append(chats, [user |-> Other, channel |-> ch]),
             inbox' = inbox \o Broadcast(In(ch), Event("chat", Other, Len(chats) + 1))
      PROVE  SoloAfter
  <2>1. PICK e : e = Event("chat", Other, Len(chats) + 1)
    OBVIOUS
  <2>2. e.call = 0 /\ e.kind = "chat"
    BY <2>1 DEF Event
  <2>3. /\ CallsInOrder' /\ OneChange' /\ Agreement'
        /\ Received \subseteq Received' /\ Received' \subseteq Received \cup {e}
        /\ In(ch) # {} => e \in Received'
    BY <1>4, <1>5, <1>9, <2>1, <2>2
  <2>4. Received \subseteq Messages
    BY AttachedFacts DEF Solo
  <2>5. Delivery'
    BY <1>1, <1>2, <1>4, <1>6, <1>7, <1>9, <2>1, <2>3, <2>4, ChatArrives DEF Solo, Attached
  <2> QED BY <2>3, <2>5 DEF SoloAfter
<1>10. \A kind, u, d : Event(kind, u, d).call = 0 /\ Event(kind, u, d).kind = kind
  BY DEF Event
<1> QED BY <1>4, <1>8, <1>9, <1>10 DEF OtherActs

-----------------------------------------------------------------------------
(* The commands.                                                           *)

LEMMA IdleFacts ==
  ASSUME Solo, calls = {}, app = Idle
  PROVE  /\ \A m \in InTransit : m.call = 0 /\ ~ ChangesSession(m)
         /\ ~ AppChangesSession /\ ~ LoggingOut
         /\ \A u : ~ LoggingIn(u)
         /\ \A ch : ~ Joining(ch)
         /\ user = session[connection_id] /\ channel_name = joined[connection_id]
<1>1. \A m \in InTransit : m.call = 0
  BY DEF Solo, Attached, CallsInOrder
<1>2. \A m \in InTransit : ~ ChangesSession(m)
  <2>1. \A m \in InTransit : m \in Messages \/ m \in Requests
    BY AttachedFacts DEF Solo, InTransit
  <2>2. \A m \in InTransit : m.kind \notin AnswerKinds
    BY <1>1, <2>1, MessageFacts, RequestFacts DEF AnswerKinds
  <2> QED BY <2>2 DEF ChangesSession, LoadsJoined, AnswerKinds
<1>3. ~ AppChangesSession
  BY DEF AppChangesSession, AppIs, AppLoadsJoined, Idle
<1>4. ~ LoggingOut /\ (\A u : ~ LoggingIn(u)) /\ (\A ch : ~ Joining(ch))
  BY <1>2, <1>3 DEF LoggingOut, LoggingIn, Joining, InTransit, ChangesSession, AppChangesSession
<1> QED BY <1>1, <1>2, <1>3, <1>4 DEF Solo, Agreement

(* A command's call other than a logout: the session is as before, until   *)
(* the answer.                                                             *)
LEMMA SoloCommand ==
  ASSUME Solo, calls = {}, app = Idle,
         UNCHANGED <<connection_id, user, channel_name, users_cache, app, inbox, session, joined, chats, older, shown>>,
         NEW kind \in {"authenticate", "createUser", "channels", "create", "join"}, NEW arg,
         [kind |-> kind, arg |-> arg, call |-> next_call] \in Requests,
         Call(connection_id, kind, arg, Nothing)
  PROVE  SoloAfter
<1>1. PICK r : r = [kind |-> kind, arg |-> arg, call |-> next_call]
  OBVIOUS
<1>2. r \in Requests /\ r.kind = kind
  BY <1>1
<1>3. /\ Received' = Received /\ Queued' = Queued \cup {r} /\ CallsInOrder'
      /\ \A m \in InTransit : LoadsJoined(m)' <=> LoadsJoined(m)
      /\ \A m \in InTransit : \A i : WaitsFor(m, i)' <=> WaitsFor(m, i)
  BY <1>1, <1>2, CallMade DEF Solo
<1>4. \A m \in InTransit : ~ ChangesSession(m)'
  BY <1>3, IdleFacts DEF ChangesSession
<1>5. \A m \in InTransit' : ChangesSession(m)' => m = r
  BY <1>3, <1>4 DEF InTransit
<1>6. ~ AppChangesSession'
  BY DEF AppChangesSession, AppIs, AppLoadsJoined, Idle
<1>7. OneChange'
  BY <1>5, <1>6 DEF OneChange
<1>8. ~ LoadsJoined(r)'
  BY <1>2 DEF LoadsJoined
<1>9. ~ LoggingOut' /\ (\A u : ~ LoggingIn(u)') /\ (\A ch : ~ Joining(ch)')
  <2>1. ~ LoggingOut'
    BY <1>2, <1>3, IdleFacts DEF LoggingOut
  <2>2. \A m \in Received' : ~ ChangesSession(m)'
    BY <1>3, <1>4 DEF InTransit
  <2>3. \A u : ~ LoggingIn(u)'
    BY <1>6, <2>2 DEF LoggingIn, ChangesSession, AppChangesSession
  <2>4. \A q \in Queued' : ~ LoadsJoined(q)'
    BY <1>3, <1>4, <1>8 DEF InTransit, ChangesSession
  <2>5. \A ch : ~ Joining(ch)'
    BY <1>6, <2>2, <2>4 DEF Joining, ChangesSession, AppChangesSession
  <2> QED BY <2>1, <2>3, <2>5
<1>10. Agreement'
  BY <1>9, IdleFacts, AgreementKept DEF Solo
<1>11. Delivery'
  <2>1. \A i : OnItsWay(i) => OnItsWay(i)' \/ AppBrings(i)
    BY <1>3, WayKept
  <2>2. \A i : ~ AppBrings(i)
    BY DEF AppBrings, AppIs, Idle
  <2> QED BY <1>3, <1>9, <2>1, <2>2, IdleFacts, DeliveryKept DEF Solo
<1> QED BY <1>3, <1>7, <1>10, <1>11 DEF SoloAfter

LEMMA SoloLogoutCommand ==
  ASSUME Solo, calls = {}, app = Idle, Logout,
         UNCHANGED <<connection_id, users_cache, app, inbox, session, joined, chats, older, shown>>
  PROVE  SoloAfter
<1>1. user' = None /\ channel_name' = None /\ Call(connection_id, "logout", None, Nothing)
  BY DEF Logout, SetChannelName
<1>2. PICK r : r = [kind |-> "logout", arg |-> None, call |-> next_call]
  OBVIOUS
<1>3. r \in Requests /\ r.kind = "logout"
  <2>1. next_call \in Nat \ {0}
    BY AttachedFacts DEF Solo
  <2> QED BY <1>2, <2>1 DEF Requests, RequestsWith
<1>4. /\ Received' = Received /\ Queued' = Queued \cup {r} /\ CallsInOrder'
      /\ \A m \in InTransit : LoadsJoined(m)' <=> LoadsJoined(m)
  BY <1>1, <1>2, <1>3, CallMade DEF Solo
<1>5. \A m \in InTransit : ~ ChangesSession(m)'
  BY <1>4, IdleFacts DEF ChangesSession
<1>6. \A m \in InTransit' : ChangesSession(m)' => m = r
  BY <1>4, <1>5 DEF InTransit
<1>7. ~ AppChangesSession'
  BY DEF AppChangesSession, AppIs, AppLoadsJoined, Idle
<1>8. OneChange'
  BY <1>6, <1>7 DEF OneChange
<1>9. LoggingOut'
  BY <1>3, <1>4 DEF LoggingOut
<1>10. (\A u : ~ LoggingIn(u)') /\ (\A ch : ~ Joining(ch)')
  <2>1. \A m \in Received' : ~ ChangesSession(m)'
    BY <1>4, <1>5 DEF InTransit
  <2>2. \A u : ~ LoggingIn(u)'
    BY <1>7, <2>1 DEF LoggingIn, ChangesSession, AppChangesSession
  <2>3. \A q \in Queued' : ~ LoadsJoined(q)'
    BY <1>3, <1>4, <1>5 DEF InTransit, ChangesSession, LoadsJoined
  <2>4. \A ch : ~ Joining(ch)'
    BY <1>7, <2>1, <2>3 DEF Joining, ChangesSession, AppChangesSession
  <2> QED BY <2>2, <2>4
<1>11. Agreement'
  BY <1>1, <1>9, <1>10 DEF Solo, Agreement
<1>12. Delivery'
  <2>1. \A m \in Received' : m.kind = "chat" => m.user = chats'[m.data].user
    BY <1>4 DEF Delivery, Solo
  <2> QED BY <1>9, <2>1 DEF Delivery, AppIs, Idle
<1> QED BY <1>4, <1>8, <1>11, <1>12 DEF SoloAfter

LEMMA SoloSend ==
  ASSUME Solo, app = Idle, Send,
         UNCHANGED <<connection_id, users_cache, app, inbox, session, joined, chats, older, shown>>
  PROVE  SoloAfter
<1>1. PICK r : r = [kind |-> "write", arg |-> None, call |-> 0]
  OBVIOUS
<1>2. r \in Requests /\ r.call = 0 /\ r.kind = "write"
  BY <1>1 DEF Requests
<1>3. /\ requests' = [requests EXCEPT ![connection_id] = Append(@, r)]
      /\ UNCHANGED <<user, channel_name, calls>>
  BY <1>1, AttachedFacts DEF Send, KeepsSession, Solo
<1>4. Received' = Received /\ Queued' = Queued \cup {r} /\ CallsInOrder'
  BY <1>2, <1>3, ChatQueued DEF Solo
<1>5. /\ \A m : LoadsJoined(m)' <=> LoadsJoined(m)
      /\ \A m : ChangesSession(m)' <=> ChangesSession(m)
      /\ ~ ChangesSession(r)
  BY <1>2, <1>3 DEF LoadsJoined, ChangesSession
<1>6. OneChange' /\ Agreement'
  BY <1>3, <1>4, <1>5, SessionUntouched DEF Solo
<1>7. Delivery'
  <2>1. \A i : OnItsWay(i) => OnItsWay(i)' \/ AppBrings(i)
    BY <1>3, <1>4, WayKept DEF WaitsFor
  <2>2. \A i : ~ AppBrings(i)
    BY DEF AppBrings, AppIs, Idle
  <2>3. \A ch : Joining(ch) => Joining(ch)'
    BY <1>3, <1>4, JoiningKept
  <2>4. ~ LoggingOut' => ~ LoggingOut
    BY <1>4 DEF LoggingOut
  <2> QED BY <1>4, <2>1, <2>2, <2>3, <2>4, DeliveryKept DEF Solo
<1> QED BY <1>4, <1>6, <1>7 DEF SoloAfter

-----------------------------------------------------------------------------
(* The application thread takes a message.                                 *)

(* While somebody is in a channel and not leaving it, the session checks   *)
(* succeed.                                                                *)
LEMMA InSession ==
  ASSUME Solo, ~ LoggingOut, joined[connection_id] # None
  PROVE  ValidateSession
<1>1. session[connection_id] # None /\ \A u \in Users : ~ LoggingIn(u)
  BY DEF Solo, Agreement
<1>2. user = session[connection_id]
  BY <1>1 DEF Solo, Agreement
<1> QED BY <1>1, <1>2 DEF ValidateSession, Solo, Attached

LEMMA JoiningType ==
  ASSUME Attached, NEW ch, Joining(ch)
  PROVE  ch \in AllChannels
<1>1. \A m \in Messages : m.kind \in {"join", "channel"} => m.data \in AllChannels
  BY DEF Messages, AnswersWith, EventsWith
<1>2. \A r \in Requests : r.kind = "channel" => r.arg \in AllChannels
  BY RequestFacts
<1>3. app.kind \in {"join", "channel"} => app.data \in AllChannels
  <2>1. app = Idle \/ app \in Handlers
    BY DEF Attached, TypeOK, AppOK
  <2> QED BY <2>1, HandlerFacts DEF Idle
<1> QED BY <1>1, <1>2, <1>3, AttachedFacts DEF Joining, LoadsJoined, AppIs, AppLoadsJoined

LEMMA SoloEvent ==
  ASSUME Solo, TypeOK', TakeMessage, NEW m, m = Head(inbox), TakeEvent(m)
  PROVE  SoloAfter
<1>1. /\ app = Idle
      /\ UNCHANGED <<connection_id, user, channel_name, users_cache, requests, session, joined, chats, older, shown>>
      /\ m.call = 0 /\ UNCHANGED calls
  BY DEF TakeMessage, TakeEvent, uiVars, cacheVars, serverVars, histVars
<1>2. /\ m \in Received /\ m \in Messages
      /\ Received = {m} \cup Received' /\ Queued' = Queued /\ CallsInOrder'
  BY MessageTaken DEF Solo
<1>3. m.kind \notin AnswerKinds
  BY <1>1, <1>2, MessageFacts
<1>4. \/ ~ ChecksEvent(m) /\ app' = Idle
      \/ ChecksEvent(m) /\ app' = [kind |-> m.kind, data |-> m.data, user |-> m.user, at |-> leaves]
  BY DEF TakeEvent
<1>5. /\ \A n : LoadsJoined(n)' <=> LoadsJoined(n)
      /\ \A n : ChangesSession(n)' <=> ChangesSession(n)
      /\ ~ ChangesSession(m)
  BY <1>1, <1>3 DEF LoadsJoined, ChangesSession, AnswerKinds
<1>6. ~ AppChangesSession' /\ ~ AppChangesSession
  BY <1>1, <1>3, <1>4 DEF AppChangesSession, AppIs, AppLoadsJoined, AnswerKinds, Idle
<1>7. OneChange' /\ Agreement'
  <2>1. ~ AppIs("authenticate") /\ ~ AppIs("join") /\ ~ AppLoadsJoined
    BY <1>6 DEF AppChangesSession
  <2> QED BY <1>1, <1>2, <1>5, <1>6, <2>1, SessionUntouched DEF Solo
<1>8. LoggingOut' <=> LoggingOut
  BY <1>2 DEF LoggingOut
<1>9. \A ch : Joining(ch) => Joining(ch)'
  <2>1. \A n \in Received : (n.kind = "join" \/ LoadsJoined(n)) => n \in Received'
    BY <1>2, <1>5 DEF ChangesSession
  <2>2. ~ (AppIs("join") \/ AppLoadsJoined)
    BY <1>6 DEF AppChangesSession
  <2> QED BY <1>2, <1>5, <2>1, <2>2 DEF Joining
<1>10. ASSUME NEW i \in DOMAIN chats, ~ LoggingOut, chats[i].channel = joined[connection_id], OnItsWay(i)
       PROVE  OnItsWay(i)'
  <2>1. /\ \A n : Brings(n, i)' <=> Brings(n, i)
        /\ \A n : AsksFor(n, i)' <=> AsksFor(n, i)
    BY <1>1 DEF Brings, AsksFor, WaitsFor
  <2>2. ~ AppBrings(i)
    BY <1>1 DEF AppBrings, AppIs, Idle
  <2>3. CASE Brings(m, i)
    <3>1. m.kind = "chat" /\ m.data = i
      BY <1>3, <2>3 DEF Brings, AnswerKinds
    <3>2. ValidateSession
      BY <1>10, ChatTypes, InSession DEF Solo, Attached
    <3>3. app' = [kind |-> m.kind, data |-> m.data, user |-> m.user, at |-> leaves]
      BY <1>4, <3>1, <3>2 DEF ChecksEvent
    <3>4. AppBrings(i)'
      BY <3>1, <3>3 DEF AppBrings, AppIs
    <3> QED BY <3>4 DEF OnItsWay
  <2>4. CASE ~ Brings(m, i)
    BY <1>2, <1>10, <2>1, <2>2, <2>4 DEF OnItsWay
  <2> QED BY <2>3, <2>4
<1>11. Delivery'
  <2>1. (AppIs("chat") => app.user = chats[app.data].user)'
    BY <1>1, <1>2, <1>4 DEF AppIs, Delivery, Solo, Idle
  <2>2. \A n \in Received' : n.kind = "chat" => n.user = chats'[n.data].user
    BY <1>1, <1>2 DEF Delivery, Solo
  <2>3. ASSUME ~ LoggingOut', NEW i \in DOMAIN chats', chats'[i].channel = joined'[connection_id']
        PROVE  i \in shown' \cup older' \/ Joining(chats[i].channel)' \/ OnItsWay(i)'
    <3>1. i \in shown \cup older \/ Joining(chats[i].channel) \/ OnItsWay(i)
      BY <1>1, <1>8, <2>3 DEF Delivery, Solo
    <3>2. Joining(chats[i].channel) => Joining(chats[i].channel)'
      BY <1>1, <1>9
    <3> QED BY <1>1, <1>8, <1>10, <2>3, <3>1, <3>2
  <2> QED BY <2>1, <2>2, <2>3 DEF Delivery
<1> QED BY <1>2, <1>7, <1>11 DEF SoloAfter

(* What an answer changes, its handler goes on changing. *)
LEMMA SoloAnswer ==
  ASSUME Solo, TypeOK', TakeMessage, NEW m, m = Head(inbox), TakeAnswer(m)
  PROVE  SoloAfter
<1>1. /\ app = Idle
      /\ UNCHANGED <<connection_id, user, channel_name, users_cache, requests, session, joined, chats, older, shown>>
      /\ m.call > 0 /\ calls' = calls \ Pending(m)
  BY DEF TakeMessage, TakeAnswer, uiVars, cacheVars, serverVars, histVars
<1>2. /\ m \in Received /\ m \in Messages
      /\ Received = {m} \cup Received' /\ Queued' = Queued /\ CallsInOrder'
      /\ \A n \in InTransit' : n.call # 0 => m.call < n.call
      /\ \A n \in InTransit' : LoadsJoined(n)' <=> LoadsJoined(n)
      /\ \A n \in InTransit' : n.call # 0 => \A i : WaitsFor(n, i)' <=> WaitsFor(n, i)
  BY MessageTaken DEF Solo
<1>3. PICK k \in calls : k.id = m.call /\ \A l \in calls : l.id = m.call => l = k
  <2>1. m.call # 0 /\ m \in InTransit
    BY <1>1, <1>2, MessageFacts DEF InTransit
  <2> QED BY <2>1 DEF Solo, Attached, CallsInOrder
<1>4. m.kind \in AnswerKinds \cup {"error"}
  BY <1>1, <1>2 DEF Messages, AnswersWith, EventsWith, AnswerKinds
<1>5. /\ m.kind # "error" /\ ChecksAnswer(m.kind) =>
           app' = [kind |-> m.kind, data |-> m.data, conn |-> k.conn, then |-> k.then, at |-> leaves]
      /\ ~ (m.kind # "error" /\ ChecksAnswer(m.kind)) => app' = Idle
  <2>1. Pending(m) # {} /\ (CHOOSE l \in calls : l.id = m.call) = k
    BY <1>3 DEF Pending
  <2> QED BY <2>1 DEF TakeAnswer
<1>6. LoadsJoined(m) <=> m.kind = "channel" /\ k.then.to = "joined"
  BY <1>3 DEF LoadsJoined
<1>7. /\ InTransit = {m} \cup InTransit'
      /\ \A n \in InTransit' : n \in InTransit /\ (ChangesSession(n)' <=> ChangesSession(n))
      /\ \A n \in InTransit' : n.call # m.call /\ (n.kind = "users" => n.call # 0)
  <2>1. InTransit = {m} \cup InTransit' /\ m.call \in Nat /\ \A n \in InTransit' : n \in InTransit /\ n.call \in Nat
    BY <1>2, AttachedFacts DEF InTransit, Solo
  <2>2. \A n \in InTransit : n \in Messages \/ n \in Requests
    BY AttachedFacts DEF InTransit, Solo
  <2>3. \A n \in InTransit' : n.kind = "users" => n.call # 0
    BY <2>1, <2>2, MessageFacts, RequestFacts DEF AnswerKinds
  <2> QED BY <1>1, <1>2, <2>1, <2>3 DEF ChangesSession
<1>8. ChangesSession(m) => \A n \in InTransit' : ~ ChangesSession(n) /\ ~ ChangesSession(n)'
  BY <1>7 DEF Solo, OneChange
<1>9. /\ AppChangesSession' => ChangesSession(m)
      /\ ~ AppChangesSession /\ ~ AppIs("chat")' /\ \A i : ~ AppBrings(i)
  <2>1. AppChangesSession' => ChangesSession(m)
    BY <1>4, <1>5, <1>6 DEF AppChangesSession, AppIs, AppLoadsJoined, ChangesSession, Idle
  <2>2. ~ AppChangesSession /\ \A i : ~ AppBrings(i)
    BY <1>1 DEF AppChangesSession, AppIs, AppLoadsJoined, AppBrings, Idle
  <2>3. ~ AppIs("chat")'
    BY <1>4, <1>5 DEF AppIs, Idle, AnswerKinds
  <2> QED BY <2>1, <2>2, <2>3
<1>10. OneChange'
  BY <1>7, <1>8, <1>9 DEF Solo, OneChange
<1>11. \A ch \in AllChannels : Joining(ch)' <=> Joining(ch)
  <2>1. CASE ChangesSession(m)
    <3>1. \A n \in Received' : ~ (n.kind = "join" \/ LoadsJoined(n)) /\ ~ (n.kind = "join" \/ LoadsJoined(n)')
      BY <1>8, <2>1 DEF InTransit, ChangesSession
    <3>2. \A n \in Queued : ~ LoadsJoined(n) /\ ~ LoadsJoined(n)'
      BY <1>2, <1>8, <2>1 DEF InTransit, ChangesSession
    <3>3. m.kind = "join" => ChecksAnswer(m.kind)
      <4>1. SUFFICES ASSUME m.kind = "join" PROVE ValidateSession
        BY DEF ChecksAnswer
      <4>2. m.data \in AllChannels
        BY <1>2, <4>1 DEF Messages, AnswersWith, EventsWith
      <4>3. Joining(m.data)
        BY <1>2, <4>1 DEF Joining
      <4>4. session[connection_id] # None /\ joined[connection_id] # None
        BY <4>2, <4>3, Distinct DEF Solo, Agreement
      <4>5. ~ LoggingOut
        BY <1>2, <1>8, <2>1 DEF LoggingOut, InTransit, ChangesSession
      <4> QED BY <4>4, <4>5, InSession
    <3>4. \A ch : Joining(ch) <=> (m.kind = "join" \/ LoadsJoined(m)) /\ m.data = ch
      BY <1>2, <1>9, <3>1, <3>2 DEF Joining, AppChangesSession
    <3>5. \A ch : Joining(ch)' <=> ((AppIs("join") \/ AppLoadsJoined) /\ app.data = ch)'
      BY <1>2, <3>1, <3>2 DEF Joining
    <3>6. LoadsJoined(m) => m.kind # "error" /\ ChecksAnswer(m.kind)
      BY DEF LoadsJoined, ChecksAnswer
    <3>7. m.kind = "join" \/ LoadsJoined(m) => (AppIs("join") \/ AppLoadsJoined)' /\ app'.data = m.data
      BY <1>5, <1>6, <3>3, <3>6 DEF AppIs, AppLoadsJoined
    <3>8. (AppIs("join") \/ AppLoadsJoined)' => (m.kind = "join" \/ LoadsJoined(m)) /\ app'.data = m.data
      BY <1>5, <1>6 DEF AppIs, AppLoadsJoined, Idle
    <3> QED BY <3>4, <3>5, <3>7, <3>8
  <2>2. CASE ~ ChangesSession(m)
    <3>1. \A n : n \in Received' /\ (n.kind = "join" \/ LoadsJoined(n)') <=> n \in Received /\ (n.kind = "join" \/ LoadsJoined(n))
      BY <1>2, <1>7, <2>2 DEF ChangesSession, InTransit
    <3>2. \A n \in Queued : LoadsJoined(n)' <=> LoadsJoined(n)
      BY <1>2 DEF InTransit
    <3>3. ~ (AppIs("join") \/ AppLoadsJoined) /\ ~ (AppIs("join") \/ AppLoadsJoined)'
      BY <1>9, <2>2 DEF AppChangesSession
    <3> QED BY <1>2, <3>1, <3>2, <3>3 DEF Joining
  <2> QED BY <2>1, <2>2
<1>12. LoggingOut' <=> LoggingOut
  BY <1>2 DEF LoggingOut
<1>13. \A u \in Users : LoggingIn(u)' <=> LoggingIn(u)
  <2>1. AppIs("authenticate")' <=> m.kind = "authenticate"
    BY <1>5 DEF AppIs, ChecksAnswer, Idle
  <2>2. m.kind = "authenticate" => app'.data = m.data /\ ChangesSession(m)
    BY <1>5 DEF ChecksAnswer, ChangesSession
  <2>3. m.kind = "authenticate" => \A n \in Received' : n.kind # "authenticate"
    BY <1>8, <2>2 DEF ChangesSession, InTransit
  <2>4. ~ AppIs("authenticate")
    BY <1>9 DEF AppChangesSession
  <2> QED BY <1>2, <2>1, <2>2, <2>3, <2>4 DEF LoggingIn
<1>14. Agreement'
  BY <1>1, <1>11, <1>12, <1>13, AgreementKept DEF Solo
<1>15. ASSUME NEW i \in DOMAIN chats, ~ LoggingOut, chats[i].channel = joined[connection_id], OnItsWay(i)
       PROVE  OnItsWay(i)'
  <2>1. /\ \A n \in Received' : Brings(n, i) => Brings(n, i)'
        /\ \A n \in Queued' : AsksFor(n, i) => AsksFor(n, i)'
    BY <1>1, <1>2, <1>7 DEF Brings, AsksFor, InTransit
  <2>2. CASE Brings(m, i)
    <3>1. ValidateSession
      BY <1>15, ChatTypes, InSession DEF Solo, Attached
    <3>2. m.kind \in {"chats", "users"} /\ app' = [kind |-> m.kind, data |-> m.data, conn |-> k.conn, then |-> k.then, at |-> leaves]
      BY <1>4, <1>5, <2>2, <3>1 DEF Brings, ChecksAnswer, AnswerKinds
    <3>3. m.kind = "users" => i \in k.then.chats
      BY <1>3, <2>2 DEF Brings, WaitsFor
    <3>4. AppBrings(i)'
      BY <1>1, <2>2, <3>2, <3>3 DEF AppBrings, AppIs, Brings
    <3> QED BY <3>4 DEF OnItsWay
  <2>3. CASE ~ Brings(m, i)
    BY <1>2, <1>9, <1>15, <2>1, <2>3 DEF OnItsWay
  <2> QED BY <2>2, <2>3
<1>16. \A ch : Joining(ch) => ch \in AllChannels
  BY JoiningType DEF Solo
<1>17. Delivery'
  BY <1>1, <1>2, <1>9, <1>11, <1>12, <1>15, <1>16, DeliveryKept DEF Solo
<1> QED BY <1>2, <1>10, <1>14, <1>17 DEF SoloAfter

-----------------------------------------------------------------------------
(* The bodies of the handlers.                                             *)

(* A body that changes neither the session nor the channel. *)
PlainBody ==
  /\ app' = Idle /\ ~ AppIs("authenticate") /\ ~ AppIs("join") /\ ~ AppLoadsJoined
  /\ UNCHANGED <<connection_id, inbox, session, joined, chats, older, user, channel_name>>
  /\ users_cache \subseteq users_cache'

(* The changes under way stay, and everybody waits for what they did. *)
PlainAfter ==
  /\ CallsInOrder' /\ OneChange' /\ Agreement'
  /\ Received' = Received /\ Queued \subseteq Queued'
  /\ LoggingOut' <=> LoggingOut
  /\ \A ch : Joining(ch) => Joining(ch)'
  /\ \A m \in InTransit : \A i : WaitsFor(m, i) => WaitsFor(m, i)'

LEMMA IdleAfter ==
  ASSUME app' = Idle
  PROVE  /\ ~ AppIs("authenticate")' /\ ~ AppIs("join")' /\ ~ AppIs("chat")'
         /\ ~ AppLoadsJoined' /\ ~ AppChangesSession'
BY DEF AppChangesSession, AppIs, AppLoadsJoined, Idle

LEMMA PlainSession ==
  ASSUME Solo, PlainBody, CallsInOrder', NEW R, Received' = Received, Queued' = Queued \cup R,
         \A m \in InTransit : LoadsJoined(m)' <=> LoadsJoined(m),
         \A r \in R : ~ ChangesSession(r)',
         \A m \in InTransit : \A i : WaitsFor(m, i) => WaitsFor(m, i)'
  PROVE  PlainAfter
<1>1. \A m \in InTransit : ChangesSession(m)' <=> ChangesSession(m)
  BY DEF ChangesSession
<1>2. OneChange' /\ Agreement'
  <2>1. \A m : m \in Received' /\ ChangesSession(m)' <=> m \in Received /\ ChangesSession(m)
    BY <1>1 DEF InTransit
  <2>2. ~ AppChangesSession'
    BY IdleAfter DEF PlainBody
  <2>3. CASE \A r : r \in Queued' /\ ChangesSession(r)' <=> r \in Queued /\ ChangesSession(r)
    BY <2>1, <2>2, <2>3, SessionUntouched DEF Solo, PlainBody
  <2>4. \A r : r \in Queued' /\ ChangesSession(r)' <=> r \in Queued /\ ChangesSession(r)
    BY <1>1 DEF InTransit
  <2> QED BY <2>3, <2>4
<1>3. LoggingOut' <=> LoggingOut
  <2>1. \A r \in R : r.kind # "logout"
    BY DEF ChangesSession
  <2> QED BY <2>1 DEF LoggingOut
<1>4. \A ch : Joining(ch) => Joining(ch)'
  BY DEF Joining, PlainBody, InTransit
<1> QED BY <1>2, <1>3, <1>4 DEF PlainAfter

LEMMA PlainQuietly ==
  ASSUME Solo, PlainBody, UNCHANGED callVars
  PROVE  PlainAfter
<1>1. Received' = Received /\ Queued' = Queued \cup {} /\ UNCHANGED <<calls, requests>>
  BY DEF PlainBody, Received, Queued, callVars
<1>2. CallsInOrder'
  BY <1>1 DEF Solo, Attached, CallsInOrder, PlainBody, InTransit
<1>3. \A m : (LoadsJoined(m)' <=> LoadsJoined(m)) /\ \A i : WaitsFor(m, i) => WaitsFor(m, i)'
  BY <1>1 DEF LoadsJoined, WaitsFor
<1>4. PICK R : R = {}
  OBVIOUS
<1>5. Queued' = Queued \cup R /\ \A r \in R : ~ ChangesSession(r)'
  BY <1>1, <1>4
<1> QED BY <1>1, <1>2, <1>3, <1>5, PlainSession

LEMMA PlainCall ==
  ASSUME Solo, PlainBody, NEW kind \in {"users", "channel"}, NEW arg, NEW then, then.to # "joined" \/ kind = "users",
         NEW r \in Requests, r = [kind |-> kind, arg |-> arg, call |-> next_call],
         Call(connection_id, kind, arg, then)
  PROVE  PlainAfter /\ r \in Queued' /\ \A i : WaitsFor(r, i)' <=> i \in then.chats
<1>1. /\ Received' = Received /\ Queued' = Queued \cup {r} /\ CallsInOrder'
      /\ \A m \in InTransit : LoadsJoined(m)' <=> LoadsJoined(m)
      /\ \A m \in InTransit : \A i : WaitsFor(m, i)' <=> WaitsFor(m, i)
      /\ LoadsJoined(r)' <=> kind = "channel" /\ then.to = "joined"
      /\ \A i : WaitsFor(r, i)' <=> i \in then.chats
  BY CallMade DEF Solo, PlainBody
<1>2. ~ ChangesSession(r)'
  BY <1>1 DEF ChangesSession
<1>3. PICK R : R = {r}
  OBVIOUS
<1>4. Queued' = Queued \cup R /\ \A q \in R : ~ ChangesSession(q)'
  BY <1>1, <1>2, <1>3
<1>5. PlainAfter
  BY <1>1, <1>4, PlainSession
<1> QED BY <1>1, <1>5

(* Such a body keeps the invariant if it goes on with the chats it was for. *)
LEMMA PlainDelivery ==
  ASSUME Solo, PlainBody, PlainAfter, shown \subseteq shown',
         \A i \in DOMAIN chats : AppBrings(i) => i \in shown' \/ OnItsWay(i)'
  PROVE  SoloAfter
<1>1. \A i : OnItsWay(i) => OnItsWay(i)' \/ AppBrings(i)
  BY WayKept DEF PlainBody, PlainAfter
<1>2. ~ AppIs("chat")'
  BY IdleAfter DEF PlainBody
<1>3. Delivery'
  BY <1>1, <1>2, DeliveryKept DEF Solo, PlainBody, PlainAfter
<1> QED BY <1>3 DEF SoloAfter, PlainAfter

LEMMA SoloLoadUsers ==
  ASSUME Solo, PlainBody, NEW ids \in SUBSET Users, NEW then, LoadUsers(connection_id, ids, then),
         \A i \in DOMAIN chats : AppBrings(i) => i \in then.chats /\ chats[i].user \in ids
  PROVE  SoloAfter
<1>1. CASE ids \subseteq users_cache
  <2>1. UNCHANGED callVars /\ shown' = shown \cup {i \in then.chats : chats[i].user \in users_cache}
    BY <1>1 DEF LoadUsers, ProcessChatMessages
  <2>2. \A i \in DOMAIN chats : AppBrings(i) => i \in shown'
    BY <1>1, <2>1
  <2> QED BY <2>1, <2>2, PlainQuietly, PlainDelivery
<1>2. CASE ~ (ids \subseteq users_cache)
  <2>1. Call(connection_id, "users", ids \ users_cache, then) /\ UNCHANGED shown
    BY <1>2 DEF LoadUsers
  <2>2. PICK r : r = [kind |-> "users", arg |-> ids \ users_cache, call |-> next_call]
    OBVIOUS
  <2>3. r \in Requests
    <3>1. next_call \in Nat \ {0}
      BY AttachedFacts DEF Solo
    <3> QED BY <2>2, <3>1 DEF Requests, RequestsWith
  <2>4. PlainAfter /\ r \in Queued' /\ \A i : WaitsFor(r, i)' <=> i \in then.chats
    BY <2>1, <2>2, <2>3, PlainCall
  <2>5. ASSUME NEW i \in DOMAIN chats, AppBrings(i) PROVE OnItsWay(i)'
    <3>1. r.kind = "users" /\ chats'[i].user \in users_cache' \cup r.arg
      BY <2>2, <2>5 DEF PlainBody
    <3>2. AsksFor(r, i)'
      BY <2>4, <2>5, <3>1 DEF AsksFor
    <3> QED BY <2>4, <3>2 DEF OnItsWay
  <2> QED BY <2>1, <2>4, <2>5, PlainDelivery
<1> QED BY <1>1, <1>2

(* The user that logged in is the one the server has. *)
LEMMA SoloAuthenticated ==
  ASSUME Solo, TypeOK', Act, OnAuthenticated(app)
  PROVE  SoloAfter
<1>1. /\ app' = Idle /\ UNCHANGED <<connection_id, inbox, session, joined, chats, channel_name, calls, requests>>
      /\ AppIs("authenticate") /\ user' = app.data
  BY DEF Act, OnAuthenticated, Quietly, uiVars, serverVars, callVars, AppIs
<1>2. app.data \in Users
  BY <1>1, HandlerFacts DEF Solo, Attached, TypeOK, AppOK, AppIs, Idle
<1>3. \A m \in InTransit : ~ ChangesSession(m) /\ ~ ChangesSession(m)'
  BY <1>1 DEF Solo, OneChange, AppChangesSession, ChangesSession, LoadsJoined
<1>4. Received' = Received /\ Queued' = Queued /\ InTransit' = InTransit
  BY <1>1 DEF Received, Queued, InTransit
<1>5. CallsInOrder'
  BY <1>1, <1>4 DEF Solo, Attached, CallsInOrder
<1>6. /\ ~ LoggingOut' /\ (\A u : ~ LoggingIn(u)') /\ (\A ch : ~ Joining(ch)')
      /\ ~ LoggingOut /\ (\A ch : ~ Joining(ch)) /\ LoggingIn(app.data)
  <2>1. ~ LoggingOut /\ ~ LoggingOut'
    BY <1>3, <1>4 DEF LoggingOut, InTransit, ChangesSession
  <2>2. \A u : ~ LoggingIn(u)'
    BY <1>1, <1>3, <1>4, IdleAfter DEF LoggingIn, InTransit, ChangesSession
  <2>3. \A ch : ~ Joining(ch)'
    BY <1>1, <1>3, <1>4, IdleAfter DEF Joining, InTransit, ChangesSession
  <2>4. \A ch : ~ Joining(ch)
    BY <1>1, <1>3 DEF Joining, InTransit, ChangesSession, AppIs, AppLoadsJoined
  <2>5. LoggingIn(app.data)
    BY <1>1 DEF LoggingIn
  <2> QED BY <2>1, <2>2, <2>3, <2>4, <2>5
<1>7. session[connection_id] = app.data /\ joined[connection_id] = None /\ channel_name = None
  BY <1>2, <1>6 DEF Solo, Agreement
<1>8. OneChange'
  BY <1>1, <1>3, <1>4, IdleAfter DEF OneChange
<1>9. Agreement'
  BY <1>1, <1>6, <1>7 DEF Agreement
<1>10. Delivery'
  <2>1. \A m \in Received' : m.kind = "chat" => m.user = chats'[m.data].user
    BY <1>1, <1>4 DEF Solo, Delivery
  <2>2. ~ AppIs("chat")'
    BY <1>1, IdleAfter
  <2> QED BY <1>1, <1>7, <2>1, <2>2, NoChannel
<1> QED BY <1>5, <1>8, <1>9, <1>10 DEF SoloAfter

(* While a join is being finished, nothing else changes the session. *)
LEMMA FinishingJoin ==
  ASSUME Solo, AppIs("join") \/ AppLoadsJoined
  PROVE  /\ app.data \in AllChannels /\ joined[connection_id] = app.data /\ user = session[connection_id]
         /\ ValidateSession /\ ~ LoggingOut
         /\ \A u : ~ LoggingIn(u)
         /\ \A ch : Joining(ch) <=> ch = app.data
         /\ \A m \in InTransit : ~ ChangesSession(m)
         /\ \A i : ~ AppBrings(i)
<1>1. \A m \in InTransit : ~ ChangesSession(m)
  BY DEF Solo, OneChange, AppChangesSession
<1>2. Joining(app.data) /\ app.data \in AllChannels
  BY JoiningType DEF Joining, Solo
<1>3. joined[connection_id] = app.data
  BY <1>2 DEF Solo, Agreement
<1>4. ~ LoggingOut /\ \A u : ~ LoggingIn(u)
  BY <1>1 DEF LoggingOut, LoggingIn, InTransit, ChangesSession, AppIs, AppLoadsJoined
<1>5. \A ch : Joining(ch) <=> ch = app.data
  BY <1>1, <1>2 DEF Joining, InTransit, ChangesSession
<1>6. \A i : ~ AppBrings(i)
  BY DEF AppBrings, AppIs, AppLoadsJoined
<1>7. ValidateSession
  BY <1>2, <1>3, <1>4, InSession, Distinct
<1>8. user = session[connection_id]
  BY <1>4 DEF Solo, Agreement
<1> QED BY <1>1, <1>2, <1>3, <1>4, <1>5, <1>6, <1>7, <1>8

(* The channel is put in the prompt and its log requested. *)
LEMMA SoloShowsChannel ==
  ASSUME Solo, Act, AppIs("join") \/ AppLoadsJoined, NEW then, then.to = "joined",
         ChannelLoaded(app.data, then), UNCHANGED <<user, users_cache>>
  PROVE  SoloAfter
<1>1. /\ app' = Idle /\ UNCHANGED <<connection_id, inbox, session, joined, chats, older, shown>>
      /\ channel_name' = app.data /\ Call(connection_id, "chats", app.data, Nothing)
  BY FinishingJoin DEF Act, ChannelLoaded, SetChannelName, LoadLatestChatLog, uiVars, serverVars
<1>2. PICK r : r = [kind |-> "chats", arg |-> app.data, call |-> next_call]
  OBVIOUS
<1>3. r \in Requests /\ r.kind = "chats" /\ r.arg = app.data
  <2>1. next_call \in Nat \ {0}
    BY AttachedFacts DEF Solo
  <2> QED BY <1>2, <2>1, FinishingJoin DEF Requests, RequestsWith
<1>4. /\ Received' = Received /\ Queued' = Queued \cup {r} /\ CallsInOrder'
      /\ \A m \in InTransit : LoadsJoined(m)' <=> LoadsJoined(m)
      /\ \A m \in InTransit : \A i : WaitsFor(m, i)' <=> WaitsFor(m, i)
  BY <1>1, <1>2, <1>3, CallMade DEF Solo
<1>5. \A m \in InTransit' : ~ ChangesSession(m)'
  <2>1. ~ ChangesSession(r)'
    BY <1>3 DEF ChangesSession, LoadsJoined
  <2>2. \A m \in InTransit : ~ ChangesSession(m)'
    BY <1>4, FinishingJoin DEF ChangesSession
  <2> QED BY <1>4, <2>1, <2>2 DEF InTransit
<1>6. ~ LoggingOut' /\ (\A u : ~ LoggingIn(u)') /\ (\A ch : ~ Joining(ch)')
  <2>1. ~ LoggingOut'
    BY <1>5 DEF LoggingOut, InTransit, ChangesSession
  <2>2. \A u : ~ LoggingIn(u)'
    BY <1>1, <1>5, IdleAfter DEF LoggingIn, InTransit, ChangesSession
  <2>3. \A ch : ~ Joining(ch)'
    BY <1>1, <1>5, IdleAfter DEF Joining, InTransit, ChangesSession
  <2> QED BY <2>1, <2>2, <2>3
<1>7. OneChange'
  BY <1>5 DEF OneChange
<1>8. Agreement'
  <2>1. session[connection_id] = None => joined[connection_id] = None
    BY DEF Solo, Agreement
  <2> QED BY <1>1, <1>6, <2>1, FinishingJoin DEF Agreement
<1>9. Delivery'
  <2>1. \A i : OnItsWay(i) => OnItsWay(i)'
    <3>1. \A i : OnItsWay(i) => OnItsWay(i)' \/ AppBrings(i)
      BY <1>1, <1>4, WayKept
    <3> QED BY <3>1, FinishingJoin
  <2>2. \A ch : Joining(ch) => \E q \in Queued' : q.kind = "chats" /\ q.arg = ch
    BY <1>3, <1>4, FinishingJoin
  <2>3. ~ AppIs("chat")'
    BY <1>1, IdleAfter
  <2> QED BY <1>1, <1>4, <1>6, <2>1, <2>2, <2>3, FinishingJoin, DeliveryKept DEF Solo
<1> QED BY <1>4, <1>7, <1>8, <1>9 DEF SoloAfter

(* The channel is not known yet: it is loaded first. *)
LEMMA SoloLoadsChannel ==
  ASSUME Solo, Act, AppIs("join"), NEW then, then.to = "joined",
         Call(connection_id, "channel", app.data, then), UNCHANGED <<user, channel_name, users_cache, shown>>
  PROVE  SoloAfter
<1>1. app' = Idle /\ UNCHANGED <<connection_id, inbox, session, joined, chats, older>>
  BY DEF Act, uiVars, serverVars
<1>2. PICK r : r = [kind |-> "channel", arg |-> app.data, call |-> next_call]
  OBVIOUS
<1>3. r \in Requests /\ r.kind = "channel" /\ r.arg = app.data
  <2>1. next_call \in Nat \ {0}
    BY AttachedFacts DEF Solo
  <2> QED BY <1>2, <2>1, FinishingJoin DEF Requests, RequestsWith
<1>4. /\ Received' = Received /\ Queued' = Queued \cup {r} /\ CallsInOrder'
      /\ \A m \in InTransit : LoadsJoined(m)' <=> LoadsJoined(m)
      /\ \A m \in InTransit : \A i : WaitsFor(m, i)' <=> WaitsFor(m, i)
      /\ LoadsJoined(r)'
  BY <1>1, <1>2, <1>3, CallMade DEF Solo
<1>5. \A m \in InTransit : ~ ChangesSession(m)'
  BY <1>4, FinishingJoin DEF ChangesSession
<1>6. \A m \in InTransit' : ChangesSession(m)' => m = r
  BY <1>4, <1>5 DEF InTransit
<1>7. OneChange'
  BY <1>1, <1>6, IdleAfter DEF OneChange
<1>8. ~ LoggingOut' /\ (\A u : ~ LoggingIn(u)') /\ (\A ch : Joining(ch)' <=> ch = app.data)
  <2>1. ~ LoggingOut'
    BY <1>3, <1>4, FinishingJoin DEF LoggingOut
  <2>2. \A m \in Received' : ~ ChangesSession(m)'
    BY <1>4, <1>5 DEF InTransit
  <2>3. \A u : ~ LoggingIn(u)'
    BY <1>1, <2>2, IdleAfter DEF LoggingIn, ChangesSession
  <2>4. \A q \in Queued' : LoadsJoined(q)' <=> q = r
    BY <1>4, <1>5 DEF InTransit, ChangesSession
  <2>5. \A ch : Joining(ch)' <=> ch = app.data
    BY <1>1, <1>3, <1>4, <2>2, <2>4, IdleAfter DEF Joining, ChangesSession
  <2> QED BY <2>1, <2>3, <2>5
<1>9. Agreement'
  BY <1>1, <1>8, FinishingJoin, AgreementKept DEF Solo
<1>10. Delivery'
  <2>1. \A i : OnItsWay(i) => OnItsWay(i)'
    <3>1. \A i : OnItsWay(i) => OnItsWay(i)' \/ AppBrings(i)
      BY <1>1, <1>4, WayKept
    <3> QED BY <3>1, FinishingJoin
  <2>2. ~ AppIs("chat")'
    BY <1>1, IdleAfter
  <2> QED BY <1>1, <1>4, <1>8, <2>1, <2>2, FinishingJoin, DeliveryKept DEF Solo
<1> QED BY <1>4, <1>7, <1>9, <1>10 DEF SoloAfter

(* The members' events and the handlers that show chats or only cache. *)
LEMMA SoloMember ==
  ASSUME Solo, PlainBody, \A i : ~ AppBrings(i), NEW ch, NEW then, then.to = "member", then.user \in Users,
         ChannelLoaded(ch, then)
  PROVE  SoloAfter
<1>1. CASE ValidateSession /\ LoadUser(connection_id, then.user, Nothing)
  <2>1. LoadUsers(connection_id, {then.user}, Nothing) /\ {then.user} \in SUBSET Users
    BY <1>1 DEF LoadUser
  <2> QED BY <2>1, SoloLoadUsers
<1>2. CASE UNCHANGED <<callVars, shown, null_user>>
  BY <1>2, PlainQuietly, PlainDelivery
<1> QED BY <1>1, <1>2 DEF ChannelLoaded

LEMMA SoloAct ==
  ASSUME Solo, TypeOK', Act
  PROVE  SoloAfter
<1>1. /\ app' = Idle /\ UNCHANGED <<connection_id, inbox, session, joined, chats, older>>
      /\ app \in Handlers /\ TypeOK
  BY DEF Act, uiVars, serverVars, Solo, Attached, TypeOK, AppOK
<1>2. ASSUME UNCHANGED <<user, channel_name>>, users_cache \subseteq users_cache',
             app.kind \notin {"authenticate", "join", "channel"}
      PROVE  PlainBody
  BY <1>1, <1>2 DEF PlainBody, AppIs, AppLoadsJoined
<1>3. app.kind \notin {"chat", "chats", "users"} => \A i : ~ AppBrings(i)
  BY DEF AppBrings, AppIs
<1>4. CASE OnAuthenticated(app)
  BY <1>4, SoloAuthenticated
<1>5. CASE OnUserCreated(app) \/ OnLoggedOut(app) \/ OnChannels(app)
  <2>1. /\ PlainBody /\ UNCHANGED <<callVars, shown>>
        /\ app.kind \notin {"chat", "chats", "users"}
    BY <1>2, <1>5 DEF OnUserCreated, OnLoggedOut, OnChannels, CacheUsers, Quietly, cacheVars
  <2> QED BY <1>3, <2>1, PlainQuietly, PlainDelivery
<1>6. CASE OnJoined(app)
  <2>1. PICK then : then = Then("joined", None, {}, 0)
    OBVIOUS
  <2>2. then.to = "joined" /\ AppIs("join") /\ UNCHANGED <<user, users_cache>>
    BY <1>6, <2>1 DEF Then, OnJoined, AppIs, cacheVars
  <2>3. CASE ChannelLoaded(app.data, then)
    BY <2>2, <2>3, SoloShowsChannel
  <2>4. CASE Call(connection_id, "channel", app.data, then) /\ UNCHANGED <<channel_name, shown>>
    BY <2>2, <2>4, SoloLoadsChannel
  <2> QED BY <1>6, <2>1, <2>3, <2>4 DEF OnJoined, LoadChannel
<1>7. CASE OnChannel(app)
  <2>1. /\ app.kind = "channel" /\ ChannelLoaded(app.data, app.then) /\ UNCHANGED <<user, users_cache>>
        /\ app.then \in Continuation
    BY <1>1, <1>7, HandlerFacts DEF OnChannel, AnswerKinds
  <2>2. CASE app.then.to = "joined"
    <3>1. AppLoadsJoined
      BY <2>1, <2>2 DEF AppLoadsJoined
    <3> QED BY <2>1, <2>2, <3>1, SoloShowsChannel
  <2>3. CASE app.then.to = "member"
    <3>1. app.then.user \in Users
      BY <2>1, <2>3, ContinuationFacts
    <3>2. UNCHANGED channel_name
      BY <2>1, <2>3 DEF ChannelLoaded
    <3>3. PlainBody
      BY <1>1, <2>1, <2>3, <3>2 DEF PlainBody, AppIs, AppLoadsJoined
    <3> QED BY <1>3, <2>1, <2>3, <3>1, <3>3, SoloMember
  <2> QED BY <2>1, <2>2, <2>3 DEF ChannelLoaded
<1>8. CASE OnChats(app)
  <2>1. PlainBody /\ app.kind = "chats" /\ app.data \subseteq ChatIds
    BY <1>1, <1>2, <1>8, HandlerFacts DEF OnChats, cacheVars
  <2>2. PICK ids, then : /\ ids = {chats[i].user : i \in app.data}
                         /\ then = Then("chat", None, app.data, app.at)
    OBVIOUS
  <2>3. LoadUsers(connection_id, ids, then)
    BY <1>8, <2>2 DEF OnChats
  <2>4. ids \in SUBSET Users
    <3>1. \A i \in ChatIds : i \in DOMAIN chats
      BY <1>1 DEF ChatIds, TypeOK, ServerOK
    <3> QED BY <1>1, <2>1, <2>2, <3>1, ChatTypes
  <2>5. \A i \in DOMAIN chats : AppBrings(i) => i \in then.chats /\ chats[i].user \in ids
    BY <2>1, <2>2 DEF AppBrings, AppIs, Then
  <2> QED BY <2>1, <2>3, <2>4, <2>5, SoloLoadUsers
<1>9. CASE OnUsers(app)
  <2>1. /\ app.kind = "users" /\ UNCHANGED <<callVars, user, channel_name>>
        /\ users_cache' = users_cache \cup app.data
        /\ shown' = shown \cup {i \in app.then.chats : chats[i].user \in users_cache'}
    BY <1>9 DEF OnUsers, CacheUsers, ProcessChatMessages
  <2>2. PlainBody
    BY <1>2, <2>1
  <2>3. \A i \in DOMAIN chats : AppBrings(i) => i \in shown'
    BY <2>1 DEF AppBrings, AppIs
  <2> QED BY <2>1, <2>2, <2>3, PlainQuietly, PlainDelivery
<1>10. CASE HandlePresenceEvent(app) \/ HandleChannelCreateEvent(app)
  <2>1. /\ PlainBody /\ app.kind \in {"presence", "created"}
        /\ LoadUsers(connection_id, {app.user}, Nothing)
    BY <1>2, <1>10 DEF HandlePresenceEvent, HandleChannelCreateEvent, LoadUser, cacheVars
  <2>2. {app.user} \in SUBSET Users
    BY <1>1, <2>1, HandlerFacts DEF AnswerKinds
  <2> QED BY <1>3, <2>1, <2>2, SoloLoadUsers
<1>11. CASE HandleReceiveChatEvent(app)
  <2>1. PlainBody /\ app.kind = "chat" /\ app.user = chats[app.data].user
    BY <1>2, <1>11 DEF HandleReceiveChatEvent, cacheVars, Solo, Delivery, AppIs
  <2>2. PICK ids, then : ids = {app.user} /\ then = Then("chat", None, {app.data}, app.at)
    OBVIOUS
  <2>3. LoadUsers(connection_id, ids, then)
    BY <1>11, <2>2 DEF HandleReceiveChatEvent, LoadUser
  <2>4. ids \in SUBSET Users
    BY <1>1, <2>1, <2>2, HandlerFacts DEF AnswerKinds
  <2>5. \A i \in DOMAIN chats : AppBrings(i) => i \in then.chats /\ chats[i].user \in ids
    BY <2>1, <2>2 DEF AppBrings, AppIs, Then
  <2> QED BY <2>1, <2>3, <2>4, <2>5, SoloLoadUsers
<1>12. CASE HandleMemberEvent(app)
  <2>1. app.kind = "member" /\ UNCHANGED <<user, users_cache>> /\ app.user \in Users /\ app.data \in AllChannels
    BY <1>1, <1>12, HandlerFacts DEF HandleMemberEvent, cacheVars, AnswerKinds
  <2>2. PICK then : then = Then("member", app.user, {}, 0)
    OBVIOUS
  <2>3. then.to = "member" /\ then.user = app.user
    BY <2>2 DEF Then
  <2>4. CASE ChannelLoaded(app.data, then)
    <3>1. UNCHANGED channel_name
      BY <2>3, <2>4 DEF ChannelLoaded
    <3>2. PlainBody
      BY <1>2, <2>1, <3>1
    <3> QED BY <1>3, <2>1, <2>3, <2>4, <3>2, SoloMember
  <2>5. CASE Call(connection_id, "channel", app.data, then) /\ UNCHANGED <<channel_name, shown>>
    <3>1. PlainBody
      BY <1>2, <2>1, <2>5
    <3>2. PICK r : r = [kind |-> "channel", arg |-> app.data, call |-> next_call]
      OBVIOUS
    <3>3. r \in Requests
      <4>1. next_call \in Nat \ {0}
        BY AttachedFacts DEF Solo
      <4> QED BY <2>1, <3>2, <4>1 DEF Requests, RequestsWith
    <3>4. PlainAfter
      BY <2>3, <2>5, <3>1, <3>2, <3>3, PlainCall
    <3> QED BY <1>3, <2>1, <2>5, <3>1, <3>4, PlainDelivery
  <2> QED BY <1>12, <2>2, <2>4, <2>5 DEF HandleMemberEvent, LoadChannel
<1> QED BY <1>4, <1>5, <1>6, <1>7, <1>8, <1>9, <1>10, <1>11, <1>12 DEF Act

-----------------------------------------------------------------------------
(* The steps of the client, the connection and the server put together.    *)

LEMMA SoloServe ==
  ASSUME Solo, TypeOK', NEW c \in Conns, Serve(c)
  PROVE  SoloAfter
<1>1. PICK r : r = Head(requests[c])
  OBVIOUS
<1>2. \/ \E match \in BOOLEAN : ServeAuthenticate(c, r, match)
      \/ ServeCreateUser(r) \/ ServeUnauthorized(c, r) \/ ServeLogout(c, r) \/ ServeJoin(c, r)
      \/ ServeWrite(c, r) \/ ServeCreateChannel(c, r) \/ ServeQuery(c, r)
  BY <1>1 DEF Serve
<1> QED BY <1>1, <1>2, SoloAuthenticate, SoloCreateUser, SoloUnauthorized, SoloLogout, SoloJoin,
           SoloWrite, SoloCreateChannel, SoloQuery

LEMMA SoloStutter ==
  ASSUME Solo,
         UNCHANGED <<connection_id, user, channel_name, users_cache, calls, app, inbox, requests,
                     session, joined, chats, older, shown>>
  PROVE  SoloAfter
<1>1. Received' = Received /\ Queued' = Queued /\ InTransit' = InTransit
  BY DEF Received, Queued, InTransit
<1>2. \A m : LoadsJoined(m)' <=> LoadsJoined(m)
  BY DEF LoadsJoined
<1>3. \A m : \A i : WaitsFor(m, i)' <=> WaitsFor(m, i)
  BY DEF WaitsFor
<1>4. CallsInOrder'
  BY <1>1 DEF Solo, Attached, CallsInOrder
<1>5. OneChange' /\ Agreement'
  BY <1>1, <1>2, SessionUntouched DEF Solo, ChangesSession
<1>6. Delivery'
  <2>1. \A i : OnItsWay(i) => OnItsWay(i)'
    BY <1>1, <1>3 DEF OnItsWay, Brings, AsksFor, AppBrings, AppIs
  <2>2. \A ch : Joining(ch) => Joining(ch)'
    BY <1>1, JoiningKept
  <2>3. LoggingOut' <=> LoggingOut
    BY <1>1 DEF LoggingOut
  <2> QED BY <1>1, <2>1, <2>2, <2>3, DeliveryKept DEF Solo
<1> QED BY <1>4, <1>5, <1>6 DEF SoloAfter

LEMMA SoloInput ==
  ASSUME Solo, NEW args \in Args, HandleInput(args), ~ Busy
  PROVE  SoloAfter
<1>1. /\ calls = {} /\ app = Idle /\ next_call \in Nat \ {0}
      /\ UNCHANGED <<connection_id, users_cache, app, inbox, session, joined, chats, older, shown>>
  BY AttachedFacts DEF Busy, HandleInput, Typed, serverVars, cacheVars, Solo
<1>2. CASE Send
  BY <1>1, <1>2, SoloSend
<1>3. CASE LogoutCommand
  BY <1>1, <1>3, SoloLogoutCommand DEF LogoutCommand
<1>4. CASE ConnectCommand(args)
  BY <1>1, <1>4, SoloStutter DEF ConnectCommand, Connect, KeepsSession, callVars
<1>5. ASSUME NEW kind \in {"authenticate", "createUser", "channels", "create", "join"}, NEW arg, KeepsSession,
             [kind |-> kind, arg |-> arg, call |-> next_call] \in Requests,
             Call(connection_id, kind, arg, Nothing)
      PROVE  SoloAfter
  <2>1. UNCHANGED <<user, channel_name>>
    BY <1>5 DEF KeepsSession
  <2> QED BY <1>1, <1>5, <2>1, SoloCommand
<1>6. CASE LoginCommand(args)
  <2>1. args[1] \in Users
    BY <1>6, LoginName
  <2>2. [kind |-> "authenticate", arg |-> args[1], call |-> next_call] \in Requests
    BY <1>1, <2>1 DEF Requests, RequestsWith
  <2> QED BY <1>5, <1>6, <2>2 DEF LoginCommand, Login
<1>7. CASE AddUserCommand(args)
  <2>1. [kind |-> "createUser", arg |-> Me, call |-> next_call] \in Requests
    BY <1>1 DEF Requests, RequestsWith, Users
  <2> QED BY <1>5, <1>7, <2>1 DEF AddUserCommand, AddUser
<1>8. CASE JoinChannelCommand(args)
  <2>1. args[1] \in AllChannels
    BY <1>8 DEF JoinChannelCommand
  <2>2. [kind |-> "join", arg |-> args[1], call |-> next_call] \in Requests
    BY <1>1, <2>1 DEF Requests, RequestsWith
  <2> QED BY <1>5, <1>8, <2>2 DEF JoinChannelCommand, JoinChannel
<1>9. CASE AddChannelCommand(args)
  <2>1. [kind |-> "create", arg |-> NewChannel, call |-> next_call] \in Requests
    BY <1>1 DEF Requests, RequestsWith, AllChannels
  <2> QED BY <1>5, <1>9, <2>1 DEF AddChannelCommand, CreateChannel
<1>10. CASE GetChannelsCommand
  <2>1. [kind |-> "channels", arg |-> None, call |-> next_call] \in Requests
    BY <1>1 DEF Requests, RequestsWith
  <2> QED BY <1>5, <1>10, <2>1 DEF GetChannelsCommand, GetChannels
<1> QED BY <1>2, <1>3, <1>4, <1>6, <1>7, <1>8, <1>9, <1>10 DEF HandleInput, Execute

(* Nothing is sent on a connection that is not the client's. *)
LEMMA OthersUntouched ==
  ASSUME TypeOK, OneConnection, CallsAtMostOnce \/ SendsChat
  PROVE  \A d \in Conns : d # connection_id => requests'[d] = requests[d]
<1>1. open \subseteq {connection_id} /\ requests \in [Conns -> Seq(Requests)]
  BY DEF OneConnection, TypeOK, CallsOK
<1>2. CASE CallsOnce
  <2>1. PICK conn, r : requests' = IF conn \notin open THEN requests
                                   ELSE [requests EXCEPT ![conn] = Append(@, r)]
    BY <1>2 DEF CallsOnce, Call
  <2> QED BY <1>1, <2>1
<1>3. CASE UNCHANGED callVars
  BY <1>3 DEF callVars
<1>4. CASE SendsChat
  BY <1>1, <1>4 DEF SendsChat
<1> QED BY <1>2, <1>3, <1>4 DEF CallsAtMostOnce

(* The same connection, and nothing of another. *)
LEMMA ConnectionKept ==
  ASSUME OneConnection, connection_id # None, UNCHANGED <<open, connection_id>>,
         \A d \in Conns : d # connection_id =>
           requests'[d] = requests[d] /\ session'[d] = session[d] /\ joined'[d] = joined[d]
  PROVE  OneConnection'
BY DEF OneConnection, Conns

LEMMA ConnectionStep ==
  ASSUME TypeOK, OriginInv, OneConnection, connection_id # None, CallsInOrder, [Next]_vars,
         UNCHANGED connection_id, ~ overlapped'
  PROVE  OneConnection'
<1> USE DEF Attached
<1>1. CASE \E args \in Args : HandleInput(args)
  <2>1. CommandSteps /\ UNCHANGED <<open, session, joined>>
    BY <1>1, CommandShape DEF HandleInput, Typed, serverVars
  <2> QED BY <2>1, OthersUntouched, ConnectionKept DEF CommandSteps
<1>2. CASE Act
  <2>1. HandlerSteps /\ UNCHANGED <<open, session, joined>>
    BY <1>2, HandlerShape DEF Act, uiVars, serverVars
  <2> QED BY <2>1, OthersUntouched, ConnectionKept DEF HandlerSteps
<1>3. CASE TakeMessage \/ OtherActs \/ OnConnectionFailed \/ UNCHANGED vars
  <2>1. UNCHANGED <<open, requests, session, joined>>
    BY <1>3 DEF TakeMessage, OtherActs, OnConnectionFailed, vars, uiVars, callVars, serverVars
  <2> QED BY <2>1, ConnectionKept
<1>4. CASE \E c \in Conns : Serve(c)
  <2>1. PICK c \in Conns : Serve(c)
    BY <1>4
  <2>2. PICK r : r = Head(requests[c])
    OBVIOUS
  <2>3. c = connection_id /\ UNCHANGED open /\ \A d \in Conns : d # connection_id => requests'[d] = requests[d]
    BY <2>1, <2>2, RequestServed
  <2>4. session \in [Conns -> Users \cup {None}] /\ joined \in [Conns -> AllChannels \cup {None}]
    BY DEF TypeOK, ServerOK
  <2>5. \A d \in Conns : d # c => session'[d] = session[d] /\ joined'[d] = joined[d]
    BY <2>1, <2>4 DEF Serve, ServeAuthenticate, ServeCreateUser, ServeUnauthorized, ServeLogout, ServeJoin,
       ServeWrite, ServeCreateChannel, ServeQuery
  <2> QED BY <2>3, <2>5, ConnectionKept
<1>5. CASE OnConnected
  BY <1>5 DEF OnConnected
<1>6. CASE \E c \in Conns : Lose(c)
  BY <1>6 DEF Lose, OnDisconnected
<1>7. CASE \E k \in calls : Timeout(k)
  BY <1>7 DEF Timeout
<1> QED BY <1>1, <1>2, <1>3, <1>4, <1>5, <1>6, <1>7 DEF Next

(* A connection is made: nothing is left of an earlier one. *)
LEMMA SoloConnected ==
  ASSUME TypeOK, TypeOK', OneConnection, OnConnected, connection_id = None
  PROVE  OneConnection' /\ SoloAfter
<1>1. /\ open = {} /\ calls = {} /\ app = Idle /\ inbox = <<>> /\ user = None /\ channel_name = None
      /\ \A c \in Conns : session[c] = None /\ joined[c] = None /\ requests[c] = <<>>
  BY Distinct DEF OneConnection, Busy
<1>2. /\ connection_id' = conns + 1 /\ open' = open \cup {conns + 1}
      /\ UNCHANGED <<user, channel_name, calls, app, inbox, requests, session, joined, chats>>
  BY DEF OnConnected, callVars, serverVars
<1>3. connection_id' \in Conns /\ connection_id' # None
  <2>1. open' \subseteq Conns
    BY DEF TypeOK, UiOK, Conns
  <2> QED BY <1>2, <2>1, Distinct
<1>4. OneConnection'
  BY <1>1, <1>2, <1>3 DEF OneConnection
<1>5. inbox' = <<>> /\ requests'[connection_id'] = <<>>
  BY <1>1, <1>2, <1>3
<1>6. Received' = {} /\ Queued' = {} /\ InTransit' = {}
  BY <1>5, RangeEmpty DEF Received, Queued, InTransit
<1>7. CallsInOrder'
  <2>1. InCallOrder(inbox') /\ InCallOrder(requests'[connection_id'])
    BY <1>5, OrderEmpty
  <2> QED BY <1>1, <1>2, <1>6, <2>1 DEF CallsInOrder
<1>8. OneChange'
  BY <1>1, <1>2, <1>6, IdleAfter DEF OneChange
<1>9. ~ LoggingOut' /\ (\A u : ~ LoggingIn(u)') /\ (\A ch : ~ Joining(ch)')
  BY <1>1, <1>2, <1>6, IdleAfter DEF LoggingOut, LoggingIn, Joining
<1>10. session'[connection_id'] = None /\ joined'[connection_id'] = None
  BY <1>1, <1>2, <1>3
<1>11. Agreement'
  BY <1>1, <1>2, <1>9, <1>10 DEF Agreement
<1>12. Delivery'
  BY <1>1, <1>2, <1>6, <1>10, IdleAfter, NoChannel
<1> QED BY <1>4, <1>7, <1>8, <1>11, <1>12 DEF SoloAfter

(* It is lost while nothing is under way. *)
LEMMA SoloLost ==
  ASSUME TypeOK, OneConnection, NEW c \in Conns, Lose(c), ~ Busy, ~ (Len(inbox) > 0)
  PROVE  OneConnection' /\ connection_id' = None
<1>1. /\ c = connection_id /\ open' = {} /\ connection_id' = None /\ user' = None /\ channel_name' = None
      /\ UNCHANGED <<calls, app, inbox>>
  BY DEF Lose, OnDisconnected, SetChannelName, OneConnection
<1>2. \A d \in Conns : session'[d] = None /\ joined'[d] = None /\ requests'[d] = <<>>
  <2>1. /\ session \in [Conns -> Users \cup {None}] /\ joined \in [Conns -> AllChannels \cup {None}]
        /\ requests \in [Conns -> Seq(Requests)]
    BY DEF TypeOK, ServerOK, CallsOK
  <2> QED BY <1>1, <2>1 DEF Lose, OneConnection
<1>3. inbox' = <<>>
  <2>1. inbox \in Seq(Messages)
    BY DEF TypeOK, AppOK
  <2> QED BY <1>1, <2>1
<1>4. ~ Busy'
  BY <1>1 DEF Busy
<1> QED BY <1>1, <1>2, <1>3, <1>4 DEF OneConnection, Conns

(* Without a connection the client is told nothing. *)
LEMMA OtherUnheard ==
  ASSUME OneConnection, connection_id = None, OtherActs
  PROVE  OneConnection' /\ connection_id' = None
<1>1. open = {} /\ inbox = <<>> /\ \A ch : In(ch) = {}
  BY DEF OneConnection, In
<1>2. /\ UNCHANGED <<open, connection_id, user, channel_name, calls, requests, app, session, joined>>
      /\ \E e : inbox' = <<>> \o Broadcast({}, e)
  BY <1>1 DEF OtherActs, uiVars, callVars
<1>3. inbox' = <<>>
  <2>1. {} \in SUBSET Conns /\ <<>> \o <<>> = <<>>
    OBVIOUS
  <2> QED BY <1>2, <2>1, BroadcastFacts
<1>4. Busy' <=> Busy
  BY <1>2 DEF Busy
<1> QED BY <1>1, <1>2, <1>3, <1>4 DEF OneConnection, Conns

LEMMA SoloInit == Init => SoloInv
<1> SUFFICES ASSUME Init PROVE OneConnection /\ connection_id = None
  BY DEF SoloInv
<1>1. connection_id = None /\ open = {} /\ ~ Busy /\ inbox = <<>> /\ user = None /\ channel_name = None
  BY DEF Init, Busy
<1>2. \A c \in Conns : session[c] = None /\ joined[c] = None /\ requests[c] = <<>>
  BY DEF Init
<1> QED BY <1>1, <1>2 DEF OneConnection

(* A step of a client that is not connected. *)
LEMMA UnconnectedStep ==
  ASSUME TypeOK, TypeOK', OneConnection, connection_id = None, [Next]_vars, ~ overlapped'
  PROVE  OneConnection' /\ (connection_id' # None => SoloAfter)
<1>1. open = {} /\ inbox = <<>> /\ ~ Busy /\ calls = {} /\ app = Idle
  BY DEF OneConnection, Busy
<1>2. ASSUME UNCHANGED <<open, connection_id, user, channel_name, calls, requests, app, inbox, session, joined>>
      PROVE  OneConnection' /\ connection_id' = None
  <2>1. Busy' <=> Busy
    BY <1>2 DEF Busy
  <2> QED BY <1>2, <2>1 DEF OneConnection, Conns
<1>3. CASE \E args \in Args : HandleInput(args)
  <2>1. PICK args \in Args : HandleInput(args)
    BY <1>3
  <2>2. Connect
    BY <2>1 DEF HandleInput, Send, Execute, ConnectCommand, LoginCommand, Login, AddUserCommand, AddUser,
       JoinChannelCommand, JoinChannel, AddChannelCommand, CreateChannel, GetChannelsCommand, GetChannels,
       LogoutCommand, Logout, ValidateSession
  <2> QED BY <1>2, <2>1, <2>2 DEF Connect, HandleInput, Typed, KeepsSession, callVars, serverVars
<1>4. CASE OnConnected
  BY <1>4, SoloConnected
<1>5. CASE OnConnectionFailed \/ UNCHANGED vars
  BY <1>2, <1>5 DEF OnConnectionFailed, vars, uiVars, callVars, serverVars
<1>6. CASE OtherActs
  BY <1>6, OtherUnheard
<1>7. ~ (\E c \in Conns : Lose(c) \/ Serve(c)) /\ ~ TakeMessage /\ ~ Act /\ ~ (\E k \in calls : Timeout(k))
  BY <1>1 DEF Lose, Serve, TakeMessage, Act
<1> QED BY <1>3, <1>4, <1>5, <1>6, <1>7 DEF Next

(* A step of a client that is connected, and stays so or not. *)
LEMMA ConnectedStep ==
  ASSUME Solo, TypeOK', [Next]_vars, ~ overlapped'
  PROVE  OneConnection' /\ (connection_id' # None => SoloAfter)
<1>1. TypeOK /\ OriginInv /\ OneConnection /\ connection_id # None /\ CallsInOrder
  BY DEF Solo, Attached
<1>2. ASSUME UNCHANGED connection_id, SoloAfter
      PROVE  OneConnection' /\ (connection_id' # None => SoloAfter)
  BY <1>1, <1>2, ConnectionStep
<1>3. CASE \E args \in Args : HandleInput(args)
  <2>1. PICK args \in Args : HandleInput(args)
    BY <1>3
  <2>2. ~ Busy /\ UNCHANGED connection_id
    BY <2>1 DEF HandleInput, Typed
  <2> QED BY <1>2, <2>1, <2>2, SoloInput
<1>4. CASE TakeMessage
  <2>1. UNCHANGED connection_id
    BY <1>4 DEF TakeMessage, uiVars
  <2>2. PICK m : m = Head(inbox)
    OBVIOUS
  <2>3. TakeAnswer(m) \/ TakeEvent(m)
    BY <1>4, <2>2 DEF TakeMessage
  <2> QED BY <1>2, <1>4, <2>1, <2>2, <2>3, SoloAnswer, SoloEvent
<1>5. CASE Act
  BY <1>2, <1>5, SoloAct DEF Act, uiVars
<1>6. CASE OtherActs
  BY <1>2, <1>6, SoloOther DEF OtherActs, uiVars
<1>7. CASE \E c \in Conns : Serve(c)
  BY <1>2, <1>7, SoloServe DEF Serve, uiVars
<1>8. CASE OnConnectionFailed \/ UNCHANGED vars
  <2>1. UNCHANGED <<connection_id, user, channel_name, users_cache, calls, app, inbox, requests,
                    session, joined, chats, older, shown>>
    BY <1>8 DEF OnConnectionFailed, vars, uiVars, cacheVars, callVars, serverVars, histVars
  <2> QED BY <1>2, <2>1, SoloStutter
<1>9. CASE \E c \in Conns : Lose(c)
  <2>1. PICK c \in Conns : Lose(c)
    BY <1>9
  <2>2. ~ Busy /\ ~ (Len(inbox) > 0)
    BY <2>1 DEF Lose
  <2> QED BY <1>1, <2>1, <2>2, SoloLost
<1>10. ~ OnConnected /\ ~ (\E k \in calls : Timeout(k))
  BY <1>1 DEF OnConnected, Timeout
<1> QED BY <1>3, <1>4, <1>5, <1>6, <1>7, <1>8, <1>9, <1>10 DEF Next

(* Once something has overlapped, that stays recorded. *)
LEMMA OverlapStays ==
  ASSUME TypeOK, [Next]_vars, ~ overlapped'
  PROVE  ~ overlapped
BY DEF Next, HandleInput, Typed, OnConnected, OnConnectionFailed, Lose, Serve, TakeMessage, Act, Timeout,
   OtherActs, histVars, vars

LEMMA SoloStep == TypeOK /\ TypeOK' /\ OriginInv /\ SoloInv /\ [Next]_vars => SoloInv'
<1> SUFFICES ASSUME TypeOK, TypeOK', OriginInv, SoloInv, [Next]_vars, ~ overlapped'
             PROVE  OneConnection' /\ (connection_id' # None => SoloAfter)
  BY DEF SoloInv, SoloAfter
<1>1. OneConnection /\ (connection_id # None => CallsInOrder /\ OneChange /\ Agreement /\ Delivery)
  BY OverlapStays DEF SoloInv
<1>2. CASE connection_id = None
  BY <1>1, <1>2, UnconnectedStep
<1>3. CASE connection_id # None
  <2>1. Solo
    BY <1>1, <1>3 DEF Solo, Attached
  <2> QED BY <2>1, ConnectedStep
<1> QED BY <1>2, <1>3

(* As long as commands and connection events wait for the calls under way, *)
(* there is one connection at a time, everything on it is in the order of  *)
(* the calls, at most one change of the session is under way, and every    *)
(* chat of the channel joined has been shown or is on its way.             *)
THEOREM SoloInvariant == Spec => []SoloInv
<1>1. ClientInv /\ ClientInv' /\ SoloInv /\ [Next]_vars => SoloInv'
  BY SoloStep DEF ClientInv
<1> QED BY <1>1, SoloInit, ClientInvariant, PTL DEF Spec

LEMMA QuietFacts ==
  ASSUME TypeOK, Quiet, connection_id # None
  PROVE  /\ Received = {} /\ Queued = {} /\ app = Idle
         /\ ~ LoggingOut
         /\ \A u : ~ LoggingIn(u)
         /\ \A ch : ~ Joining(ch)
         /\ \A i : ~ OnItsWay(i)
<1>1. connection_id \in Conns /\ inbox = <<>> /\ requests[connection_id] = <<>> /\ app = Idle
  BY DEF TypeOK, UiOK, Quiet, Busy
<1>2. Received = {} /\ Queued = {}
  BY <1>1, RangeEmpty DEF Received, Queued
<1> QED BY <1>1, <1>2 DEF LoggingOut, LoggingIn, Joining, OnItsWay, AppIs, AppLoadsJoined, AppBrings, Idle

(* What the client shows as its user and its channel is what the server    *)
(* has for the connection, whenever everything has been answered and no    *)
(* command or connection event overlapped with a pending call.             *)
THEOREM SessionAgreesCorrect == Spec => []SessionAgrees
<1>1. TypeOK /\ SoloInv => SessionAgrees
  <2> SUFFICES ASSUME TypeOK, SoloInv, Quiet, ~ overlapped, connection_id # None
               PROVE  user = session[connection_id] /\ channel_name = joined[connection_id]
    BY DEF SessionAgrees
  <2> QED BY QuietFacts DEF SoloInv, Agreement
<1> QED BY <1>1, TypeCorrect, SoloInvariant, PTL

(* Joining before the log is requested leaves no gap, whatever number of   *)
(* chats LoadLatestChatLog asks for: then every chat of the channel in the *)
(* prompt has been shown, or was not among the LogLimit latest ones when a *)
(* log of the channel was made.                                            *)
THEOREM NoGapCorrect == Spec => []NoGap
<1>1. TypeOK /\ SoloInv => NoGap
  <2> SUFFICES ASSUME TypeOK, SoloInv, Quiet, ~ overlapped, channel_name # None,
                      NEW i \in DOMAIN chats, chats[i].channel = channel_name
               PROVE  i \in shown \cup older
    BY DEF NoGap
  <2>1. connection_id # None
    BY DEF SoloInv, OneConnection
  <2>2. channel_name = joined[connection_id]
    BY <2>1, QuietFacts DEF SoloInv, Agreement
  <2> QED BY <2>1, <2>2, QuietFacts DEF SoloInv, Delivery
<1> QED BY <1>1, TypeCorrect, SoloInvariant, PTL

=============================================================================
