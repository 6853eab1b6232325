------------------------- MODULE ServerSessionsProofs -------------------------
(***************************************************************************)
(* Proofs about ServerSessions, for any connections, users, channels and   *)
(* number of requests: who is in a channel has a session, a session ends   *)
(* with its connection unless it came late, and every request is answered  *)
(* exactly once.                                                           *)
(***************************************************************************)
EXTENDS ServerSessions, TLAPS

AppSteps == Ops \cup {"assign", "granted", "unassign", "do_join", "do_write", "do_get"}

(* A thread that is not idle has a record with the fields of its state. *)
LEMMA ThreadStates ==
  ASSUME TypeOK
  PROVE  /\ app = AppIdle <=> app.pc = "idle"
         /\ app # AppIdle =>
              /\ app \in [pc : AppSteps, req : Request]
              /\ app.pc \in AppSteps /\ app.req \in Request
              /\ app.req.id \in 1 .. MaxRequests /\ app.req.conn \in Conns
              /\ app.req.user \in Users \cup {None} /\ app.req.channel \in Channels \cup {None}
         /\ io = IoIdle <=> io.pc = "idle"
         /\ io # IoIdle =>
              /\ io \in [pc : {"find", "broadcast", "erase"}, conn : Conns]
              /\ io.conn \in Conns
<1>1. app \in AppState /\ io \in IoState
  BY DEF TypeOK
<1>2. app # AppIdle => app \in [pc : AppSteps, req : Request] /\ app.pc \in AppSteps
  BY <1>1 DEF AppState, AppSteps
<1>3. AppIdle.pc = "idle" /\ IoIdle.pc = "idle"
  BY DEF AppIdle, IoIdle
<1>4. "idle" \notin AppSteps
  BY DEF AppSteps, Ops
<1> QED BY <1>1, <1>2, <1>3, <1>4 DEF IoState, Request

(* What most steps need of the types. *)
LEMMA Types ==
  ASSUME TypeOK
  PROVE  /\ requests \in Nat /\ Len(queue) \in Nat /\ MaxRequests \in Nat
         /\ queue \in Seq(Request) /\ requests <= MaxRequests
         /\ connections \subseteq accepted /\ accepted \subseteq Conns
         /\ DOMAIN user_sessions = Conns /\ DOMAIN channel_of = Conns
         /\ DOMAIN disconnects = Conns /\ DOMAIN reply = 1 .. MaxRequests
         /\ \A c \in Conns : disconnects[c] \in 0 .. 2
         /\ \A i \in 1 .. MaxRequests : reply[i] \in Seq({"ok", "error"})
BY SessionsAssumption DEF TypeOK

LEMMA InitSessionsInv == Init => SessionsInv
<1> SUFFICES ASSUME Init PROVE SessionsInv
  OBVIOUS
<1> USE DEF Init
<1>0. Len(queue) = 0 /\ requests = 0 /\ MaxRequests \in Nat
  BY SessionsAssumption
<1>1. TypeOK
  BY <1>0 DEF TypeOK, AppState, IoState
<1>2. ConnInv
  BY <1>0 DEF ConnInv
<1>3. JoinInv
  BY DEF JoinInv, AppIdle
<1>4. QueueInv
  BY <1>0 DEF QueueInv
<1>5. AnswerInv
  BY <1>0 DEF AnswerInv, Taken
<1>6. NoChannelWithoutSession /\ StaleSessionOnlyIfLate
  BY DEF NoChannelWithoutSession, StaleSessionOnlyIfLate
<1> QED BY <1>1, <1>2, <1>3, <1>4, <1>5, <1>6 DEF SessionsInv

-----------------------------------------------------------------------------
(* The I/O thread.                                                         *)

(* A step of the I/O thread that takes no request leaves the requests and  *)
(* their answers alone.                                                    *)
LEMMA AnswersUntouched ==
  ASSUME QueueInv, AnswerInv, queue' = queue, requests' = requests, app' = app,
         reply' = reply, closed_on' = closed_on
  PROVE  QueueInv' /\ AnswerInv'
BY DEF QueueInv, AnswerInv, Taken, Answered

LEMMA CreateConnectionInv ==
  ASSUME SessionsInv, NEW c \in Conns, CreateConnection(c)
  PROVE  SessionsInv'
<1> USE DEF SessionsInv
<1>y. TypeOK
  OBVIOUS
<1>1. /\ io = IoIdle /\ c \notin accepted /\ accepted' = accepted \cup {c}
      /\ connections' = connections \cup {c} /\ disconnects' = disconnects /\ queue' = queue
      /\ requests' = requests /\ user_sessions' = user_sessions /\ channel_of' = channel_of
      /\ app' = app /\ io' = io /\ late' = late /\ reply' = reply /\ closed_on' = closed_on
  BY DEF CreateConnection, storeVars, histVars
<1>2. TypeOK'
  BY <1>1 DEF TypeOK
<1>3. ConnInv'
  BY <1>1, <1>y, Types DEF ConnInv
<1>4. JoinInv'
  <2>1. app # AppIdle => app.req.conn # c
    BY <1>1 DEF ConnInv
  <2>2. app.pc = "do_join" => app # AppIdle
    BY <1>y, ThreadStates
  <2> QED BY <1>1, <2>1, <2>2 DEF JoinInv, HasSession
<1>5. QueueInv' /\ AnswerInv'
  BY <1>1, AnswersUntouched
<1>6. NoChannelWithoutSession'
  BY <1>1 DEF NoChannelWithoutSession, ConnInv, HasSession
<1>7. StaleSessionOnlyIfLate'
  BY <1>1 DEF StaleSessionOnlyIfLate, HasSession
<1> QED BY <1>2, <1>3, <1>4, <1>5, <1>6, <1>7

LEMMA ReceiveInv ==
  ASSUME SessionsInv, NEW c \in Conns, NEW op \in Ops, NEW u \in Users \cup {None},
         NEW ch \in Channels \cup {None}, Receive(c, op, u, ch)
  PROVE  SessionsInv'
<1> USE DEF SessionsInv
<1>y. TypeOK
  OBVIOUS
<1> DEFINE q == [id |-> requests + 1, conn |-> c, op |-> op, user |-> u, channel |-> ch]
<1>1. /\ io = IoIdle /\ c \in connections /\ requests < MaxRequests
      /\ requests' = requests + 1 /\ queue' = Append(queue, q)
      /\ accepted' = accepted /\ connections' = connections /\ disconnects' = disconnects
      /\ user_sessions' = user_sessions /\ channel_of' = channel_of
      /\ app' = app /\ io' = io /\ late' = late /\ reply' = reply /\ closed_on' = closed_on
  BY DEF Receive, netVars, storeVars, histVars
<1>t. /\ requests \in Nat /\ MaxRequests \in Nat /\ queue \in Seq(Request) /\ Len(queue) \in Nat
      /\ connections \subseteq accepted
  BY <1>y, Types
<1>2. q \in Request /\ q.id = requests + 1 /\ q.conn = c
  BY <1>1, <1>t DEF Request
<1> HIDE DEF q
<1>3. /\ queue' \in Seq(Request) /\ Len(queue') = Len(queue) + 1
      /\ queue'[Len(queue) + 1] = q
      /\ \A k \in 1 .. Len(queue) : queue'[k] = queue[k]
  BY <1>1, <1>2, <1>t
<1>4. Taken' = Taken
  BY <1>1, <1>3, <1>t DEF Taken
<1>5. TypeOK'
  BY <1>1, <1>3, <1>t DEF TypeOK
<1>6. ConnInv'
  <2>1. \A k \in 1 .. Len(queue') : queue'[k].conn \in accepted
    <3> SUFFICES ASSUME NEW k \in 1 .. Len(queue') PROVE queue'[k].conn \in accepted
      OBVIOUS
    <3>1. CASE k = Len(queue) + 1
      BY <1>1, <1>2, <1>3, <1>t, <3>1
    <3>2. CASE k # Len(queue) + 1
      <4>1. k \in 1 .. Len(queue)
        BY <1>3, <1>t, <3>2
      <4> QED BY <1>3, <4>1 DEF ConnInv
    <3> QED BY <3>1, <3>2
  <2> QED BY <1>1, <2>1 DEF ConnInv
<1>7. JoinInv'
  BY <1>1 DEF JoinInv, HasSession
<1>8. QueueInv'
  <2>1. Len(queue') <= requests'
    BY <1>1, <1>3, <1>t DEF QueueInv
  <2>2. \A k \in 1 .. Len(queue') : queue'[k].id = Taken + k
    <3> SUFFICES ASSUME NEW k \in 1 .. Len(queue') PROVE queue'[k].id = Taken + k
      OBVIOUS
    <3>1. CASE k = Len(queue) + 1
      BY <1>1, <1>2, <1>3, <1>t, <3>1 DEF Taken
    <3>2. CASE k # Len(queue) + 1
      <4>1. k \in 1 .. Len(queue)
        BY <1>3, <1>t, <3>2
      <4> QED BY <1>3, <4>1 DEF QueueInv
    <3> QED BY <3>1, <3>2
  <2> QED BY <1>1, <1>4, <2>1, <2>2 DEF QueueInv
<1>9. AnswerInv'
  BY <1>1, <1>4 DEF AnswerInv, Answered
<1>10. NoChannelWithoutSession'
  BY <1>1 DEF NoChannelWithoutSession, HasSession
<1>11. StaleSessionOnlyIfLate'
  BY <1>1 DEF StaleSessionOnlyIfLate, HasSession
<1> QED BY <1>5, <1>6, <1>7, <1>8, <1>9, <1>10, <1>11

LEMMA RemoveConnectionInv ==
  ASSUME SessionsInv, NEW c \in Conns, RemoveConnection(c)
  PROVE  SessionsInv'
<1> USE DEF SessionsInv
<1>y. TypeOK
  OBVIOUS
<1>1. /\ io = IoIdle /\ c \in accepted /\ connections' = connections \ {c}
      /\ disconnects[c] < 2
      /\ io' = [pc |-> "find", conn |-> c]
      /\ accepted' = accepted /\ disconnects' = disconnects /\ queue' = queue
      /\ requests' = requests /\ user_sessions' = user_sessions /\ channel_of' = channel_of
      /\ app' = app /\ late' = late /\ reply' = reply /\ closed_on' = closed_on
  BY DEF RemoveConnection, storeVars, histVars
<1>2. io' \in IoState /\ io'.conn = c
  BY <1>1 DEF IoState
<1>3. TypeOK'
  BY <1>1, <1>2 DEF TypeOK
<1>4. ConnInv'
  BY <1>1, <1>2 DEF ConnInv
<1>5. JoinInv'
  BY <1>1 DEF JoinInv, HasSession
<1>6. QueueInv' /\ AnswerInv'
  BY <1>1, AnswersUntouched
<1>7. NoChannelWithoutSession'
  BY <1>1 DEF NoChannelWithoutSession, HasSession
<1>8. StaleSessionOnlyIfLate'
  BY <1>1 DEF StaleSessionOnlyIfLate, HasSession
<1> QED BY <1>3, <1>4, <1>5, <1>6, <1>7, <1>8

(* OnDisconnect returns: its connection is removed, and has no session. *)
LEMMA IoReturnsInv ==
  ASSUME SessionsInv, io # IoIdle, IoReturns, accepted' = accepted,
         connections' = connections, queue' = queue, requests' = requests, channel_of' = channel_of, app' = app, late' = late,
         reply' = reply, closed_on' = closed_on,
         user_sessions' = [user_sessions EXCEPT ![io.conn] = None]
  PROVE  SessionsInv'
<1> USE DEF SessionsInv
<1>y. TypeOK
  OBVIOUS
<1>t. /\ DOMAIN user_sessions = Conns /\ DOMAIN disconnects = Conns /\ io.conn \in Conns
      /\ \A c \in Conns : disconnects[c] \in 0 .. 2
      /\ disconnects[io.conn] < 2
  BY <1>y, Types, ThreadStates DEF ConnInv
<1>1. io' = IoIdle /\ disconnects' = [disconnects EXCEPT ![io.conn] = disconnects[io.conn] + 1]
  BY DEF IoReturns
<1>2. user_sessions' \in [Conns -> Users \cup {None}] /\ disconnects' \in [Conns -> 0 .. 2]
  BY <1>1, <1>t DEF TypeOK
<1>3. TypeOK'
  BY <1>1, <1>2 DEF TypeOK, IoState
<1>4. io.conn \in accepted \ connections
  BY DEF ConnInv
<1>5. ConnInv'
  BY <1>1, <1>4, <1>t DEF ConnInv
<1>6. JoinInv'
  BY <1>4, <1>t DEF JoinInv, HasSession
<1>7. QueueInv' /\ AnswerInv'
  BY AnswersUntouched
<1>8. NoChannelWithoutSession'
  BY <1>4, <1>t DEF NoChannelWithoutSession, HasSession
<1>9. StaleSessionOnlyIfLate'
  BY <1>1, <1>t DEF StaleSessionOnlyIfLate, HasSession
<1> QED BY <1>3, <1>5, <1>6, <1>7, <1>8, <1>9

LEMMA IoMovesOn ==
  ASSUME SessionsInv, io # IoIdle, io' \in IoState, io'.conn = io.conn,
         accepted' = accepted, connections' = connections, disconnects' = disconnects,
         queue' = queue, requests' = requests, user_sessions' = user_sessions,
         channel_of' = channel_of, app' = app, late' = late, reply' = reply,
         closed_on' = closed_on
  PROVE  SessionsInv'
<1> USE DEF SessionsInv
<1>1. TypeOK'
  BY DEF TypeOK
<1>2. ConnInv'
  BY DEF ConnInv
<1>3. JoinInv'
  BY DEF JoinInv, HasSession
<1>4. QueueInv' /\ AnswerInv'
  BY AnswersUntouched
<1>5. NoChannelWithoutSession' /\ StaleSessionOnlyIfLate'
  BY DEF NoChannelWithoutSession, StaleSessionOnlyIfLate, HasSession
<1> QED BY <1>1, <1>2, <1>3, <1>4, <1>5

LEMMA IoFindSessionInv ==
  ASSUME SessionsInv, IoFindSession
  PROVE  SessionsInv'
<1> USE DEF SessionsInv
<1>y. TypeOK
  OBVIOUS
<1>1. /\ io.pc = "find" /\ accepted' = accepted /\ connections' = connections /\ queue' = queue
      /\ requests' = requests /\ user_sessions' = user_sessions /\ channel_of' = channel_of
      /\ app' = app /\ late' = late /\ reply' = reply /\ closed_on' = closed_on
  BY DEF IoFindSession, storeVars, histVars
<1>2. io # IoIdle /\ io.conn \in Conns /\ user_sessions \in [Conns -> Users \cup {None}]
  BY <1>1, <1>y, ThreadStates DEF TypeOK
<1>3. CASE HasSession(io.conn)
  <2>1. io' = [pc |-> "broadcast", conn |-> io.conn] /\ disconnects' = disconnects
    BY <1>3 DEF IoFindSession
  <2>2. io' \in IoState /\ io'.conn = io.conn
    BY <1>2, <2>1 DEF IoState
  <2> QED BY <1>1, <1>2, <2>1, <2>2, IoMovesOn
<1>4. CASE ~ HasSession(io.conn)
  <2>1. IoReturns
    BY <1>4 DEF IoFindSession
  <2>2. user_sessions' = [user_sessions EXCEPT ![io.conn] = None]
    BY <1>1, <1>2, <1>4 DEF HasSession
  <2> QED BY <1>1, <1>2, <2>1, <2>2, IoReturnsInv
<1> QED BY <1>3, <1>4

LEMMA IoBroadcastInv ==
  ASSUME SessionsInv, IoBroadcast
  PROVE  SessionsInv'
<1> USE DEF SessionsInv
<1>y. TypeOK
  OBVIOUS
<1>1. /\ io.pc = "broadcast" /\ io' = [io EXCEPT !.pc = "erase"]
      /\ accepted' = accepted /\ connections' = connections /\ disconnects' = disconnects
      /\ queue' = queue
      /\ requests' = requests /\ user_sessions' = user_sessions /\ channel_of' = channel_of
      /\ app' = app /\ late' = late /\ reply' = reply /\ closed_on' = closed_on
  BY DEF IoBroadcast, netVars, storeVars, histVars
<1>2. io # IoIdle /\ io \in [pc : {"find", "broadcast", "erase"}, conn : Conns]
  BY <1>1, <1>y, ThreadStates
<1>3. io' \in IoState /\ io'.conn = io.conn
  BY <1>1, <1>2 DEF IoState
<1> QED BY <1>1, <1>2, <1>3, IoMovesOn

LEMMA IoEraseSessionInv ==
  ASSUME SessionsInv, IoEraseSession
  PROVE  SessionsInv'
<1>1. /\ io.pc = "erase" /\ IoReturns /\ accepted' = accepted /\ connections' = connections
      /\ queue' = queue /\ requests' = requests /\ channel_of' = channel_of
      /\ user_sessions' = [user_sessions EXCEPT ![io.conn] = None]
      /\ app' = app /\ late' = late /\ reply' = reply /\ closed_on' = closed_on
  BY DEF IoEraseSession, histVars
<1>2. io # IoIdle
  BY <1>1, ThreadStates DEF SessionsInv
<1> QED BY <1>1, <1>2, IoReturnsInv

-----------------------------------------------------------------------------
(* The application thread.                                                 *)

(* TakeRequest: the first request of the queue is the next one. *)
LEMMA TakeRequestInv ==
  ASSUME SessionsInv, TakeRequest
  PROVE  SessionsInv'
<1> USE DEF SessionsInv
<1>y. TypeOK
  OBVIOUS
<1> DEFINE q == queue[1]
<1>1. /\ app = AppIdle /\ queue # <<>> /\ app' = [pc |-> Head(queue).op, req |-> Head(queue)]
      /\ queue' = Tail(queue) /\ requests' = requests /\ io' = io
      /\ accepted' = accepted /\ connections' = connections /\ disconnects' = disconnects
      /\ user_sessions' = user_sessions /\ channel_of' = channel_of
      /\ late' = late /\ reply' = reply /\ closed_on' = closed_on
  BY DEF TakeRequest, appOnly, netVars, storeVars, histVars
<1>t. /\ requests \in Nat /\ MaxRequests \in Nat /\ queue \in Seq(Request) /\ Len(queue) \in Nat
      /\ requests <= MaxRequests
  BY <1>y, Types
<1>2. /\ Len(queue) > 0 /\ Head(queue) = q /\ q \in Request
      /\ Len(queue') = Len(queue) - 1 /\ queue' \in Seq(Request)
      /\ \A k \in 1 .. Len(queue') : queue'[k] = queue[k + 1] /\ k + 1 \in 1 .. Len(queue)
  BY <1>1, <1>t
<1>3. /\ q.id = Taken + 1 /\ q.conn \in accepted /\ q.op \in Ops
      /\ Taken' = Taken + 1 /\ Taken \in Nat
  BY <1>1, <1>2, <1>t DEF QueueInv, ConnInv, Taken, Request
<1>4. app' \in AppState /\ app'.req = q /\ app'.pc \in Ops /\ app' # AppIdle
  <2>1. app' = [pc |-> q.op, req |-> q]
    BY <1>1, <1>2
  <2>2. app'.pc # "idle" /\ AppIdle.pc = "idle"
    BY <1>3, <2>1 DEF Ops, AppIdle
  <2> QED BY <1>2, <1>3, <2>1, <2>2 DEF AppState
<1> HIDE DEF q
<1>5. TypeOK'
  BY <1>1, <1>2, <1>4 DEF TypeOK
<1>6. ConnInv'
  <2>1. \A k \in 1 .. Len(queue') : queue'[k].conn \in accepted
    BY <1>2 DEF ConnInv
  <2> QED BY <1>1, <1>3, <1>4, <2>1 DEF ConnInv
<1>7. JoinInv'
  BY <1>4 DEF JoinInv, Ops
<1>8. QueueInv'
  <2>1. \A k \in 1 .. Len(queue') : queue'[k].id = Taken + 1 + k
    BY <1>2, <1>3, <1>t DEF QueueInv
  <2>2. Len(queue') <= requests
    BY <1>2, <1>t DEF QueueInv
  <2> QED BY <1>1, <1>3, <1>4, <2>1, <2>2 DEF QueueInv
<1>9. AnswerInv'
  BY <1>1, <1>3, <1>4 DEF AnswerInv, Answered
<1>10. NoChannelWithoutSession'
  BY <1>1 DEF NoChannelWithoutSession, HasSession
<1>11. StaleSessionOnlyIfLate'
  BY <1>1 DEF StaleSessionOnlyIfLate, HasSession
<1> QED BY <1>5, <1>6, <1>7, <1>8, <1>9, <1>10, <1>11

(* A handler ends with its answer, or without one when there is nobody to  *)
(* send it to.                                                             *)
Ends ==
  /\ app' = AppIdle
  /\ \/ /\ closed_on' = closed_on
        /\ \E what \in {"ok", "error"} :
             reply' = [reply EXCEPT ![app.req.id] = Append(reply[app.req.id], what)]
     \/ reply' = reply /\ closed_on' = closed_on \cup {app.req.id}

(* A handler goes on to another step of the same request. *)
Continues ==
  /\ app' \in [pc : AppSteps, req : {app.req}]
  /\ reply' = reply /\ closed_on' = closed_on

LEMMA RespondEnds ==
  ASSUME TypeOK, NEW what \in {"ok", "error"}, Respond(what)
  PROVE  Ends
BY DEF Respond, Send, Ends

LEMMA ProceedContinues ==
  ASSUME TypeOK, app # AppIdle, NEW pc \in AppSteps, Proceed(pc)
  PROVE  Continues /\ app'.pc = pc
<1>1. app \in [pc : AppSteps, req : Request]
  BY ThreadStates
<1>2. app' = [app EXCEPT !.pc = pc] /\ reply' = reply /\ closed_on' = closed_on
  BY DEF Proceed
<1>3. app' \in [pc : AppSteps, req : {app.req}] /\ app'.pc = pc
  BY <1>1, <1>2
<1> QED BY <1>2, <1>3 DEF Continues

(* The parts of the invariant that every handler keeps. *)
LEMMA HandlerStep ==
  ASSUME SessionsInv, app # AppIdle, Ends \/ Continues,
         accepted' = accepted, connections' = connections, disconnects' = disconnects,
         requests' = requests, io' = io, queue' = queue,
         user_sessions' \in [Conns -> Users \cup {None}],
         channel_of' \in [Conns -> Channels \cup {None}],
         late' \subseteq Conns,
         \A c \in Conns \ accepted : channel_of'[c] = None
  PROVE  TypeOK' /\ ConnInv' /\ QueueInv' /\ AnswerInv'
<1> USE DEF SessionsInv
<1>y. TypeOK
  OBVIOUS
<1>t. /\ app.req \in Request /\ app.req.id \in 1 .. MaxRequests
      /\ reply \in [1 .. MaxRequests -> Seq({"ok", "error"})] /\ closed_on \subseteq 1 .. MaxRequests
      /\ \A i \in 1 .. MaxRequests : reply[i] \in Seq({"ok", "error"})
      /\ requests \in Nat /\ Len(queue) \in Nat /\ MaxRequests \in Nat
  BY <1>y, Types, ThreadStates DEF TypeOK
<1>i. Taken' = Taken /\ app.req.id = Taken /\ Taken \in Nat
  BY <1>t DEF Taken, QueueInv
<1>1. CASE Ends
  <2>1. app' = AppIdle
    BY <1>1 DEF Ends
  <2>2. reply' \in [1 .. MaxRequests -> Seq({"ok", "error"})] /\ closed_on' \subseteq 1 .. MaxRequests
    <3>1. \A what \in {"ok", "error"} : Append(reply[app.req.id], what) \in Seq({"ok", "error"})
      BY <1>t
    <3> QED BY <1>1, <1>t, <3>1 DEF Ends
  <2>3. TypeOK'
    BY <2>1, <2>2 DEF TypeOK, AppState
  <2>4. ConnInv'
    BY <2>1 DEF ConnInv
  <2>5. QueueInv'
    BY <2>1, <1>i DEF QueueInv
  <2>6. reply[Taken] = <<>>
    BY <1>i, <1>t DEF AnswerInv
  <2>7. Answered(Taken)'
    <3>1. CASE reply' = reply /\ closed_on' = closed_on \cup {app.req.id}
      BY <1>i, <2>6, <3>1 DEF Answered
    <3>2. CASE \E what \in {"ok", "error"} :
                 reply' = [reply EXCEPT ![app.req.id] = Append(reply[app.req.id], what)]
      <4>1. PICK what \in {"ok", "error"} :
                 reply' = [reply EXCEPT ![app.req.id] = Append(reply[app.req.id], what)]
        BY <3>2
      <4>2. reply'[Taken] = Append(<<>>, what)
        BY <1>i, <1>t, <2>6, <4>1
      <4>3. Len(Append(<<>>, what)) = 1
        OBVIOUS
      <4> QED BY <1>i, <4>2, <4>3 DEF Answered
    <3> QED BY <1>1, <3>1, <3>2 DEF Ends
  <2>8. \A i \in 1 .. MaxRequests : i # Taken =>
          reply'[i] = reply[i] /\ (i \in closed_on' <=> i \in closed_on)
    BY <1>1, <1>i, <1>t DEF Ends
  <2>9. AnswerInv'
    <3> SUFFICES ASSUME NEW i \in 1 .. MaxRequests
                 PROVE IF i <= Taken THEN Answered(i)' ELSE reply'[i] = <<>>
      BY <1>i, <2>1 DEF AnswerInv
    <3>1. CASE i = Taken
      BY <1>i, <2>7, <3>1 DEF Answered
    <3>2. CASE i # Taken
      <4>1. IF i < Taken THEN Answered(i) ELSE reply[i] = <<>>
        BY <3>2 DEF AnswerInv
      <4> QED BY <1>i, <2>8, <3>2, <4>1 DEF Answered
    <3> QED BY <3>1, <3>2
  <2> QED BY <2>3, <2>4, <2>5, <2>9
<1>2. CASE Continues
  <2>1. /\ app' \in [pc : AppSteps, req : {app.req}]
        /\ reply' = reply /\ closed_on' = closed_on
    BY <1>2 DEF Continues
  <2>2. app'.req = app.req /\ app'.pc \in AppSteps
    BY <2>1
  <2>3. app' \in AppState
    BY <1>t, <2>1 DEF AppState, AppSteps
  <2>4. app' # AppIdle
    <3>1. app'.pc # "idle" /\ AppIdle.pc = "idle"
      BY <2>2 DEF AppIdle, AppSteps, Ops
    <3> QED BY <3>1
  <2>5. TypeOK'
    BY <2>1, <2>3 DEF TypeOK
  <2>6. ConnInv'
    BY <2>2, <2>4 DEF ConnInv
  <2>7. QueueInv'
    BY <1>i, <2>2, <2>4 DEF QueueInv
  <2>8. AnswerInv'
    BY <1>i, <2>1, <2>4 DEF AnswerInv, Answered
  <2> QED BY <2>5, <2>6, <2>7, <2>8
<1> QED BY <1>1, <1>2

(* A step that leaves the sessions and the channels alone. *)
LEMMA ReadOnlyStep ==
  ASSUME SessionsInv, app # AppIdle,
         \/ Ends
         \/ Continues /\ (app'.pc = "do_join" => HasSession(app.req.conn)),
         accepted' = accepted, connections' = connections, disconnects' = disconnects,
         requests' = requests, io' = io, queue' = queue, user_sessions' = user_sessions,
         channel_of' = channel_of, late' = late
  PROVE  SessionsInv'
<1> USE DEF SessionsInv
<1>1. TypeOK' /\ ConnInv' /\ QueueInv' /\ AnswerInv'
  <2>1. /\ user_sessions \in [Conns -> Users \cup {None}] /\ late \subseteq Conns
        /\ channel_of \in [Conns -> Channels \cup {None}]
        /\ \A c \in Conns \ accepted : channel_of[c] = None
    BY DEF TypeOK, ConnInv
  <2> QED BY <2>1, HandlerStep
<1>2. JoinInv'
  <2>1. CASE Ends
    BY <2>1 DEF Ends, JoinInv, AppIdle
  <2>2. CASE Continues /\ (app'.pc = "do_join" => HasSession(app.req.conn))
    <3>1. app'.req = app.req
      BY <2>2 DEF Continues
    <3> QED BY <2>2, <3>1 DEF JoinInv, HasSession
  <2> QED BY <2>1, <2>2
<1>3. NoChannelWithoutSession' /\ StaleSessionOnlyIfLate'
  BY DEF NoChannelWithoutSession, StaleSessionOnlyIfLate, HasSession
<1> QED BY <1>1, <1>2, <1>3

LEMMA ReadOnlyHandlers ==
  ASSUME SessionsInv,
         \/ \E match \in BOOLEAN : AuthenticateCheck(match)
         \/ AuthenticateReply \/ LogoutCheck \/ ValidateSession \/ WriteMessage
         \/ \E found \in BOOLEAN : AnswerGet(found)
  PROVE  SessionsInv'
<1> USE DEF appOnly, netVars, storeVars
<1>y. TypeOK
  BY DEF SessionsInv
<1>1. /\ accepted' = accepted /\ connections' = connections /\ disconnects' = disconnects
      /\ requests' = requests /\ io' = io /\ queue' = queue /\ user_sessions' = user_sessions
      /\ channel_of' = channel_of /\ late' = late /\ app.pc # "idle"
  BY DEF AuthenticateCheck, AuthenticateReply, LogoutCheck, ValidateSession, WriteMessage, AnswerGet
<1>2. app # AppIdle
  BY <1>1, <1>y, ThreadStates
<1>3. \/ Ends
      \/ Continues /\ (app'.pc = "do_join" => HasSession(app.req.conn))
  <2>1. CASE \E match \in BOOLEAN : AuthenticateCheck(match)
    <3>1. Respond("error") \/ Proceed("assign")
      BY <2>1 DEF AuthenticateCheck
    <3>2. "assign" \in AppSteps /\ "assign" # "do_join"
      BY DEF AppSteps
    <3> QED BY <1>2, <1>y, <3>1, <3>2, RespondEnds, ProceedContinues
  <2>2. CASE AuthenticateReply
    BY <2>2, <1>y, RespondEnds DEF AuthenticateReply
  <2>3. CASE LogoutCheck
    <3>1. Respond("error") \/ Proceed("unassign")
      BY <2>3 DEF LogoutCheck
    <3>2. "unassign" \in AppSteps /\ "unassign" # "do_join"
      BY DEF AppSteps
    <3> QED BY <1>2, <1>y, <3>1, <3>2, RespondEnds, ProceedContinues
  <2>4. CASE ValidateSession
    <3>1. \/ Respond("error")
          \/ HasSession(app.req.conn) /\ \E pc \in {"do_join", "do_write", "do_get"} : Proceed(pc)
      BY <2>4 DEF ValidateSession
    <3>2. {"do_join", "do_write", "do_get"} \subseteq AppSteps
      BY DEF AppSteps
    <3> QED BY <1>2, <1>y, <3>1, <3>2, RespondEnds, ProceedContinues
  <2>5. CASE WriteMessage
    <3>1. \E what \in {"ok", "error"} : Respond(what)
      BY <2>5 DEF WriteMessage
    <3> QED BY <1>y, <3>1, RespondEnds
  <2>6. CASE \E found \in BOOLEAN : AnswerGet(found)
    <3>1. \E what \in {"ok", "error"} : Respond(what)
      BY <2>6 DEF AnswerGet
    <3> QED BY <1>y, <3>1, RespondEnds
  <2> QED BY <2>1, <2>2, <2>3, <2>4, <2>5, <2>6
<1> QED BY <1>1, <1>2, <1>3, ReadOnlyStep

(* AssignSession: a connection that is gone is recorded in `late`. *)
LEMMA AssignSessionInv ==
  ASSUME SessionsInv, AssignSession
  PROVE  SessionsInv'
<1> USE DEF SessionsInv
<1> DEFINE q == app.req
<1>y. TypeOK
  OBVIOUS
<1>1. /\ app.pc = "assign" /\ Proceed("granted")
      /\ user_sessions' =
           IF HasSession(q.conn) \/ UserHasSession(q.user)
           THEN user_sessions ELSE [user_sessions EXCEPT ![q.conn] = q.user]
      /\ late' = IF q.conn \in connections THEN late ELSE late \cup {q.conn}
      /\ accepted' = accepted /\ connections' = connections /\ disconnects' = disconnects
      /\ requests' = requests /\ io' = io /\ queue' = queue /\ channel_of' = channel_of
  BY DEF AssignSession, appOnly, netVars
<1>2. /\ app # AppIdle /\ q.conn \in Conns /\ q.user \in Users \cup {None}
      /\ DOMAIN user_sessions = Conns
  BY <1>1, <1>y, ThreadStates, Types
<1>3. Continues /\ app'.pc = "granted"
  BY <1>1, <1>2, <1>y, ProceedContinues DEF AppSteps
<1> HIDE DEF q
<1>4. /\ \A c \in Conns : c # q.conn => user_sessions'[c] = user_sessions[c]
      /\ HasSession(q.conn) => user_sessions' = user_sessions
      /\ user_sessions' \in [Conns -> Users \cup {None}] /\ late' \subseteq Conns
  BY <1>1, <1>2 DEF TypeOK
<1>5. TypeOK' /\ ConnInv' /\ QueueInv' /\ AnswerInv'
  <2>1. /\ channel_of \in [Conns -> Channels \cup {None}]
        /\ \A c \in Conns \ accepted : channel_of[c] = None
    BY DEF TypeOK, ConnInv
  <2> QED BY <1>1, <1>2, <1>3, <1>4, <2>1, HandlerStep
<1>6. JoinInv'
  BY <1>3 DEF JoinInv
<1>7. \A c \in Conns : HasSession(c) => user_sessions'[c] # None
  BY <1>4 DEF HasSession
<1>8. NoChannelWithoutSession'
  <2>1. connections \subseteq Conns
    BY DEF TypeOK
  <2> QED BY <1>1, <1>7, <2>1 DEF NoChannelWithoutSession, HasSession
<1>9. StaleSessionOnlyIfLate'
  <2> SUFFICES ASSUME NEW c \in Conns, disconnects[c] > 0, user_sessions'[c] # None
               PROVE  c \in late'
    BY <1>1 DEF StaleSessionOnlyIfLate, HasSession
  <2>1. CASE c = q.conn
    <3>1. c \notin connections
      BY DEF ConnInv
    <3> QED BY <1>1, <2>1, <3>1
  <2>2. CASE c # q.conn
    BY <1>1, <1>4, <2>2 DEF StaleSessionOnlyIfLate, HasSession
  <2> QED BY <2>1, <2>2
<1> QED BY <1>5, <1>6, <1>8, <1>9

(* HandleLogout takes the session and the channel away together. *)
LEMMA LogoutEraseInv ==
  ASSUME SessionsInv, LogoutErase
  PROVE  SessionsInv'
<1> USE DEF SessionsInv
<1>y. TypeOK
  OBVIOUS
<1>1. /\ app.pc = "unassign" /\ Respond("ok")
      /\ user_sessions' = [user_sessions EXCEPT ![app.req.conn] = None]
      /\ channel_of' = [channel_of EXCEPT ![app.req.conn] = None]
      /\ accepted' = accepted /\ connections' = connections /\ disconnects' = disconnects
      /\ requests' = requests /\ io' = io /\ queue' = queue /\ late' = late
  BY DEF LogoutErase, appOnly, netVars
<1>2. app # AppIdle /\ app.req.conn \in Conns
  BY <1>1, <1>y, ThreadStates
<1>3. Ends
  BY <1>1, <1>y, RespondEnds
<1>4. /\ user_sessions \in [Conns -> Users \cup {None}] /\ late \subseteq Conns
      /\ channel_of \in [Conns -> Channels \cup {None}] /\ connections \subseteq Conns
  BY DEF TypeOK
<1>5. TypeOK' /\ ConnInv' /\ QueueInv' /\ AnswerInv'
  <2>1. /\ user_sessions' \in [Conns -> Users \cup {None}]
        /\ channel_of' \in [Conns -> Channels \cup {None}]
    BY <1>1, <1>2, <1>4
  <2>2. \A c \in Conns \ accepted : channel_of'[c] = None
    BY <1>1, <1>2, <1>4 DEF ConnInv
  <2> QED BY <1>1, <1>2, <1>3, <1>4, <2>1, <2>2, HandlerStep
<1>6. JoinInv'
  BY <1>3 DEF JoinInv, Ends, AppIdle
<1>7. NoChannelWithoutSession'
  BY <1>1, <1>2, <1>4 DEF NoChannelWithoutSession, HasSession
<1>8. StaleSessionOnlyIfLate'
  BY <1>1, <1>2, <1>4 DEF StaleSessionOnlyIfLate, HasSession
<1> QED BY <1>5, <1>6, <1>7, <1>8

(* HandleJoinChatChannel: the return without an answer is reached only     *)
(* when the connection is gone.                                            *)
LEMMA JoinChannelInv ==
  ASSUME SessionsInv, JoinChannel
  PROVE  SessionsInv'
<1> USE DEF SessionsInv
<1> DEFINE q == app.req
<1>y. TypeOK
  OBVIOUS
<1>1. /\ app.pc = "do_join"
      /\ accepted' = accepted /\ connections' = connections /\ disconnects' = disconnects
      /\ requests' = requests /\ io' = io /\ queue' = queue /\ late' = late
      /\ user_sessions' = user_sessions
  BY DEF JoinChannel, appOnly, netVars
<1>2. /\ app # AppIdle /\ q.conn \in Conns /\ q.channel \in Channels \cup {None}
      /\ q.conn \in accepted
  BY <1>1, <1>y, ThreadStates DEF ConnInv
<1>3. CASE /\ ~ HasSession(q.conn) /\ app' = AppIdle /\ channel_of' = channel_of /\ reply' = reply
           /\ closed_on' = IF q.conn \in connections THEN closed_on ELSE closed_on \cup {q.id}
  <2>1. q.conn \notin connections
    BY <1>1, <1>3 DEF JoinInv
  <2>2. Ends
    BY <1>3, <2>1 DEF Ends
  <2> QED BY <1>1, <1>2, <1>3, <2>2, ReadOnlyStep
<1>4. CASE Respond("error") /\ channel_of' = channel_of
  BY <1>1, <1>2, <1>4, <1>y, RespondEnds, ReadOnlyStep
<1>5. CASE /\ HasSession(q.conn) /\ Respond("ok")
           /\ channel_of' = [channel_of EXCEPT ![q.conn] = q.channel]
  <2>1. Ends
    BY <1>5, <1>y, RespondEnds
  <2>2. /\ user_sessions \in [Conns -> Users \cup {None}] /\ late \subseteq Conns
        /\ channel_of \in [Conns -> Channels \cup {None}] /\ connections \subseteq Conns
    BY DEF TypeOK
  <2>3. channel_of' \in [Conns -> Channels \cup {None}]
    BY <1>2, <1>5, <2>2
  <2>4. \A c \in Conns : c # q.conn => channel_of'[c] = channel_of[c]
    BY <1>5, <2>2
  <2>5. \A c \in Conns \ accepted : channel_of'[c] = None
    BY <1>2, <2>4 DEF ConnInv
  <2>6. TypeOK' /\ ConnInv' /\ QueueInv' /\ AnswerInv'
    BY <1>1, <1>2, <2>1, <2>2, <2>3, <2>5, HandlerStep
  <2>7. JoinInv'
    BY <2>1 DEF JoinInv, Ends, AppIdle
  <2>8. NoChannelWithoutSession'
    BY <1>1, <1>5, <2>2, <2>4 DEF NoChannelWithoutSession, HasSession
  <2>9. StaleSessionOnlyIfLate'
    BY <1>1 DEF StaleSessionOnlyIfLate, HasSession
  <2> QED BY <2>6, <2>7, <2>8, <2>9
<1> QED BY <1>3, <1>4, <1>5 DEF JoinChannel

-----------------------------------------------------------------------------

LEMMA NextSessionsInv == SessionsInv /\ [Next]_vars => SessionsInv'
<1> SUFFICES ASSUME SessionsInv, [Next]_vars PROVE SessionsInv'
  OBVIOUS
<1>1. CASE IoNext
  <2>1. CASE \E c \in Conns : CreateConnection(c) \/ RemoveConnection(c)
    BY <2>1, CreateConnectionInv, RemoveConnectionInv
  <2>2. CASE \E c \in Conns :
               \/ \E u \in Users : Receive(c, "authenticate", u, None)
               \/ \E ch \in Channels \cup {None} : Receive(c, "join", None, ch)
               \/ \E op \in {"logout", "write", "get"} : Receive(c, op, None, None)
    <3>1. PICK c \in Conns, op \in Ops, u \in Users \cup {None}, ch \in Channels \cup {None} :
            Receive(c, op, u, ch)
      BY <2>2 DEF Ops
    <3> QED BY <3>1, ReceiveInv
  <2> QED BY <1>1, <2>1, <2>2, IoFindSessionInv, IoBroadcastInv, IoEraseSessionInv DEF IoNext
<1>2. CASE AppNext
  BY <1>2, TakeRequestInv, ReadOnlyHandlers, AssignSessionInv, LogoutEraseInv, JoinChannelInv
  DEF AppNext
<1>3. CASE UNCHANGED vars
  BY <1>3 DEF vars, netVars, storeVars, histVars, SessionsInv, TypeOK, ConnInv, JoinInv, QueueInv,
              Taken, AnswerInv, Answered, NoChannelWithoutSession, StaleSessionOnlyIfLate, HasSession
<1> QED BY <1>1, <1>2, <1>3 DEF Next

(* In every reachable state: a disconnect is handled after its connection  *)
(* was removed, the queue holds the requests in their order, a request has *)
(* no answer before its handler ends and one afterwards.                   *)
THEOREM SessionsInvariant == Spec => []SessionsInv
BY InitSessionsInv, NextSessionsInv, PTL DEF Spec

(* An open connection without a session is in no channel, although the     *)
(* session and the channel are kept in two stores and a disconnect removes *)
(* only the session.                                                       *)
THEOREM ChannelsNeedSessions == Spec => []NoChannelWithoutSession
<1>1. SessionsInv => NoChannelWithoutSession
  BY DEF SessionsInv
<1> QED BY <1>1, SessionsInvariant, PTL

(* OnDisconnect ends the session of its connection, whatever handler it    *)
(* meets: only an authentication handled after the connection was removed  *)
(* leaves one behind.                                                      *)
THEOREM SessionsEndWithConnections == Spec => []StaleSessionOnlyIfLate
<1>1. SessionsInv => StaleSessionOnlyIfLate
  BY DEF SessionsInv
<1> QED BY <1>1, SessionsInvariant, PTL

(* No early return of a handler leaves a connected client without an       *)
(* answer, and none answers twice.                                         *)
THEOREM RequestsAreAnswered == Spec => []AnsweredOnce
<1>1. SessionsInv => AnsweredOnce
  <2> SUFFICES ASSUME SessionsInv, NEW i \in 1 .. MaxRequests
               PROVE  /\ Len(reply[i]) <= 1
                      /\ /\ i <= requests /\ (\A k \in DOMAIN queue : queue[k].id # i)
                         /\ (app # AppIdle => app.req.id # i)
                         => reply[i] # <<>> \/ i \in closed_on
    BY DEF AnsweredOnce
  <2>t. /\ requests \in Nat /\ Len(queue) \in Nat /\ MaxRequests \in Nat
        /\ DOMAIN queue = 1 .. Len(queue)
    BY Types DEF SessionsInv
  <2>0. Len(<<>>) = 0
    OBVIOUS
  <2>1. Len(reply[i]) <= 1
    <3>1. reply[i] = <<>> \/ Len(reply[i]) = 1
      BY DEF SessionsInv, AnswerInv, Answered
    <3>2. CASE reply[i] = <<>>
      BY <2>0, <3>2
    <3>3. CASE Len(reply[i]) = 1
      BY <3>3
    <3> QED BY <3>1, <3>2, <3>3
  <2>2. ASSUME i <= requests, \A k \in DOMAIN queue : queue[k].id # i, app # AppIdle => app.req.id # i
        PROVE  reply[i] # <<>> \/ i \in closed_on
    <3>1. i <= Taken
      <4> SUFFICES ASSUME i > Taken PROVE FALSE
        BY <2>t DEF Taken
      <4>1. i - Taken \in 1 .. Len(queue)
        BY <2>2, <2>t DEF Taken
      <4>2. queue[i - Taken].id = Taken + (i - Taken)
        BY <4>1 DEF SessionsInv, QueueInv
      <4> QED BY <2>2, <2>t, <4>1, <4>2 DEF Taken
    <3>2. i < Taken \/ (i = Taken /\ app = AppIdle)
      <4>1. Taken \in Int /\ i \in Int
        BY <2>t DEF Taken
      <4>2. app # AppIdle => Taken # i
        BY <2>2 DEF SessionsInv, QueueInv
      <4> QED BY <3>1, <4>1, <4>2
    <3>3. Answered(i)
      BY <3>2 DEF SessionsInv, AnswerInv
    <3> QED BY <2>0, <3>3 DEF Answered
  <2> QED BY <2>1, <2>2
<1> QED BY <1>1, SessionsInvariant, PTL

=============================================================================
