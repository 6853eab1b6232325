--------------------------- MODULE MessageDispatch ---------------------------
(***************************************************************************)
(* TcpMessageProcessor with what is in the messages: the bytes that arrive *)
(* are decoded to an envelope by the I/O thread, and to a message by the   *)
(* application thread, which calls the handler of its type.  One end of    *)
(* the protocol is modelled, the server with its DirectMessageHandler or   *)
(* a client with its ObservableMessageHandler; the other end sends.        *)
(***************************************************************************)
EXTENDS TcpMessageProcessor, ChatApi

CONSTANT
  Scripts(_)    \* what may arrive at an end: a set of functions from the
                \* messages of TcpMessageProcessor to [type, fault]

VARIABLES
  side,         \* the end that is modelled, "server" or "client"
  script,       \* what arrives
  dispatched    \* history: calls of handlers, in order

dispatchVars == <<side, script, dispatched>>
allVars == <<processorVars, dispatchVars>>

-----------------------------------------------------------------------------
(* What the two ends send and handle.                                      *)

ClientRequests ==
  {"AuthenticateUserRequestMessage", "CreateUserRequestMessage", "CreateChannelRequestMessage",
   "JoinChatChannelRequestMessage", "GetChatsRequestMessage", "GetChatChannelsRequestMessage",
   "GetChatChannelRequestMessage", "GetUsersRequestMessage", "LogoutRequestMessage"}

ClientSends == ClientRequests \cup {"WriteChatMessage"}

(* Answers to these requests, errors, and broadcasts. *)
ServerSends ==
  {"AuthenticateUserResponseMessage", "CreateUserResponseMessage", "CreateChannelResponseMessage",
   "JoinChatChannelResponseMessage", "GetChatsResponseMessage", "GetChatChannelsResponseMessage",
   "GetChatChannelResponseMessage", "GetUsersResponseMessage", "LogoutResponseMessage",
   "ErrorResponseMessage", "ErrorMessage", "ReceiveChatMessage", "UserLoginEventMessage",
   "UserLogoutEventMessage", "ChannelCreateEventMessage", "ChannelJoinEventMessage",
   "ChannelLeaveEventMessage"}

(* RegisterMessageHandler in UserServerSystem and ChatServerSystem. *)
UserServerHandlers ==
  {"CreateUserRequestMessage", "AuthenticateUserRequestMessage", "GetUsersRequestMessage",
   "GetUserRequestMessage"}
ChatServerHandlers ==
  {"WriteChatMessage", "CreateChannelRequestMessage", "JoinChatChannelRequestMessage",
   "GetChatsRequestMessage", "GetChatChannelsRequestMessage", "GetChatChannelRequestMessage",
   "ShutdownMessage", "LogoutRequestMessage"}

(* RegisterEventMessageHandler in SessionSystem. *)
EventHandlers ==
  {"ErrorMessage", "PrintMessage", "UserLoginEventMessage", "UserLogoutEventMessage",
   "ReceiveChatMessage", "ChannelCreateEventMessage", "ChannelJoinEventMessage",
   "ChannelLeaveEventMessage"}

(* What RpcSystem subscribes to for the calls that are pending. *)
RpcHandlers == {RpcResponseType[r] : r \in ClientRequests} \cup {"ErrorResponseMessage"}

ServerHandlers == UserServerHandlers \cup ChatServerHandlers
ClientHandlers == EventHandlers \cup RpcHandlers

HasHandler(type) == type \in IF side = "server" THEN ServerHandlers ELSE ClientHandlers

-----------------------------------------------------------------------------

(* What is wrong with bytes that arrive; "none" are those of Encode.       *)
Faults == {"none", "cut", "no_type_id", "no_payload", "text_type_id", "unknown_type", "no_member"}

Bytes(f) ==
  LET good == Encode(f.type, Sample(f.type, ""))
      lost == CHOOSE m \in JsonMembers(f.type) : TRUE
      Without(function, key) == [k \in DOMAIN function \ {key} |-> function[k]]
  IN  CASE f.fault = "none"         -> good
        [] f.fault = "cut"          -> [json |-> "discarded", v |-> <<>>]
        [] f.fault = "no_type_id"   -> [good EXCEPT !.v = Without(@, "type_id")]
        [] f.fault = "no_payload"   -> [good EXCEPT !.v = Without(@, "payload")]
        [] f.fault = "text_type_id" -> [good EXCEPT !.v.type_id.json = "string"]
        [] f.fault = "unknown_type" -> [good EXCEPT !.v.type_id.v = 0]
        [] f.fault = "no_member"    -> [good EXCEPT !.v.payload.v = Without(@, lost)]

(* CreateMessageHandlerLookup. *)
TypesOf(type_id) == {t \in MessageTypes : TypeId[t] = type_id}

(* The first lines of Enqueue. *)
Recognised(bytes) ==
  LET envelope == DecodeEnvelope(bytes)
  IN  envelope # Nullopt /\ TypesOf(envelope.type_id) # {}

Arrive(c) ==
  /\ arrived[c] < MaxArrivals
  /\ IF Recognised(Bytes(script[<<c, arrived[c] + 1>>])) THEN Enqueue(c) ELSE Undecodable(c)
  /\ UNCHANGED dispatchVars

(* HandleMessage of the processor, and then of the message handler, which  *)
(* has a handler for the type or does nothing.                             *)
HandleMessage ==
  /\ RunTask
  /\ LET m == Head(buffer)
         envelope == DecodeEnvelope(Bytes(script[m]))
         type == CHOOSE t \in TypesOf(envelope.type_id) : TRUE
         message == Decode(type, envelope.payload)
     IN  dispatched' = IF message # Nullopt /\ HasHandler(type)
                       THEN Append(dispatched, <<m[1], type, message>>)
                       ELSE dispatched
  /\ UNCHANGED <<side, script>>

AppStep ==
  \/ HandleMessage
  \/ (ProcessBlocking \/ Wake \/ BufferDone \/ ThreadExits) /\ UNCHANGED dispatchVars

DispatchInit ==
  /\ ProcessorInit
  /\ side \in {"server", "client"}
  /\ script \in Scripts(side)
  /\ dispatched = <<>>

DispatchNext ==
  \/ \E c \in Connections : Arrive(c)
  \/ AppStep
  \/ (NotifyOne \/ SpuriousWake \/ Stop \/ Join) /\ UNCHANGED dispatchVars

(* The threads are those of TcpMessageProcessor. *)
DispatchSpec == DispatchInit /\ [][DispatchNext]_allVars /\ Fairness

-----------------------------------------------------------------------------

(* What a handler gets for a message that was sent: ChatMessage::channel_id *)
(* is not in the JSON form and arrives as 0.                               *)
AsReceived(type) ==
  IF type = "GetChatsResponseMessage"
  THEN [Sample(type, "") EXCEPT !.messages[1].channel_id = "0"]
  ELSE Sample(type, "")

(* For every message one end sends, the other end has a handler, and it is *)
(* called with the members that were sent, in the order of arrival,        *)
(* whatever arrives in between; bytes that are not such a message reach no *)
(* handler.                                                                *)
DispatchedAsSent ==
  LET good == SelectSeq(handled, LAMBDA m : script[m].fault = "none")
  IN  dispatched = [i \in DOMAIN good |->
        <<good[i][1], script[good[i]].type, AsReceived(script[good[i]].type)>>]
=============================================================================
