------------------------------- MODULE ChatApi -------------------------------
(***************************************************************************)
(* The messages of the chat protocol and their JSON form.                  *)
(*                                                                         *)
(* A struct is the function from its members to their kinds: "u32", "u64", *)
(* "string", the name of a nested struct, or the name of a list.  A value  *)
(* in C++ is a function from the members to values; what a number or a     *)
(* string is does not matter, so the value of a member is its name, and a  *)
(* list has one element.  A JSON value is a record of what it is (`json')  *)
(* and its value; bytes that are not JSON are "discarded".                 *)
(*                                                                         *)
(* An operator named X_Y is a mutant of X: the code with the mistake Y.    *)
(***************************************************************************)
EXTENDS Integers, Sequences, TLC

CONSTANT Nullopt   \* std::nullopt

-----------------------------------------------------------------------------
(* api.hpp: the structs.                                                   *)

Data == [
  ChatMessage |-> [id |-> "u32", channel_id |-> "u32", user_id |-> "u32", content |-> "string"],
  ChatChannel |-> [id |-> "u32", name |-> "string"],
  User        |-> [id |-> "u32", name |-> "string"]]

ListOf == [ids |-> "u32", ChatMessages |-> "ChatMessage", ChatChannels |-> "ChatChannel", Users |-> "User"]

Request(members) == members @@ [request_id |-> "u64"]

Chat == [
  PrintMessage       |-> [value |-> "string"],
  ErrorMessage       |-> [value |-> "string"],
  ErrorResponseMessage |-> Request([value |-> "string"]),
  ShutdownMessage    |-> <<>>,
  ReceiveChatMessage |-> [user_id |-> "u32", channel_id |-> "u32", content |-> "string"],
  WriteChatMessage   |-> [content |-> "string"],
  GetChatsRequestMessage        |-> Request([channel_id |-> "u32", limit |-> "u32"]),
  GetChatsResponseMessage       |-> Request([channel_id |-> "u32", messages |-> "ChatMessages"]),
  CreateChannelRequestMessage   |-> Request([name |-> "string"]),
  CreateChannelResponseMessage  |-> Request([channel |-> "ChatChannel"]),
  CreateUserRequestMessage      |-> Request([name |-> "string", password |-> "string"]),
  CreateUserResponseMessage     |-> Request([user |-> "User"]),
  GetUsersRequestMessage        |-> Request([user_ids |-> "ids"]),
  GetUsersResponseMessage       |-> Request([users |-> "Users"]),
  GetUserRequestMessage         |-> Request([name |-> "string"]),
  GetUserResponseMessage        |-> Request([user |-> "User"])]

Sessions == [
  AuthenticateUserRequestMessage  |-> Request([name |-> "string", password |-> "string"]),
  AuthenticateUserResponseMessage |-> Request([user |-> "User"]),
  JoinChatChannelRequestMessage   |-> Request([channel_id |-> "u32"]),
  JoinChatChannelResponseMessage  |-> Request([channel_id |-> "u32"]),
  GetChatChannelsRequestMessage   |-> Request(<<>>),
  GetChatChannelsResponseMessage  |-> Request([channels |-> "ChatChannels"]),
  GetChatChannelRequestMessage    |-> Request([channel_id |-> "u32"]),
  GetChatChannelResponseMessage   |-> Request([channel |-> "ChatChannel"]),
  LogoutRequestMessage            |-> Request(<<>>),
  LogoutResponseMessage           |-> Request(<<>>),
  UserLogoutEventMessage    |-> [user_id |-> "u32"],
  UserLoginEventMessage     |-> [user_id |-> "u32"],
  ChannelLeaveEventMessage  |-> [channel_id |-> "u32", user_id |-> "u32"],
  ChannelJoinEventMessage   |-> [channel_id |-> "u32", user_id |-> "u32"],
  ChannelCreateEventMessage |-> [channel |-> "ChatChannel", user_id |-> "u32"]]

Structs == Data @@ Chat @@ Sessions

(* MessageTypes, with the TypeId of each. *)
TypeId == [
  PrintMessage |-> 99, ErrorResponseMessage |-> 100, ErrorMessage |-> 101, ShutdownMessage |-> 102,
  ReceiveChatMessage |-> 103, WriteChatMessage |-> 104,
  GetChatsRequestMessage |-> 105, GetChatsResponseMessage |-> 106,
  CreateChannelRequestMessage |-> 107, CreateChannelResponseMessage |-> 108,
  CreateUserRequestMessage |-> 109, CreateUserResponseMessage |-> 110,
  GetUsersRequestMessage |-> 111, GetUsersResponseMessage |-> 112,
  GetUserRequestMessage |-> 113, GetUserResponseMessage |-> 114,
  AuthenticateUserRequestMessage |-> 115, AuthenticateUserResponseMessage |-> 116,
  JoinChatChannelRequestMessage |-> 117, JoinChatChannelResponseMessage |-> 118,
  GetChatChannelsRequestMessage |-> 119, GetChatChannelsResponseMessage |-> 120,
  GetChatChannelRequestMessage |-> 121, GetChatChannelResponseMessage |-> 122,
  LogoutRequestMessage |-> 123, LogoutResponseMessage |-> 124,
  UserLogoutEventMessage |-> 125, UserLoginEventMessage |-> 126,
  ChannelLeaveEventMessage |-> 127, ChannelJoinEventMessage |-> 128, ChannelCreateEventMessage |-> 129]

MessageTypes == DOMAIN TypeId

(* RpcCall: the type a request is answered with; an error always is an     *)
(* ErrorResponseMessage.                                                   *)
RpcResponseType == [
  AuthenticateUserRequestMessage |-> "AuthenticateUserResponseMessage",
  JoinChatChannelRequestMessage  |-> "JoinChatChannelResponseMessage",
  GetChatsRequestMessage         |-> "GetChatsResponseMessage",
  GetChatChannelsRequestMessage  |-> "GetChatChannelsResponseMessage",
  GetChatChannelRequestMessage   |-> "GetChatChannelResponseMessage",
  CreateUserRequestMessage       |-> "CreateUserResponseMessage",
  CreateChannelRequestMessage    |-> "CreateChannelResponseMessage",
  GetUsersRequestMessage         |-> "GetUsersResponseMessage",
  GetUserRequestMessage          |-> "GetUserResponseMessage",
  LogoutRequestMessage           |-> "LogoutResponseMessage"]

-----------------------------------------------------------------------------
(* json_api.hpp: the members that are in the JSON form.                    *)

JsonMembers_NoPassword(struct) ==
  DOMAIN Structs[struct] \ (IF struct = "ChatMessage" THEN {"channel_id"} ELSE {"password"})

JsonMembers(struct) ==
  DOMAIN Structs[struct] \ (IF struct = "ChatMessage" THEN {"channel_id"} ELSE {})

Scalars == [u32 |-> "number", u64 |-> "number", string |-> "string"]

(* A message of the given type with a value in every member. *)
RECURSIVE Sample(_, _)
Sample(kind, name) ==
  CASE kind \in DOMAIN Scalars -> name
    [] kind \in DOMAIN ListOf  -> <<Sample(ListOf[kind], name)>>
    [] kind \in DOMAIN Structs -> [m \in DOMAIN Structs[kind] |-> Sample(Structs[kind][m], m)]

(* to_json. *)
RECURSIVE ToJson(_, _)
ToJson(kind, value) ==
  CASE kind \in DOMAIN Scalars -> [json |-> Scalars[kind], v |-> value]
    [] kind \in DOMAIN ListOf  -> [json |-> "array", v |-> [i \in DOMAIN value |-> ToJson(ListOf[kind], value[i])]]
    [] kind \in DOMAIN Structs ->
         [json |-> "object", v |-> [m \in JsonMembers(kind) |-> ToJson(Structs[kind][m], value[m])]]

(* from_json does not throw: every member of the JSON form is there and is *)
(* what it should be.  That of ShutdownMessage looks at nothing.           *)
RECURSIVE Converts(_, _)
Converts(kind, j) ==
  CASE kind \in DOMAIN Scalars -> j.json = Scalars[kind]
    [] kind \in DOMAIN ListOf  -> j.json = "array" /\ \A i \in DOMAIN j.v : Converts(ListOf[kind], j.v[i])
    [] kind = "ShutdownMessage" -> TRUE
    [] OTHER ->
         /\ j.json = "object"
         /\ \A m \in JsonMembers(kind) : m \in DOMAIN j.v /\ Converts(Structs[kind][m], j.v[m])

(* from_json: a member that is not in the JSON form is value-initialised. *)
RECURSIVE FromJson(_, _)
FromJson(kind, j) ==
  CASE kind \in DOMAIN Scalars -> j.v
    [] kind \in DOMAIN ListOf  -> [i \in DOMAIN j.v |-> FromJson(ListOf[kind], j.v[i])]
    [] kind \in DOMAIN Structs ->
         [m \in DOMAIN Structs[kind] |-> IF m \in JsonMembers(kind) THEN FromJson(Structs[kind][m], j.v[m]) ELSE "0"]

-----------------------------------------------------------------------------
(* JsonNetworkCodec.                                                       *)

Encode(type, message) ==
  [json |-> "object",
   v |-> [type_id |-> [json |-> "number", v |-> TypeId[type]], payload |-> ToJson(type, message)]]

Decode(type, payload) == IF Converts(type, payload) THEN FromJson(type, payload) ELSE Nullopt

DecodeEnvelope(bytes) ==
  IF /\ bytes.json = "object"
     /\ {"type_id", "payload"} \subseteq DOMAIN bytes.v
     /\ bytes.v.type_id.json = "number"
  THEN [type_id |-> bytes.v.type_id.v, payload |-> bytes.v.payload]
  ELSE Nullopt
=============================================================================
