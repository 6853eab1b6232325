-------------------------- MODULE MCMessageDispatch --------------------------
(* Two connections with two messages each.  The first of n1 is any message *)
(* the other end sends, whole or with a fault; the others are chats.       *)
EXTENDS MessageDispatch

CONSTANTS n1, n2

MCConnections == {n1, n2}

MCScripts(end) ==
  LET usual == [type |-> IF end = "server" THEN "WriteChatMessage" ELSE "ReceiveChatMessage", fault |-> "none"]
      types == IF end = "server" THEN ClientSends ELSE ServerSends
      first == [type : types, fault : {"none"}] \cup [type : {usual.type}, fault : Faults]
  IN  {[m \in MCConnections \X (1 .. MaxArrivals) |-> IF m = <<n1, 1>> THEN f ELSE usual] : f \in first}
=============================================================================
