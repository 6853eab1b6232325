----------------------------- MODULE ChatHistory -----------------------------
(***************************************************************************)
(* What the message store promises, without caches, queues, batches and    *)
(* threads: a history of messages of which a part is durable.  A crash     *)
(* forgets exactly the part that is not durable, and an answer to a        *)
(* GetChats request is the latest messages of the channel.                 *)
(***************************************************************************)
EXTENDS Integers, FiniteSets, Sequences

CONSTANTS Channels, Limits

VARIABLES
  history,   \* the messages clients have seen
  durable,   \* the ones that survive a crash
  answer     \* <<the answer to the request that is served>>, or <<>>

vars == <<history, durable, answer>>

IdsOf(c) == {m.id : m \in {x \in history : x.channel = c}}

Newest(S, n) == {i \in S : Cardinality({j \in S : j > i}) < n}

Init == history = {} /\ durable = {} /\ answer = <<>>

(* A message is given an id above every id in use. *)
Post(c) ==
  /\ answer = <<>>
  /\ \E m \in history' \ history :
       /\ m.channel = c
       /\ \A x \in history : x.id < m.id
       /\ history' = history \cup {m}
  /\ UNCHANGED <<durable, answer>>

(* Some of the history becomes durable. *)
Flush ==
  /\ durable \subseteq durable'
  /\ durable' \subseteq history
  /\ UNCHANGED <<history, answer>>

Answer(c, n) ==
  /\ answer = <<>>
  /\ answer' = <<[channel |-> c, limit |-> n, ids |-> Newest(IdsOf(c), n)]>>
  /\ UNCHANGED <<history, durable>>

Answered ==
  /\ answer' = <<>>
  /\ UNCHANGED <<history, durable>>

(* The process ends: what is not durable is gone, as is the answer. *)
Forget ==
  /\ history' = durable
  /\ answer' = <<>>
  /\ UNCHANGED durable

Next ==
  \/ \E c \in Channels : Post(c)
  \/ Flush
  \/ \E c \in Channels, n \in Limits : Answer(c, n)
  \/ Answered
  \/ Forget

Spec == Init /\ [][Next]_vars
=============================================================================
