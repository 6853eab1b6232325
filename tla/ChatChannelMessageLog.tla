------------------------ MODULE ChatChannelMessageLog ------------------------
(***************************************************************************)
(* The log of one channel, as the vector of ids the code keeps.  Module    *)
(* ChatMessageStore abstracts the vector to the set of its elements; here  *)
(* its sort, merge, deduplication and lower_bound are spelled out, and     *)
(* requests may start below any id, as the store's GetMessagesBefore       *)
(* allows (the server itself asks below the largest id only; once a        *)
(* request has started elsewhere, the log may have gaps it does not know). *)
(*                                                                         *)
(* The log belongs to the application thread, so each operation is one     *)
(* step; Persist, on the scheduler thread, only adds rows.  The ids of     *)
(* this channel have gaps: other channels take ids too.                    *)
(*                                                                         *)
(* An operator named X_Y is a mutant of X: the code with the mistake Y,    *)
(* used to show that a property can fail.                                  *)
(***************************************************************************)
EXTENDS Integers, Sequences, FiniteSets, SequencesExt

CONSTANTS
  MaxMessageId,         \* stands for numeric_limits<PersistenceId>::max(); bound of the ids
  StoredIds,            \* bound: the rows found at startup are among these ids
  PrewarmMessageCount,
  Limits,               \* the limits of requests
  Befores               \* ids requests may start below

VARIABLES
  rows,                 \* ids of this channel in the table
  pending,              \* ids of this channel that Persist has yet to insert
  next_id,
  prewarmed,
  channel_message_ids,
  cache_complete,
  answer,               \* history: the last request and its result
  paged                 \* history: a request started below another id than the largest

vars == <<rows, pending, next_id, prewarmed, channel_message_ids, cache_complete,
          answer, paged>>

(* Every message of the channel, stored or not. *)
Messages == rows \cup pending

-----------------------------------------------------------------------------
(* The algorithms on vectors.                                              *)

(* std::ranges::sort *)
SortIds(v) == SortSeq(v, LAMBDA a, b : a < b)

(* std::ranges::unique and the erase after it: consecutive duplicates go. *)
Unique(v) ==
  FoldLeft(LAMBDA acc, x : IF acc # <<>> /\ Last(acc) = x THEN acc ELSE Append(acc, x),
           <<>>, v)

(* std::ranges::inplace_merge of a sorted front and a sorted back. *)
InplaceMerge(front, back) ==
  LET merge[i \in 0 .. Len(front), j \in 0 .. Len(back)] ==
        IF i = Len(front) THEN SubSeq(back, j + 1, Len(back))
        ELSE IF j = Len(back) THEN SubSeq(front, i + 1, Len(front))
        ELSE IF back[j + 1] < front[i + 1]
             THEN <<back[j + 1]>> \o merge[i, j + 1]
             ELSE <<front[i + 1]>> \o merge[i + 1, j]
  IN  merge[0, 0]

(* std::ranges::lower_bound, as the number of elements before it. *)
LowerBound(v, id) == Cardinality({i \in DOMAIN v : v[i] < id})

(* AssignMessageIds. *)
Assigned_AppendsOnly(v, ids) == v \o Unique(SortIds(ids))

Assigned(v, ids) ==
  IF ids = <<>> THEN v ELSE Unique(InplaceMerge(v, Unique(SortIds(ids))))

(* SqliteChatPersistenceAdapter::GetChatMessagesBefore: the newest `limit` *)
(* rows below the id, ascending.                                           *)
Query(id, limit) ==
  LET older == {r \in rows : r < id}
  IN  SetToSortSeq({r \in older : Cardinality({s \in older : s > r}) < limit},
                   LAMBDA a, b : a < b)

-----------------------------------------------------------------------------

Init ==
  /\ rows \in SUBSET StoredIds
  /\ pending = {}
  /\ next_id = 1 + Cardinality(StoredIds)
  /\ prewarmed = FALSE
  /\ channel_message_ids = <<>>
  /\ cache_complete = FALSE
  /\ answer = <<>>
  /\ paged = FALSE

Prewarm ==
  /\ ~ prewarmed
  /\ prewarmed' = TRUE
  /\ channel_message_ids' =
       Assigned(channel_message_ids, Query(MaxMessageId, PrewarmMessageCount))
  /\ UNCHANGED <<rows, pending, next_id, cache_complete, answer, paged>>

(* CreateMessage for another channel takes an id. *)
OtherChannel ==
  /\ prewarmed
  /\ next_id < MaxMessageId
  /\ next_id' = next_id + 1
  /\ UNCHANGED <<rows, pending, prewarmed, channel_message_ids, cache_complete, answer, paged>>

(* CreateMessage for this channel: the log becomes newIds. *)
CreateMessage(newIds) ==
  /\ prewarmed
  /\ next_id < MaxMessageId
  /\ next_id' = next_id + 1
  /\ pending' = pending \cup {next_id}
  /\ channel_message_ids' = newIds
  /\ UNCHANGED <<rows, prewarmed, cache_complete, answer, paged>>

AppendMessageId ==
  CreateMessage(IF channel_message_ids # <<>> /\ next_id <= Last(channel_message_ids)
                THEN channel_message_ids ELSE Append(channel_message_ids, next_id))

(* Persist, as the log sees it. *)
Persist ==
  /\ pending # {}
  /\ rows' = rows \cup pending
  /\ pending' = {}
  /\ UNCHANGED <<next_id, prewarmed, channel_message_ids, cache_complete, answer, paged>>

QueryAndCacheMessages_CacheFirst(id, n, below, limit, cached) ==
  LET found == Query(below, limit)
  IN  /\ cache_complete' = (cache_complete \/ limit > Len(found))
      /\ channel_message_ids' = Assigned(channel_message_ids, found)
      /\ answer' = <<[before |-> id, limit |-> n, ids |-> cached \o found]>>

(* QueryAndCacheMessages(below, limit) on the way to the result of the     *)
(* request: the query, cache_complete_, CacheMessages, and the result in   *)
(* front of what the cache had.                                            *)
QueryAndCacheMessages(id, n, below, limit, cached) ==
  LET found == Query(below, limit)
  IN  /\ cache_complete' = (cache_complete \/ limit > Len(found))
      /\ channel_message_ids' = Assigned(channel_message_ids, found)
      /\ answer' = <<[before |-> id, limit |-> n, ids |-> found \o cached]>>

GetChatMessagesBefore(id, n) ==
  LET available == LowerBound(channel_message_ids, id)
      take      == IF available < n THEN available ELSE n
      cached    == SubSeq(channel_message_ids, available - take + 1, available)
  IN  /\ prewarmed
      /\ \/ /\ n = 0
            /\ answer' = <<[before |-> id, limit |-> n, ids |-> <<>>]>>
            /\ UNCHANGED <<channel_message_ids, cache_complete>>
         \/ /\ n > 0 /\ available = 0    \* case 1
            /\ QueryAndCacheMessages(id, n, id, n, <<>>)
         \/ /\ n > 0 /\ available > 0    \* case 2
            /\ cache_complete \/ n <= take
            /\ answer' = <<[before |-> id, limit |-> n, ids |-> cached]>>
            /\ UNCHANGED <<channel_message_ids, cache_complete>>
         \/ /\ n > 0 /\ available > 0    \* case 3
            /\ ~ cache_complete /\ n > take
            /\ QueryAndCacheMessages(id, n, cached[1], n - take, cached)
      /\ paged' = (paged \/ id # MaxMessageId)
      /\ UNCHANGED <<rows, pending, next_id, prewarmed>>

Next ==
  \/ Prewarm
  \/ OtherChannel
  \/ AppendMessageId
  \/ Persist
  \/ \E id \in Befores, n \in Limits : GetChatMessagesBefore(id, n)

Spec == Init /\ [][Next]_vars

-----------------------------------------------------------------------------

(* The ids of the log are ids that next_id_ has handed out or will, below the largest id. *)
TypeOK ==
  /\ rows \subseteq 1 .. MaxMessageId /\ pending \subseteq 1 .. MaxMessageId
  /\ next_id \in 1 .. MaxMessageId
  /\ prewarmed \in BOOLEAN /\ cache_complete \in BOOLEAN
  /\ channel_message_ids \in Seq(1 .. (MaxMessageId - 1))

(* The comment on channel_message_ids_: unique and sorted ascending, under *)
(* any order of appends, queries below any id and merges.                  *)
SortedUnique ==
  \A i, j \in DOMAIN channel_message_ids :
    i < j => channel_message_ids[i] < channel_message_ids[j]

(* What a request has to be answered with: the newest `limit` ids of the   *)
(* channel below `before`, oldest first, stored or not.                    *)
Expected(a) ==
  LET older == {m \in Messages : m < a.before}
  IN  SetToSortSeq({m \in older : Cardinality({x \in older : x > m}) < a.limit},
                   LAMBDA x, y : x < y)

(* GetLatestChatMessages, which is all the server's handlers ask for, is   *)
(* answered exactly: neither cache_complete_ nor the cache below it ever   *)
(* hides a message, whatever was created or persisted in between.          *)
LatestExact ==
  [][answer' # answer /\ ~ paged' => answer'[1].ids = Expected(answer'[1])]_vars

(* The log holds everything the table does not: a message that is only     *)
(* queued is always found in memory, so no query can miss it.              *)
PendingInLog == pending \subseteq Range(channel_message_ids)

(* Both hold together: the log is in order and misses nothing that only    *)
(* memory has.                                                             *)
LogIsSound == SortedUnique /\ PendingInLog

=============================================================================
