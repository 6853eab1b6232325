-------------------------- MODULE ChatMessageStore --------------------------
(***************************************************************************)
(* The write-behind message store of the chat server: ChatMessageStore,    *)
(* the channel logs it owns, and the SQLite table behind it.               *)
(*                                                                         *)
(* Three threads touch it.  The application thread handles the requests    *)
(* (HandleWriteChatMessage, HandleGetChats), the scheduler thread runs     *)
(* Persist once a second, and the main thread runs Prewarm at startup and  *)
(* one last Persist at shutdown.  Only pending_messages_ and               *)
(* latest_persisted_id_ are guarded by mutex_; everything else the store   *)
(* keeps belongs to the application thread.  All threads use ONE SQLite    *)
(* connection, so a query sees the rows of a transaction that is open on   *)
(* it, and a second BEGIN on it throws.  An exception that leaves Persist  *)
(* ends the process (std::terminate).                                      *)
(*                                                                         *)
(* A message keeps its id and its channel; user and text do not matter     *)
(* here.  A channel log is the set of the ids in its vector: module        *)
(* ChatChannelMessageLog models the vector, and shows that it stays sorted *)
(* and unique and gives the same answers.                                  *)
(*                                                                         *)
(* An operator named X_Y is a mutant of X: the code with the mistake Y,    *)
(* used to show that a property can fail.                                  *)
(***************************************************************************)
EXTENDS Integers, Sequences, FiniteSets

CONSTANTS
  Channels,             \* ids of the channels stored in the database
  MaxMessages,          \* bound: ids 0 .. MaxMessages - 1 are given out
  PrewarmMessageCount,  \* rows of a channel Prewarm loads (100 in the code)
  Limits                \* the limits clients put into GetChats requests

ASSUME ConstantsAssumption ==
  /\ MaxMessages \in Nat
  /\ PrewarmMessageCount \in Nat
  /\ Limits \subseteq Nat

VARIABLES
  db,                   \* committed rows of chat_messages
  txn,                  \* rows inserted by the open transaction
  txn_owner,            \* the thread whose transaction is open, or Nobody
  phase,                \* how far the process is in its life
  next_id,
  latest_persisted_id,  \* NoId stands for std::nullopt
  message_cache,        \* the values of message_cache_
  channel_message_ids,  \* per channel, the ids in the vector of its log
  cache_complete,       \* per channel, cache_complete_ of its log
  pending_messages,
  persist_pc,           \* per persisting thread, where it is in Persist
  batch,                \* per persisting thread, swapped out and not inserted
  last_id,              \* per persisting thread, last_persisted_id
  app_pc,               \* where the application thread is in HandleGetChats
  request,              \* the GetChats request it is handling
  taken,                \* cached_result
  queried,              \* ids the query returned
  rows,                 \* rows of the query not yet given to AssignMessage
  sent,                 \* history: messages broadcast and not lost in a crash
  first_id              \* history: next_id as Prewarm left it

dbVars      == <<db, txn, txn_owner>>
lockedVars  == <<latest_persisted_id, pending_messages>>
persistVars == <<persist_pc, batch, last_id>>
appVars     == <<app_pc, request, taken, queried, rows>>
logVars     == <<message_cache, channel_message_ids, cache_complete>>
vars == <<dbVars, lockedVars, persistVars, appVars, logVars, phase, next_id,
          sent, first_id>>

-----------------------------------------------------------------------------

NoId   == -1
Nobody == "nobody"

(* The threads that call Persist. *)
Persisters == {"scheduler", "main"}

MessageId == 0 .. (MaxMessages - 1)

Message == [id : MessageId, channel : Channels]

(* The application thread handles requests from Initialize until the       *)
(* processor is stopped, which is after the store's last Persist.          *)
Serving == phase \in {"up", "closing"}

SeqToSet(s) == {s[i] : i \in DOMAIN s}

ChannelIds(msgs, c) == {m.id : m \in {x \in msgs : x.channel = c}}

(* The n largest ids of S: ORDER BY id DESC LIMIT n, and the last n        *)
(* elements of an ascending vector.                                        *)
LatestIds(S, n) == {i \in S : Cardinality({j \in S : j > i}) < n}

MaxId(S) == IF S = {} THEN NoId ELSE CHOOSE i \in S : \A j \in S : j <= i

(* What a statement on the shared connection reads. *)
VisibleRows == db \cup txn

(* SqliteChatPersistenceAdapter::GetChatMessagesBefore, where `before` is  *)
(* given as the set of ids the result must stay below ({} for the largest  *)
(* id there is).                                                           *)
GetChatMessagesBefore(c, before, n) ==
  LET older == {i \in ChannelIds(VisibleRows, c) : \A j \in before : i < j}
  IN  {m \in VisibleRows : m.channel = c /\ m.id \in LatestIds(older, n)}

(* message_cache_.insert_or_assign *)
CacheInsert(cache, m) == {x \in cache : x.id # m.id} \cup {m}

-----------------------------------------------------------------------------
(* Life of the process.                                                    *)

FreshStore ==
  /\ next_id = 0
  /\ latest_persisted_id = NoId
  /\ message_cache = {}
  /\ channel_message_ids = [c \in Channels |-> {}]
  /\ cache_complete = [c \in Channels |-> FALSE]
  /\ pending_messages = <<>>
  /\ persist_pc = [t \in Persisters |-> "idle"]
  /\ batch = [t \in Persisters |-> <<>>]
  /\ last_id = [t \in Persisters |-> NoId]
  /\ app_pc = "idle"
  /\ request \in [channel : Channels, limit : {0}]
  /\ taken = {} /\ queried = {} /\ rows = {}
  /\ first_id = 0

(* The first start, on an empty database. *)
Init ==
  /\ db = {} /\ txn = {} /\ txn_owner = Nobody
  /\ phase = "starting"
  /\ sent = {}
  /\ FreshStore

(* The process is gone: SQLite rolls the open transaction back, everything *)
(* in memory is lost, and the messages that were only there with it.       *)
ProcessEnds(exit) ==
  /\ phase' = exit
  /\ db' = db /\ txn' = {} /\ txn_owner' = Nobody
  /\ sent' = IF exit = "exited" THEN sent ELSE db
  /\ next_id' = 0
  /\ latest_persisted_id' = NoId
  /\ message_cache' = {}
  /\ channel_message_ids' = [c \in Channels |-> {}]
  /\ cache_complete' = [c \in Channels |-> FALSE]
  /\ pending_messages' = <<>>
  /\ persist_pc' = [t \in Persisters |-> "idle"]
  /\ batch' = [t \in Persisters |-> <<>>]
  /\ last_id' = [t \in Persisters |-> NoId]
  /\ app_pc' = "idle"
  /\ request' = request
  /\ taken' = {} /\ queried' = {} /\ rows' = {}
  /\ first_id' = 0

Crash ==
  /\ phase \in {"starting", "up", "closing", "stopped"}
  /\ ProcessEnds("crashed")

Restart ==
  /\ phase \in {"crashed", "exited"}
  /\ phase' = "starting"
  /\ sent' = db
  /\ UNCHANGED <<dbVars, lockedVars, persistVars, appVars, logVars, next_id, first_id>>

Prewarm_ReusesLastId ==
  /\ phase = "starting"
  /\ latest_persisted_id' = MaxId({m.id : m \in VisibleRows})
  /\ next_id' = IF latest_persisted_id' = NoId THEN 0 ELSE latest_persisted_id'
  /\ first_id' = next_id'
  /\ channel_message_ids' =
       [c \in Channels |->
          channel_message_ids[c] \cup
          LatestIds(ChannelIds(VisibleRows, c), PrewarmMessageCount)]
  /\ message_cache' =
       LET loaded == UNION {GetChatMessagesBefore(c, {}, PrewarmMessageCount) : c \in Channels}
       IN  {m \in message_cache : \A r \in loaded : m.id # r.id} \cup loaded
  /\ phase' = "up"
  /\ UNCHANGED <<dbVars, pending_messages, persistVars, appVars, cache_complete, sent>>

(* ChatMessageStore::Prewarm, with ChatChannelMessageLog::Prewarm for      *)
(* every stored channel and the CacheMessages it calls.  Every id it reads *)
(* is at most MAX(id), so AssignMessage puts nothing into the queue.       *)
Prewarm ==
  /\ phase = "starting"
  /\ latest_persisted_id' = MaxId({m.id : m \in VisibleRows})
  /\ next_id' = latest_persisted_id' + 1
  /\ first_id' = next_id'
  /\ channel_message_ids' =
       [c \in Channels |->
          channel_message_ids[c] \cup
          LatestIds(ChannelIds(VisibleRows, c), PrewarmMessageCount)]
  /\ message_cache' =
       LET loaded == UNION {GetChatMessagesBefore(c, {}, PrewarmMessageCount) : c \in Channels}
       IN  {m \in message_cache : \A r \in loaded : m.id # r.id} \cup loaded
  /\ phase' = "up"
  /\ UNCHANGED <<dbVars, pending_messages, persistVars, appVars, cache_complete, sent>>

(* Application::Quit ends the wait of the main thread, which enters        *)
(* ChatServerSystem::Deinitialize: RemoveTask, and then Persist.  A        *)
(* callback the scheduler has already collected is not stopped.            *)
BeginShutdown ==
  /\ phase = "up"
  /\ phase' = "closing"
  /\ persist_pc' = [persist_pc EXCEPT !["main"] = "due"]
  /\ UNCHANGED <<dbVars, lockedVars, batch, last_id, appVars, logVars, next_id, sent, first_id>>

(* ApplicationSystem::Deinitialize, entered when Persist has returned:     *)
(* stop the processor and join the application thread.                     *)
StopApplication ==
  /\ phase = "closing"
  /\ persist_pc["main"] = "done"
  /\ app_pc = "idle"
  /\ phase' = "stopped"
  /\ UNCHANGED <<dbVars, lockedVars, persistVars, appVars, logVars, next_id, sent, first_id>>

(* SchedulingSystem::Deinitialize joins the scheduler thread, which first  *)
(* finishes the callback it is in; then the process exits.                 *)
Exit ==
  /\ phase = "stopped"
  /\ persist_pc["scheduler"] = "idle"
  /\ ProcessEnds("exited")

-----------------------------------------------------------------------------
(* Application thread.                                                     *)

(* CreateMessage with CacheMessage, AppendMessageId and AssignMessage, and *)
(* the broadcast of HandleWriteChatMessage that follows it.                *)
CreateMessage(c) ==
  LET m == [id |-> next_id, channel |-> c]
  IN  /\ Serving
      /\ next_id < MaxMessages
      /\ app_pc = "idle"
      /\ next_id' = next_id + 1
      /\ channel_message_ids' =
           IF \A i \in channel_message_ids[c] : i < next_id
           THEN [channel_message_ids EXCEPT ![c] = @ \cup {next_id}]
           ELSE channel_message_ids
      /\ message_cache' = CacheInsert(message_cache, m)
      /\ pending_messages' =
           IF next_id <= latest_persisted_id
           THEN pending_messages ELSE Append(pending_messages, m)
      /\ sent' = sent \cup {m}
      /\ UNCHANGED <<dbVars, persistVars, appVars, phase, latest_persisted_id,
                     cache_complete, first_id>>

HandleGetChats_CompleteTooEarly(c, n) ==
  LET log    == channel_message_ids[c]
      cached == LatestIds(log, n)
      result == GetChatMessagesBefore(c, cached, n - Cardinality(cached))
  IN  /\ Serving
      /\ app_pc = "idle"
      /\ request' = [channel |-> c, limit |-> n]
      /\ taken' = cached
      /\ \/ /\ n # 0
            /\ log = {} \/ (~ cache_complete[c] /\ Cardinality(log) < n)
            /\ queried' = {m.id : m \in result}
            /\ rows' = result
            /\ cache_complete' =
                 [cache_complete EXCEPT
                    ![c] = @ \/ Cardinality(result) <= n - Cardinality(cached)]
            /\ app_pc' = IF result = {} THEN "reply" ELSE "assign"
         \/ /\ n = 0 \/ (log # {} /\ (cache_complete[c] \/ n <= Cardinality(log)))
            /\ queried' = {} /\ rows' = {}
            /\ app_pc' = "reply"
            /\ UNCHANGED cache_complete
      /\ UNCHANGED <<dbVars, lockedVars, persistVars, message_cache,
                     channel_message_ids, phase, next_id, sent, first_id>>

(* HandleGetChats up to and including the query.  GetMessagesBefore is     *)
(* called with the largest id there is, so lower_bound is the end of the   *)
(* log: take what the log has; ask the database for what is still missing, *)
(* below the oldest id taken, unless the log is complete.                  *)
HandleGetChats(c, n) ==
  LET log    == channel_message_ids[c]
      cached == LatestIds(log, n)
      result == GetChatMessagesBefore(c, cached, n - Cardinality(cached))
  IN  /\ Serving
      /\ app_pc = "idle"
      /\ request' = [channel |-> c, limit |-> n]
      /\ taken' = cached
      /\ \/ /\ n # 0
            /\ log = {} \/ (~ cache_complete[c] /\ Cardinality(log) < n)
            /\ queried' = {m.id : m \in result}
            /\ rows' = result
            /\ cache_complete' =
                 [cache_complete EXCEPT
                    ![c] = @ \/ Cardinality(result) < n - Cardinality(cached)]
            /\ app_pc' = IF result = {} THEN "reply" ELSE "assign"
         \/ /\ n = 0 \/ (log # {} /\ (cache_complete[c] \/ n <= Cardinality(log)))
            /\ queried' = {} /\ rows' = {}
            /\ app_pc' = "reply"
            /\ UNCHANGED cache_complete
      /\ UNCHANGED <<dbVars, lockedVars, persistVars, message_cache,
                     channel_message_ids, phase, next_id, sent, first_id>>

AssignMessage_QueuesAlways ==
  /\ app_pc = "assign"
  /\ \E m \in rows :
       /\ \A r \in rows : m.id <= r.id
       /\ message_cache' = CacheInsert(message_cache, m)
       /\ pending_messages' = Append(pending_messages, m)
       /\ rows' = rows \ {m}
  /\ UNCHANGED <<dbVars, persistVars, app_pc, request, taken, queried, phase,
                 channel_message_ids, cache_complete, latest_persisted_id,
                 next_id, sent, first_id>>

(* CacheMessages, its loop: AssignMessage takes mutex_ once per row, so    *)
(* Persist can run between two of them.                                    *)
AssignMessage ==
  /\ app_pc = "assign"
  /\ \E m \in rows :
       /\ \A r \in rows : m.id <= r.id
       /\ message_cache' = CacheInsert(message_cache, m)
       /\ pending_messages' =
            IF m.id <= latest_persisted_id
            THEN pending_messages ELSE Append(pending_messages, m)
       /\ rows' = rows \ {m}
  /\ UNCHANGED <<dbVars, persistVars, app_pc, request, taken, queried, phase,
                 channel_message_ids, cache_complete, latest_persisted_id,
                 next_id, sent, first_id>>

(* CacheMessages, its end: AssignMessageIds merges the ids into the log.   *)
AssignMessageIds ==
  /\ app_pc = "assign"
  /\ rows = {}
  /\ channel_message_ids' =
       [channel_message_ids EXCEPT ![request.channel] = @ \cup queried]
  /\ app_pc' = "reply"
  /\ UNCHANGED <<dbVars, lockedVars, persistVars, request, taken, queried, rows,
                 phase, message_cache, cache_complete, next_id, sent, first_id>>

(* The messages GetMessagesBefore returns for the ids it collected. *)
Reply == {m \in message_cache : m.id \in taken \cup queried}

SendReply ==
  /\ app_pc = "reply"
  /\ app_pc' = "idle"
  /\ taken' = {} /\ queried' = {}
  /\ UNCHANGED <<dbVars, lockedVars, persistVars, request, rows, logVars, phase,
                 next_id, sent, first_id>>

-----------------------------------------------------------------------------
(* Persist, on the scheduler thread or the main thread.                    *)

(* The scheduler thread collects the periodic task's callback.             *)
SchedulerDue ==
  /\ phase = "up"
  /\ persist_pc["scheduler"] = "idle"
  /\ persist_pc' = [persist_pc EXCEPT !["scheduler"] = "due"]
  /\ UNCHANGED <<dbVars, lockedVars, batch, last_id, appVars, logVars, phase,
                 next_id, sent, first_id>>

(* What a thread does when Persist returns: the scheduler waits for the    *)
(* next tick, the main thread goes on with the shutdown.                   *)
AfterPersist(t) == IF t = "main" THEN "done" ELSE "idle"

(* First critical section: `take` is what is swapped out, `leave` stays.   *)
SwapOut(t, take, leave) ==
  /\ persist_pc' = [persist_pc EXCEPT ![t] = "swapped"]
  /\ batch' = [batch EXCEPT ![t] = take]
  /\ pending_messages' = leave
  /\ UNCHANGED <<dbVars, last_id, appVars, logVars, phase, next_id, sent, first_id>>

NothingToPersist(t) ==
  /\ persist_pc' = [persist_pc EXCEPT ![t] = AfterPersist(t)]
  /\ UNCHANGED <<dbVars, lockedVars, batch, last_id, appVars, logVars, phase,
                 next_id, sent, first_id>>

PersistSwap_LeavesFirst(t) ==
  /\ persist_pc[t] = "due"
  /\ \/ Len(pending_messages) <= 1 /\ NothingToPersist(t)
     \/ /\ Len(pending_messages) > 1
        /\ SwapOut(t, Tail(pending_messages), <<Head(pending_messages)>>)
        /\ UNCHANGED latest_persisted_id

PersistSwap(t) ==
  /\ persist_pc[t] = "due"
  /\ \/ pending_messages = <<>> /\ NothingToPersist(t)
     \/ /\ pending_messages # <<>>
        /\ SwapOut(t, pending_messages, <<>>)
        /\ UNCHANGED latest_persisted_id

(* PersistChatMessages: SQLite::Transaction executes BEGIN, which throws   *)
(* when the connection is already in a transaction.                        *)
PersistBegin(t) ==
  /\ persist_pc[t] = "swapped"
  /\ \/ /\ txn_owner = Nobody
        /\ txn_owner' = t
        /\ persist_pc' = [persist_pc EXCEPT ![t] = "inserting"]
        /\ UNCHANGED <<db, txn, lockedVars, batch, last_id, appVars, logVars,
                       phase, next_id, sent, first_id>>
     \/ /\ txn_owner # Nobody
        /\ ProcessEnds("crashed")

(* One INSERT; the primary key is the id, a duplicate throws. *)
PersistInsert(t) ==
  /\ persist_pc[t] = "inserting"
  /\ batch[t] # <<>>
  /\ LET m == Head(batch[t])
     IN  \/ /\ \A r \in VisibleRows : r.id # m.id
            /\ txn' = txn \cup {m}
            /\ last_id' = [last_id EXCEPT ![t] = m.id]
            /\ batch' = [batch EXCEPT ![t] = Tail(@)]
            /\ UNCHANGED <<db, txn_owner, lockedVars, persist_pc, appVars, logVars,
                           phase, next_id, sent, first_id>>
         \/ /\ \E r \in VisibleRows : r.id = m.id
            /\ ProcessEnds("crashed")

PersistCommit_LeavesOpen(t) ==
  /\ persist_pc[t] = "inserting"
  /\ batch[t] = <<>>
  /\ db' = db \cup txn
  /\ txn' = {}
  /\ persist_pc' = [persist_pc EXCEPT ![t] = "committed"]
  /\ UNCHANGED <<txn_owner, lockedVars, batch, last_id, appVars, logVars, phase,
                 next_id, sent, first_id>>

PersistCommit(t) ==
  /\ persist_pc[t] = "inserting"
  /\ batch[t] = <<>>
  /\ db' = db \cup txn
  /\ txn' = {}
  /\ txn_owner' = Nobody
  /\ persist_pc' = [persist_pc EXCEPT ![t] = "committed"]
  /\ UNCHANGED <<lockedVars, batch, last_id, appVars, logVars, phase, next_id,
                 sent, first_id>>

PersistEnd_ClearsQueue(t) ==
  /\ persist_pc[t] = "committed"
  /\ latest_persisted_id' = last_id[t]
  /\ pending_messages' = <<>>
  /\ persist_pc' = [persist_pc EXCEPT ![t] = AfterPersist(t)]
  /\ UNCHANGED <<dbVars, batch, last_id, appVars, logVars, phase, next_id, sent,
                 first_id>>

(* Second critical section. *)
PersistEnd(t) ==
  /\ persist_pc[t] = "committed"
  /\ latest_persisted_id' = last_id[t]
  /\ persist_pc' = [persist_pc EXCEPT ![t] = AfterPersist(t)]
  /\ UNCHANGED <<dbVars, pending_messages, batch, last_id, appVars, logVars,
                 phase, next_id, sent, first_id>>

-----------------------------------------------------------------------------

AppNext ==
  \/ \E c \in Channels : CreateMessage(c)
  \/ \E c \in Channels, n \in Limits : HandleGetChats(c, n)
  \/ AssignMessage
  \/ AssignMessageIds
  \/ SendReply

PersistNext(t) ==
  \/ PersistSwap(t)
  \/ PersistBegin(t)
  \/ PersistInsert(t)
  \/ PersistCommit(t)
  \/ PersistEnd(t)

LifeNext ==
  \/ Prewarm
  \/ BeginShutdown
  \/ StopApplication
  \/ Exit
  \/ Crash
  \/ Restart

Next ==
  \/ AppNext
  \/ SchedulerDue
  \/ \E t \in Persisters : PersistNext(t)
  \/ LifeNext

(* Every request is handled after Prewarm: the requests a client can get   *)
(* handled between registration of the handlers and Prewarm are left out.  *)
Spec == Init /\ [][Next]_vars

(* The scheduler thread keeps ticking and finishes the callback it is in.  *)
FairSpec == Spec /\ WF_vars(SchedulerDue) /\ WF_vars(PersistNext("scheduler"))

-----------------------------------------------------------------------------
(* Properties.                                                             *)

(* The members of ChatMessageStore and the locals of its callers keep their types. *)
TypeOK ==
  /\ db \subseteq Message /\ txn \subseteq Message
  /\ txn_owner \in Persisters \cup {Nobody}
  /\ phase \in {"starting", "up", "closing", "stopped", "crashed", "exited"}
  /\ next_id \in 0 .. MaxMessages
  /\ first_id \in 0 .. MaxMessages
  /\ latest_persisted_id \in MessageId \cup {NoId}
  /\ message_cache \subseteq Message
  /\ channel_message_ids \in [Channels -> SUBSET MessageId]
  /\ cache_complete \in [Channels -> BOOLEAN]
  /\ pending_messages \in Seq(Message)
  /\ persist_pc \in [Persisters -> {"idle", "due", "swapped", "inserting", "committed", "done"}]
  /\ batch \in [Persisters -> Seq(Message)]
  /\ last_id \in [Persisters -> MessageId \cup {NoId}]
  /\ app_pc \in {"idle", "assign", "reply"}
  /\ request \in [channel : Channels, limit : Nat]
  /\ taken \subseteq MessageId /\ queried \subseteq MessageId
  /\ rows \subseteq Message
  /\ sent \subseteq Message

(* An INSERT of Persist never meets a row with the same primary key, so    *)
(* the exception that would end the process is never thrown for it.  At    *)
(* stake: AssignMessage decides with latest_persisted_id, which lags       *)
(* behind the table between commit and the second critical section.        *)
NoDuplicateInsert ==
  \A t \in Persisters :
    persist_pc[t] = "inserting" /\ batch[t] # <<>> =>
      \A r \in VisibleRows : r.id # Head(batch[t]).id

(* While the process runs, a message that was broadcast is in the queue,   *)
(* in the batch of a Persist under way, or in the table: no interleaving   *)
(* of AssignMessage with the two critical sections of Persist drops one.   *)
NothingForgotten ==
  phase \in {"up", "closing"} =>
    sent = VisibleRows \cup SeqToSet(pending_messages)
             \cup UNION {SeqToSet(batch[t]) : t \in Persisters}

(* The reply to a GetChats request is exactly the latest `limit` messages  *)
(* of the channel, persisted or not, whatever Persist was doing meanwhile  *)
(* and however much of the channel was cached.                             *)
GetChatsExact ==
  app_pc = "reply" =>
    /\ Reply \subseteq sent
    /\ \A m \in Reply : m.channel = request.channel
    /\ {m.id : m \in Reply} =
         LatestIds(ChannelIds(sent, request.channel), request.limit)

(* Until shutdown begins, the committed rows are a prefix of what was      *)
(* broadcast: a crash loses the newest messages and never leaves a hole.   *)
DurablePrefix ==
  phase = "up" =>
    \A m \in db, s \in sent : s.id <= m.id => s \in db

(* A message that was broadcast is committed sooner or later, unless the   *)
(* process ends or is shut down first.                                     *)
EventuallyPersisted ==
  \A i \in 0 .. (MaxMessages - 1) :
    (phase = "up" /\ \E m \in sent : m.id = i)
      ~> (phase # "up" \/ \E m \in db : m.id = i)

(* The answer that is about to be sent, as ChatHistory has it. *)
AnswerGiven ==
  IF app_pc = "reply"
  THEN <<[channel |-> request.channel, limit |-> request.limit, ids |-> {m.id : m \in Reply}]>>
  ELSE <<>>

(* The store implements ChatHistory: a message is given a fresh id, what   *)
(* Persist commits was broadcast, committed rows stay, a crash forgets     *)
(* what was not committed and nothing else, and every answer is right.     *)
History == INSTANCE ChatHistory WITH
  history <- sent, durable <- db, answer <- AnswerGiven

ImplementsHistory == History!Spec

(* README, Limitations: only messages sent within a second of an           *)
(* UNEXPECTED shutdown are lost.  After the shutdown routine has run, every*)
(* broadcast message is in the table.  Violated: the application thread    *)
(* still handles writes after the last Persist.                            *)
CleanShutdownPersistsAll == phase = "exited" => sent \subseteq db

(* BEGIN finds the connection in a transaction, and throws, only during    *)
(* the shutdown: the last Persist of the main thread can meet the one the  *)
(* scheduler has already collected.  While the server is up, no            *)
(* interleaving of Persist with requests or restarts leads there.          *)
NestedOnlyAtShutdown ==
  phase = "up" => \A t \in Persisters : persist_pc[t] = "swapped" => txn_owner = Nobody

-----------------------------------------------------------------------------
(* The inductive invariant behind the safety properties.                   *)

Running == phase \in {"up", "closing", "stopped"}

Queued == SeqToSet(pending_messages) \cup UNION {SeqToSet(batch[t]) : t \in Persisters}

(* No two messages of the two sets have the same id. *)
Apart(A, B) == \A a \in A, b \in B : a.id # b.id

Ascending(s) == \A i, j \in 1 .. Len(s) : i < j => s[i].id < s[j].id

(* A process that is not up has nothing in memory and no transaction.      *)
NotRunningInv ==
  ~ Running =>
    /\ txn = {} /\ txn_owner = Nobody
    /\ message_cache = {} /\ pending_messages = <<>>
    /\ \A c \in Channels : channel_message_ids[c] = {} /\ cache_complete[c] = FALSE
    /\ \A t \in Persisters : persist_pc[t] = "idle" /\ batch[t] = <<>> /\ last_id[t] = NoId
    /\ app_pc = "idle" /\ rows = {} /\ queried = {}
    /\ phase = "starting" => sent = db

(* Where each Persist is, against the transaction and its batch. *)
PersistInv ==
  /\ \A t \in Persisters :
       /\ persist_pc[t] = "inserting" <=> txn_owner = t
       /\ persist_pc[t] = "swapped" => batch[t] # <<>>
       /\ persist_pc[t] \notin {"swapped", "inserting"} => batch[t] = <<>>
       /\ persist_pc[t] = "inserting" /\ batch[t] = <<>> => last_id[t] >= first_id
       /\ persist_pc[t] = "committed" => last_id[t] >= first_id
  /\ txn_owner = Nobody => txn = {}
  /\ phase = "up" => persist_pc["main"] = "idle"

(* Ids are given out once, and a message is in one place only. *)
IdInv ==
  /\ db \subseteq sent /\ txn \subseteq sent
  /\ \A m, n \in sent : m.id = n.id => m = n
  /\ Running => \A m \in sent : m.id < next_id
  /\ Ascending(pending_messages)
  /\ \A t \in Persisters : Ascending(batch[t])
  /\ Apart(SeqToSet(pending_messages), VisibleRows)
  /\ \A t \in Persisters :
       /\ Apart(SeqToSet(batch[t]), VisibleRows)
       /\ Apart(SeqToSet(batch[t]), SeqToSet(pending_messages))
  /\ Apart(SeqToSet(batch["scheduler"]), SeqToSet(batch["main"]))

(* Every message created since Prewarm is in its log, so a query, which    *)
(* asks below the log, returns older messages only; those are at or below  *)
(* latest_persisted_id, whatever Persist is doing.                         *)
RecentInv ==
  Running =>
    /\ first_id <= next_id
    /\ latest_persisted_id >= first_id - 1
    /\ latest_persisted_id < next_id
    /\ \A t \in Persisters : last_id[t] < next_id
    /\ \A c \in Channels : \A i \in channel_message_ids[c] : i < next_id
    /\ \A i \in queried : i < next_id
    /\ \A m \in Queued : m.id >= first_id
    /\ \A m \in sent : m.id >= first_id => m.id \in channel_message_ids[m.channel]
    /\ \A m \in rows : m.id < first_id
    /\ rows \subseteq sent

NothingForgottenInv == Running => sent = VisibleRows \cup Queued

StoreInv ==
  /\ TypeOK
  /\ NotRunningInv
  /\ PersistInv
  /\ IdInv
  /\ RecentInv
  /\ NothingForgottenInv

(* While the server is up, messages reach the table in the order of their  *)
(* ids: rows, transaction, batch of the scheduler thread, queue.           *)
Before(A, B) == \A a \in A, b \in B : a.id < b.id

PrefixInv ==
  phase = "up" =>
    /\ Before(db, txn \cup Queued)
    /\ Before(txn, Queued)
    /\ Before(SeqToSet(batch["scheduler"]), SeqToSet(pending_messages))

(* What a log leaves out is older than all it holds; a complete log, with  *)
(* what is about to be merged into it, leaves out nothing.                 *)
Merging(c) == IF app_pc = "assign" /\ request.channel = c THEN queried ELSE {}

LogInv ==
  \A c \in Channels :
    /\ channel_message_ids[c] \subseteq ChannelIds(sent, c)
    /\ \A i \in channel_message_ids[c] : \E m \in message_cache : m.id = i
    /\ Running => \A i \in ChannelIds(sent, c) \ channel_message_ids[c] :
                    \A j \in channel_message_ids[c] : i < j
    /\ cache_complete[c] => ChannelIds(sent, c) \subseteq channel_message_ids[c] \cup Merging(c)

(* The ids a request has collected: at "assign" the log is all that was    *)
(* taken and the query the latest of what it left out.                     *)
AssignInv ==
  LET c == request.channel
      n == request.limit
  IN  app_pc = "assign" =>
        /\ taken = channel_message_ids[c]
        /\ Cardinality(taken) < n
        /\ queried = LatestIds(ChannelIds(sent, c) \ taken, n - Cardinality(taken))
        /\ \A i \in queried : (\E m \in rows : m.id = i) \/ (\E m \in message_cache : m.id = i)

AnswerInv ==
  app_pc = "reply" =>
    /\ taken \cup queried = LatestIds(ChannelIds(sent, request.channel), request.limit)
    /\ \A i \in taken \cup queried : \E m \in message_cache : m.id = i

RequestInv ==
  /\ message_cache \subseteq sent
  /\ app_pc # "idle" => request.limit \in Limits
  /\ AssignInv
  /\ AnswerInv

ReplyInv == StoreInv /\ PrefixInv /\ LogInv /\ RequestInv

=============================================================================
