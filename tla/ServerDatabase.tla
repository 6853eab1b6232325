---------------------------- MODULE ServerDatabase ----------------------------
(***************************************************************************)
(* The users and channels of the server, from SQLite up to the caches of   *)
(* UserStore and ChatChannelStore, with the start-up that fills them.      *)
(*                                                                         *)
(* The application thread and the scheduler thread, which persists chats   *)
(* in a transaction, use one SQLite connection.  A statement is one step   *)
(* (SQLite serialises calls); what belongs to the connection is shared:    *)
(* the open transaction, the number of rows changed last, and the id       *)
(* inserted last, which a creation reads in steps of their own.            *)
(* How chats get into a batch, and batches that are still growing, are in  *)
(* ChatMessageStore.                                                       *)
(*                                                                         *)
(* An operator named X_Y is a mutant of X: the code with the mistake Y.    *)
(***************************************************************************)
EXTENDS Integers, Sequences, FiniteSets, FiniteSetsExt

CONSTANTS
  UserNames,
  ChannelNames,
  None,         \* nothing
  MaxMessages,  \* bound: chats written in all
  MaxCrashes    \* bound: how often the server is killed

(* What is stored, a chat on its way to the table, a creation under way. *)
StoredRow ==
  [table : {"users", "channels", "messages"}, id : Nat, name : UserNames \cup ChannelNames \cup Nat]
ChatRow == [table : {"messages"}, id : Nat, name : Nat]
Creation ==
  [pc : {"changes", "rowid"}, table : {"users", "channels"}, name : UserNames \cup ChannelNames]

ASSUME DatabaseAssumption ==
  /\ None \notin UserNames \cup ChannelNames
  /\ None \notin Creation /\ None \notin Seq(ChatRow)
  /\ MaxMessages \in Nat /\ MaxCrashes \in Nat

VARIABLES
  rows,         \* rows of all tables as the connection sees them; the name
                \* of a row of "messages" is the id of its channel
  txn,          \* a transaction is open
  uncommitted,  \* rows inserted since it was opened
  changes,      \* rows changed by the latest INSERT (sqlite3_changes)
  last_rowid,   \* id of the latest row inserted (sqlite3_last_insert_rowid)
  main,         \* what the main thread initialises next, or "up"
  app,          \* the application thread: None, or the creation it is in
  cache,        \* users_ and channels_
  next_id,      \* next_id_ of the ChatMessageStore
  pending,      \* pending_messages_
  batch,        \* what Persist has still to insert, or None
  written,      \* chats written in all
  crashes,      \* how often the server was killed
  answered,     \* history: rows sent to a client as the result of a creation
  joined,       \* history: rows inserted into the transaction of Persist
  raced,        \* history: Persist inserted between the steps of a creation
  early,        \* history: a chat was written before the stores were filled
  threw         \* history: a statement of Persist threw

dbVars    == <<rows, txn, uncommitted, changes, last_rowid>>
chatVars  == <<next_id, pending, batch, written>>
histVars  == <<answered, joined, raced, early, threw>>
vars == <<dbVars, main, app, cache, chatVars, crashes, histVars>>

(* The adapters create the tables before anything is accepted. *)
Init ==
  /\ rows = {} /\ txn = FALSE /\ uncommitted = {} /\ changes = 0 /\ last_rowid = 0
  /\ main = "accept" /\ app = None /\ cache = {}
  /\ next_id = 0 /\ pending = <<>> /\ batch = None /\ written = 0 /\ crashes = 0
  /\ answered = {} /\ joined = {} /\ raced = FALSE /\ early = FALSE /\ threw = FALSE

In(set, table) == {r \in set : r.table = table}
Ids(set, table) == {r.id : r \in In(set, table)}
Row(table, id, name) == [table |-> table, id |-> id, name |-> name]

-----------------------------------------------------------------------------
(* Main thread: the systems are initialised in the order of registration.  *)
(* Connections are accepted from the first on; a request whose handler is  *)
(* not registered yet is dropped.                                          *)

Handles(table) == main \notin (IF table = "users" THEN {"accept"} ELSE {"accept", "users"})

StartUp(from, to) == main = from /\ main' = to /\ UNCHANGED <<dbVars, app, crashes, histVars>>

(* UserServerSystem::Initialize registers its handlers ... *)
RegisterUserHandlers == StartUp("accept", "users") /\ UNCHANGED <<cache, chatVars>>

(* GetUsers and GetChatChannels of the adapters, without a condition. *)
StoredUsers == In(rows, "users")
StoredChannels == In(rows, "channels")

(* What is cached already stays. *)
WithStored(set, stored) == set \cup {r \in stored : r.id \notin Ids(set, r.table)}

(* ... and fills the cache; then ChatServerSystem::Initialize registers its own, ... *)
PrewarmUsers ==
  StartUp("users", "channels") /\ cache' = WithStored(cache, StoredUsers) /\ UNCHANGED chatVars

(* ... fills the cache of channels, ... *)
PrewarmChannels ==
  StartUp("channels", "messages") /\ cache' = WithStored(cache, StoredChannels) /\ UNCHANGED chatVars

PrewarmMessages_FromZero == StartUp("messages", "up") /\ UNCHANGED <<cache, chatVars>>

(* ... reads the latest chat id, and schedules Persist. *)
PrewarmMessages ==
  /\ StartUp("messages", "up")
  /\ next_id' = Max(Ids(rows, "messages") \cup {-1}) + 1
  /\ UNCHANGED <<cache, pending, batch, written>>

-----------------------------------------------------------------------------
(* Application thread.                                                     *)

InsertRow_NeverCommitted(row) ==
  /\ rows' = rows \cup {row}
  /\ uncommitted' = uncommitted \cup {row}
  /\ changes' = 1 /\ last_rowid' = row.id

(* An INSERT outside a transaction commits itself; inside one it is part   *)
(* of it, whoever opened it.                                               *)
InsertRow(row) ==
  /\ rows' = rows \cup {row}
  /\ uncommitted' = IF txn THEN uncommitted \cup {row} ELSE uncommitted
  /\ changes' = 1 /\ last_rowid' = row.id

(* CacheUser, CacheChannel: an element with the same id stays, and is what *)
(* is returned; a user with the same name as well.                         *)
Blocking(r) ==
  {e \in In(cache, r.table) : e.id = r.id \/ (r.table = "users" /\ e.name = r.name)}
Cache(r) == cache' = IF Blocking(r) = {} THEN cache \cup {r} ELSE cache
CacheResult(r) == IF Blocking(r) = {} THEN r ELSE CHOOSE e \in Blocking(r) : TRUE

(* GetSessionUser of a connection that authenticated as `user': reads the  *)
(* user into the cache.  Sessions themselves are in ServerSessions; any    *)
(* user that is stored may have one.                                       *)
SessionUser(user) == Cache(user)

HasUser(name) == \E r \in In(cache, "users") : r.name = name

(* INSERT ... ON CONFLICT(name) DO NOTHING, the first step of CreateUser   *)
(* and CreateChatChannel of the adapters.                                  *)
Insert(table, name) ==
  /\ app = None /\ Handles(table)
  /\ LET row == Row(table, Max(Ids(rows, table) \cup {0}) + 1, name)
     IN  IF \E r \in In(rows, table) : r.name = name
         THEN changes' = 0 /\ UNCHANGED <<rows, uncommitted, last_rowid, joined>>
         ELSE InsertRow(row) /\ joined' = IF txn THEN joined \cup {row} ELSE joined
  /\ app' = [pc |-> "changes", table |-> table, name |-> name]
  /\ UNCHANGED <<txn, main, chatVars, crashes, answered, raced, early, threw>>

(* A name that is cached is answered with an error before. *)
HandleCreateUser(name) == ~ HasUser(name) /\ Insert("users", name) /\ UNCHANGED cache

HandleCreateChatChannel(name) ==
  Insert("channels", name) /\ \E user \in StoredUsers : SessionUser(user)

(* GetUser and GetChatChannel of the adapters, by "id" or by "name" ... *)
StoredUser(by, key) == {r \in StoredUsers : r[by] = key}
StoredChannel(by, key) == {r \in StoredChannels : r[by] = key}

(* ... and of the stores: from the cache, or else from the table.  Who     *)
(* asks caches what is found.                                              *)
GetUser(by, key) ==
  LET hits == {r \in In(cache, "users") : r[by] = key}
  IN  IF hits # {} THEN hits ELSE StoredUser(by, key)

GetChannel(by, key) ==
  LET hits == {r \in In(cache, "channels") : r[by] = key}
  IN  IF hits # {} THEN hits ELSE StoredChannel(by, key)

(* What exec() returns.  No change: the name exists, which is an error for *)
(* a user; a channel is answered with the one that exists.                 *)
ReadChanges ==
  /\ app # None /\ app.pc = "changes"
  /\ \/ /\ changes > 0
        /\ app' = [app EXCEPT !.pc = "rowid"]
        /\ UNCHANGED <<cache, answered>>
     \/ /\ changes = 0 /\ app.table = "users"
        /\ app' = None
        /\ UNCHANGED <<cache, answered>>
     \/ /\ changes = 0 /\ app.table = "channels"
        /\ \E r \in GetChannel("name", app.name) :
             Cache(r) /\ answered' = answered \cup {CacheResult(r)}
        /\ app' = None

HandleConflict ==
  /\ ReadChanges
  /\ UNCHANGED <<dbVars, main, chatVars, crashes, joined, raced, early, threw>>

ReadRowid_NotCached ==
  /\ app # None /\ app.pc = "rowid"
  /\ answered' = answered \cup {Row(app.table, last_rowid, app.name)}
  /\ app' = None
  /\ UNCHANGED <<dbVars, main, cache, chatVars, crashes, joined, raced, early, threw>>

(* getLastInsertRowid, and the answer.  A channel is cached first, and     *)
(* what the cache returns is answered; a user is not cached.               *)
ReadRowid ==
  /\ app # None /\ app.pc = "rowid"
  /\ LET r == Row(app.table, last_rowid, app.name)
     IN  IF app.table = "channels"
         THEN Cache(r) /\ answered' = answered \cup {CacheResult(r)}
         ELSE answered' = answered \cup {r} /\ UNCHANGED cache
  /\ app' = None
  /\ UNCHANGED <<dbVars, main, chatVars, crashes, joined, raced, early, threw>>

(* Requests that look something up, with a session: the users or the       *)
(* channel with an id, or the user with a name.                            *)
LooksUp(table) ==
  /\ app = None /\ Handles(table) /\ StoredUsers # {}
  /\ UNCHANGED <<dbVars, main, app, chatVars, crashes, histVars>>

HandleGetUsers(id) == LooksUp("users") /\ \E r \in GetUser("id", id) : Cache(r)

HandleGetUser(name) == LooksUp("users") /\ \E r \in GetUser("name", name) : Cache(r)

(* HandleJoinChatChannel looks the channel up alike. *)
HandleGetChatChannel(id) ==
  LooksUp("channels") /\ \E r \in GetChannel("id", id) : Cache(r)

(* HandleGetChatChannels. *)
GetChannels == In(cache, "channels")

(* In a channel that was joined and so is cached. *)
HandleWriteChatMessage(channel) ==
  /\ app = None /\ Handles("channels") /\ written < MaxMessages
  /\ channel \in Ids(cache, "channels")
  /\ pending' = Append(pending, Row("messages", next_id, channel))
  /\ next_id' = next_id + 1 /\ written' = written + 1
  /\ early' = (early \/ main # "up")
  /\ \E user \in StoredUsers : SessionUser(user)
  /\ UNCHANGED <<dbVars, main, app, batch, crashes, answered, joined, raced, threw>>

-----------------------------------------------------------------------------
(* Scheduler thread: PersistChatMessages.                                  *)

PersistBegin ==
  /\ main = "up" /\ batch = None /\ pending # <<>>
  /\ txn' = TRUE
  /\ batch' = pending /\ pending' = <<>>
  /\ UNCHANGED <<rows, uncommitted, changes, last_rowid, main, app, cache, next_id, written, crashes, histVars>>

(* PRIMARY KEY and FOREIGN KEY (channel_id) of chat_messages. *)
Accepts(row) == row.id \notin Ids(rows, "messages") /\ row.name \in Ids(rows, "channels")

PersistInsert ==
  /\ batch # None /\ batch # <<>> /\ Accepts(Head(batch))
  /\ InsertRow(Head(batch))
  /\ batch' = Tail(batch)
  /\ raced' = (raced \/ app # None)
  /\ UNCHANGED <<txn, main, app, cache, next_id, pending, written, crashes, answered, joined, early, threw>>

PersistCommit ==
  /\ batch = <<>>
  /\ txn' = FALSE /\ uncommitted' = {} /\ batch' = None
  /\ UNCHANGED <<rows, changes, last_rowid, main, app, cache, next_id, pending, written, crashes, histVars>>

(* The server dies and is started again: SQLite rolls back what is not     *)
(* committed, everything else is gone.                                     *)
Restart ==
  /\ rows' = rows \ uncommitted /\ uncommitted' = {} /\ txn' = FALSE
  /\ changes' = 0 /\ last_rowid' = 0
  /\ main' = "accept" /\ app' = None /\ cache' = {}
  /\ next_id' = 0 /\ pending' = <<>> /\ batch' = None
  /\ UNCHANGED <<written, answered, joined, raced, early>>

(* A statement that is not accepted throws; nobody catches it. *)
PersistThrows ==
  /\ batch # None /\ batch # <<>> /\ ~ Accepts(Head(batch))
  /\ threw' = TRUE
  /\ Restart
  /\ UNCHANGED crashes

Crash ==
  /\ crashes < MaxCrashes
  /\ crashes' = crashes + 1
  /\ Restart
  /\ UNCHANGED threw

-----------------------------------------------------------------------------

Next ==
  \/ RegisterUserHandlers \/ PrewarmUsers \/ PrewarmChannels \/ PrewarmMessages
  \/ \E name \in UserNames : HandleCreateUser(name) \/ HandleGetUser(name)
  \/ \E name \in ChannelNames : HandleCreateChatChannel(name)
  \/ HandleConflict \/ ReadRowid
  \/ \E id \in Ids(rows, "users") : HandleGetUsers(id)
  \/ \E id \in Ids(rows, "channels") : HandleGetChatChannel(id)
  \/ \E channel \in Ids(cache, "channels") : HandleWriteChatMessage(channel)
  \/ PersistBegin \/ PersistInsert \/ PersistCommit \/ PersistThrows
  \/ Crash

Spec == Init /\ [][Next]_vars

-----------------------------------------------------------------------------

(* What the caches hold is in the tables under the same id and name.       *)
CacheIsStored == cache \subseteq rows

(* A user or channel that a client was told is created survives a crash,   *)
(* with the id and name it was told, unless its INSERT fell into the       *)
(* transaction of Persist.                                                 *)
AnsweredSurvives == answered \subseteq (rows \ uncommitted) \cup joined

(* Both hold unless Persist inserted a chat between the INSERT of a        *)
(* creation and the reading of its result, which belong to the shared      *)
(* connection.                                                             *)
StoredAsTold == ~ raced => CacheIsStored /\ AnsweredSurvives

(* GetChatChannels lists every channel there is once ChatChannelStore is   *)
(* filled; only during start-up is a request answered with fewer.          *)
ListIsComplete ==
  ~ raced /\ app = None /\ main \in {"messages", "up"} => In(rows, "channels") \subseteq GetChannels

(* Persist throws, and with it the server dies, only after a chat was      *)
(* written before ChatMessageStore had read the latest id, or in a channel *)
(* whose creation was raced: chats never refer to a channel that is not    *)
(* stored, and ids are not given out twice.                                *)
ThrowsOnlyIfEarlyOrRaced == threw => early \/ raced

-----------------------------------------------------------------------------
(* The inductive invariant behind the safety properties.                   *)

FlagsOK ==
  txn \in BOOLEAN /\ raced \in BOOLEAN /\ early \in BOOLEAN /\ threw \in BOOLEAN

(* Rows, caches and histories hold rows; batches hold chats. *)
TypeOK ==
  /\ rows \subseteq StoredRow /\ uncommitted \subseteq StoredRow /\ cache \subseteq StoredRow
  /\ answered \subseteq StoredRow /\ joined \subseteq StoredRow
  /\ changes \in {0, 1} /\ last_rowid \in Nat
  /\ main \in {"accept", "users", "channels", "messages", "up"}
  /\ app \in Creation \cup {None}
  /\ next_id \in Nat /\ pending \in Seq(ChatRow) /\ batch \in Seq(ChatRow) \cup {None}
  /\ written \in Nat /\ crashes \in Nat
  /\ FlagsOK

(* The tables have a largest id, and none twice; only a creation joins the *)
(* transaction of Persist, which runs after the start-up.                  *)
TablesInv ==
  /\ \E m \in {r.id : r \in rows} \cup {0} : \A r \in rows : r.id <= m
  /\ \A r, s \in rows : r.table = s.table /\ r.id = s.id => r = s
  /\ \A r \in uncommitted : r.table = "messages" \/ r \in joined
  /\ \A r \in answered : r.table # "messages"
  /\ batch # None => main = "up"

(* The row of a creation whose INSERT has changed something. *)
Creating == app # None /\ (app.pc = "rowid" \/ changes > 0)
CreatedRow == Row(app.table, last_rowid, app.name)

(* Nobody comes between the INSERT and the reading of its id; a stored     *)
(* channel is cached by the time its creation ends.                        *)
CreationInv ==
  /\ Creating => CreatedRow \in rows
  /\ main \in {"messages", "up"} =>
       \A r \in StoredChannels :
         r \in cache \/ (Creating /\ app.table = "channels" /\ r = CreatedRow)

(* The chats in the batch and those pending have the latest ids, without a *)
(* gap, and those in the table earlier ones.                               *)
BatchLen == IF batch = None THEN 0 ELSE Len(batch)
FirstQueued == next_id - Len(pending) - BatchLen

ChatsInv ==
  /\ main # "up" => pending = <<>>
  /\ \A i \in 1 .. BatchLen :
       batch[i].id = FirstQueued + i - 1 /\ batch[i].name \in Ids(rows, "channels")
  /\ \A i \in 1 .. Len(pending) :
       pending[i].id = FirstQueued + BatchLen + i - 1 /\ pending[i].name \in Ids(rows, "channels")
  /\ main = "up" => \A id \in Ids(rows, "messages") : id < FirstQueued

DatabaseInv ==
  /\ TypeOK /\ TablesInv
  /\ ~ raced => CacheIsStored /\ AnsweredSurvives /\ CreationInv
  /\ ~ raced /\ ~ early => ChatsInv
  /\ ThrowsOnlyIfEarlyOrRaced

=============================================================================
