------------------------- MODULE ServerDatabaseProofs -------------------------
(***************************************************************************)
(* Proofs about ServerDatabase, for any names, any number of chats and any *)
(* number of crashes: what a client was told is stored, the list of        *)
(* channels is complete, and Persist does not throw, as long as no chat is *)
(* inserted between the steps of a creation and, for the last, none is     *)
(* written before the start-up is over.                                    *)
(***************************************************************************)
EXTENDS ServerDatabase, WellFoundedInduction, NaturalsInduction, TLAPS

-----------------------------------------------------------------------------
(* Rows and their ids.                                                     *)

(* MAX over a bounded set of ids, with what is used when there are none. *)
LEMMA MaxProperty ==
  ASSUME NEW n \in Nat, NEW S, S \subseteq Int, S # {}, \A x \in S : x <= n
  PROVE  Max(S) \in S /\ \A x \in S : x <= Max(S)
<1> DEFINE T == {k \in Nat : \E x \in S : k = n - x}
<1>1. T \subseteq Nat /\ T # {}
  <2>1. PICK x \in S : x <= n
    OBVIOUS
  <2>2. n - x \in T
    BY <2>1
  <2> QED BY <2>2
<1>2. PICK k \in T : \A x \in T : <<x, k>> \notin OpToRel(<, Nat)
  BY <1>1, WFMin, NatLessThanWellFounded
<1>3. \A x \in T : ~ (x < k)
  BY <1>1, <1>2 DEF OpToRel
<1>4. PICK m \in S : k = n - m
  OBVIOUS
<1>5. ASSUME NEW x \in S PROVE x <= m
  <2>1. n - x \in T
    OBVIOUS
  <2> QED BY <1>3, <1>4, <2>1
<1>6. \A x \in S : m >= x
  BY <1>5, <1>4
<1>7. Max(S) \in S /\ \A x \in S : Max(S) >= x
  BY <1>6 DEF Max
<1> QED BY <1>7

LEMMA RowFields ==
  ASSUME NEW table, NEW id, NEW name
  PROVE  Row(table, id, name).table = table /\ Row(table, id, name).id = id
         /\ Row(table, id, name).name = name
BY DEF Row

LEMMA RowType ==
  ASSUME NEW r \in StoredRow
  PROVE  /\ r.id \in Nat /\ r.table \in {"users", "channels", "messages"}
         /\ r = Row(r.table, r.id, r.name)
BY DEF StoredRow, Row

LEMMA ChatIsStoredRow == ChatRow \subseteq StoredRow
BY DEF ChatRow, StoredRow

LEMMA InTable ==
  ASSUME NEW set, NEW table
  PROVE  /\ In(set, table) \subseteq set
         /\ \A r \in In(set, table) : r.table = table
         /\ \A r \in set : r.table = table => r \in In(set, table) /\ r.id \in Ids(set, table)
         /\ \A id \in Ids(set, table) : \E r \in set : r.table = table /\ r.id = id
BY DEF In, Ids

(* The id that SQLite gives to the next row of a table, and the first id   *)
(* that Prewarm gives to a chat, are above every id in use.                *)
LEMMA NextRowId ==
  ASSUME TypeOK, TablesInv, NEW table, NEW low \in {-1, 0}
  PROVE  /\ Max(Ids(rows, table) \cup {low}) + 1 \in Nat
         /\ \A id \in Ids(rows, table) : id < Max(Ids(rows, table) \cup {low}) + 1
<1> DEFINE S == Ids(rows, table) \cup {low}
<1>1. \A r \in rows : r.id \in Nat
  BY RowType DEF TypeOK
<1>2. PICK m \in {r.id : r \in rows} \cup {0} : \A r \in rows : r.id <= m
  BY DEF TablesInv
<1>3. m \in Nat
  BY <1>1
<1>4. Ids(rows, table) \subseteq Nat /\ \A x \in Ids(rows, table) : x <= m
  BY <1>1, <1>2, InTable
<1>l. low \in Int /\ low <= m /\ low + 1 \in Nat
  BY <1>3
<1>5. S \subseteq Int /\ S # {} /\ \A x \in S : x <= m /\ x + 1 \in Nat
  BY <1>3, <1>4, <1>l
<1> HIDE DEF S
<1>6. Max(S) \in S /\ \A x \in S : x <= Max(S)
  BY <1>3, <1>5, MaxProperty
<1>7. Max(S) + 1 \in Nat
  BY <1>5, <1>6
<1>8. ASSUME NEW x \in S PROVE x < Max(S) + 1
  <2>1. x \in Int /\ Max(S) \in Int /\ x <= Max(S)
    BY <1>5, <1>6
  <2> QED BY <2>1
<1> QED BY <1>7, <1>8 DEF S

-----------------------------------------------------------------------------

LEMMA InitDatabaseInv == Init => DatabaseInv
<1> SUFFICES ASSUME Init PROVE DatabaseInv
  OBVIOUS
<1>0. FlagsOK /\ ThrowsOnlyIfEarlyOrRaced
  BY Zenon DEF Init, FlagsOK, ThrowsOnlyIfEarlyOrRaced
<1>1. TypeOK
  BY <1>0 DEF Init, TypeOK
<1>2. TablesInv
  BY DEF Init, TablesInv
<1>3. CacheIsStored /\ AnsweredSurvives
  BY DEF Init, CacheIsStored, AnsweredSurvives
<1>4. CreationInv
  BY DEF Init, CreationInv, Creating
<1>5. ChatsInv
  <2>1. /\ pending = <<>> /\ batch = None /\ main = "accept"
    BY DEF Init
  <2>2. BatchLen = 0 /\ Len(pending) = 0
    BY <2>1 DEF BatchLen
  <2> QED BY <2>1, <2>2 DEF ChatsInv
<1> QED BY <1>0, <1>1, <1>2, <1>3, <1>4, <1>5 DEF DatabaseInv

(* Types that most steps need. *)
LEMMA Types ==
  ASSUME TypeOK
  PROVE  /\ app = None \/ app \in Creation
         /\ app # None =>
              /\ app.pc \in {"changes", "rowid"} /\ app.table \in {"users", "channels"}
              /\ app.name \in UserNames \cup ChannelNames
         /\ next_id \in Nat /\ Len(pending) \in Nat /\ pending \in Seq(ChatRow)
         /\ BatchLen \in Nat /\ FirstQueued \in Int
         /\ batch # None => batch \in Seq(ChatRow) /\ BatchLen = Len(batch)
BY DEF TypeOK, Creation, BatchLen, FirstQueued

-----------------------------------------------------------------------------
(* Steps that only put what is stored into the cache.                      *)

(* CacheUser and CacheChannel: what is cached, and what they return. *)
LEMMA CacheProperty ==
  ASSUME NEW r, Cache(r)
  PROVE  /\ cache \subseteq cache' /\ cache' \subseteq cache \cup {r}
         /\ CacheResult(r) \in cache \cup {r}
         /\ CacheResult(r) = r \/ CacheResult(r).table = r.table
<1>1. CASE Blocking(r) = {}
  BY <1>1 DEF Cache, CacheResult
<1>2. CASE Blocking(r) # {}
  <2>1. CacheResult(r) \in Blocking(r)
    BY <1>2 DEF CacheResult
  <2> QED BY <1>2, <2>1 DEF Cache, Blocking, In
<1> QED BY <1>1, <1>2

LEMMA FoundIsStored ==
  ASSUME NEW by, NEW key
  PROVE  /\ GetUser(by, key) \subseteq cache \cup rows
         /\ GetChannel(by, key) \subseteq cache \cup rows
         /\ \A r \in GetChannel(by, key) : r.table = "channels"
BY DEF GetUser, GetChannel, StoredUser, StoredChannel, StoredUsers, StoredChannels, In

(* A step that changes only the cache, by rows that are stored or cached. *)
LEMMA CacheStep ==
  ASSUME DatabaseInv, cache \subseteq cache', cache' \subseteq cache \cup rows,
         rows' = rows, txn' = txn, uncommitted' = uncommitted, changes' = changes,
         last_rowid' = last_rowid, main' = main, app' = app, next_id' = next_id,
         pending' = pending, batch' = batch, written' = written, crashes' = crashes,
         answered' = answered, joined' = joined, raced' = raced, early' = early, threw' = threw
  PROVE  DatabaseInv'
<1> USE DEF DatabaseInv
<1>0. FlagsOK' /\ ThrowsOnlyIfEarlyOrRaced'
  BY Zenon DEF TypeOK, FlagsOK, ThrowsOnlyIfEarlyOrRaced
<1>1. TypeOK'
  BY <1>0 DEF TypeOK
<1>2. TablesInv'
  BY DEF TablesInv
<1>3. ASSUME ~ raced PROVE CacheIsStored' /\ AnsweredSurvives' /\ CreationInv'
  <2>1. CacheIsStored' /\ AnsweredSurvives'
    BY <1>3 DEF CacheIsStored, AnsweredSurvives
  <2>2. Creating' = Creating /\ CreatedRow' = CreatedRow /\ StoredChannels' = StoredChannels
    BY DEF Creating, CreatedRow, StoredChannels
  <2>3. CreationInv
    BY <1>3
  <2>4. CreationInv'
    BY <2>2, <2>3 DEF CreationInv
  <2> QED BY <2>1, <2>4
<1>4. ASSUME ~ raced, ~ early PROVE ChatsInv'
  BY <1>4 DEF ChatsInv, BatchLen, FirstQueued
<1> QED BY <1>0, <1>1, <1>2, <1>3, <1>4

LEMMA LookupInv ==
  ASSUME DatabaseInv,
         \/ \E name \in UserNames : HandleGetUser(name)
         \/ \E id \in Ids(rows, "users") : HandleGetUsers(id)
         \/ \E id \in Ids(rows, "channels") : HandleGetChatChannel(id)
  PROVE  DatabaseInv'
<1>1. PICK r \in cache \cup rows : Cache(r)
  BY FoundIsStored DEF HandleGetUser, HandleGetUsers, HandleGetChatChannel
<1>2. /\ rows' = rows /\ txn' = txn /\ uncommitted' = uncommitted /\ changes' = changes
      /\ last_rowid' = last_rowid /\ main' = main /\ app' = app /\ next_id' = next_id
      /\ pending' = pending /\ batch' = batch /\ written' = written /\ crashes' = crashes
      /\ answered' = answered /\ joined' = joined /\ raced' = raced /\ early' = early
      /\ threw' = threw
  BY DEF HandleGetUser, HandleGetUsers, HandleGetChatChannel, LooksUp, dbVars, chatVars, histVars
<1>3. cache \subseteq cache' /\ cache' \subseteq cache \cup rows
  BY <1>1, CacheProperty
<1> QED BY <1>2, <1>3, CacheStep

-----------------------------------------------------------------------------
(* The start-up.                                                           *)

(* What a table holds is cached after Prewarm, also when handlers have     *)
(* filled the cache before: ids are not given out twice.                   *)
LEMMA WithStoredProperty ==
  ASSUME TablesInv, NEW table
  PROVE  /\ cache \subseteq WithStored(cache, In(rows, table))
         /\ WithStored(cache, In(rows, table)) \subseteq cache \cup rows
         /\ CacheIsStored => In(rows, table) \subseteq WithStored(cache, In(rows, table))
<1>1. /\ cache \subseteq WithStored(cache, In(rows, table))
      /\ WithStored(cache, In(rows, table)) \subseteq cache \cup rows
  BY InTable DEF WithStored
<1>2. ASSUME CacheIsStored, NEW r \in In(rows, table)
      PROVE  r \in WithStored(cache, In(rows, table))
  <2>1. CASE r.id \notin Ids(cache, r.table)
    BY <2>1 DEF WithStored
  <2>2. CASE r.id \in Ids(cache, r.table)
    <3>1. PICK e \in cache : e.table = r.table /\ e.id = r.id
      BY <2>2, InTable
    <3>2. e \in rows /\ r \in rows
      BY <1>2, InTable DEF CacheIsStored
    <3>3. e = r
      BY <3>1, <3>2 DEF TablesInv
    <3> QED BY <3>3 DEF WithStored
  <2> QED BY <2>1, <2>2
<1> QED BY <1>1, <1>2

(* A step of the start-up keeps what is independent of `main`. *)
LEMMA StartUpStep ==
  ASSUME DatabaseInv, NEW from, NEW to \in {"users", "channels", "messages", "up"},
         from \in {"accept", "users", "channels", "messages"}, StartUp(from, to),
         cache \subseteq cache', cache' \subseteq cache \cup rows,
         next_id' \in Nat, pending' = pending, batch' = batch, written' = written,
         ~ raced /\ to \in {"messages", "up"} =>
            \A r \in StoredChannels : r \in cache' \/ (Creating /\ app.table = "channels" /\ r = CreatedRow),
         to = "up" => \A id \in Ids(rows, "messages") : id < next_id'
  PROVE  DatabaseInv'
<1> USE DEF DatabaseInv
<1>1. /\ main = from /\ main' = to /\ main # "up"
      /\ rows' = rows /\ txn' = txn /\ uncommitted' = uncommitted /\ changes' = changes
      /\ last_rowid' = last_rowid /\ app' = app /\ crashes' = crashes
      /\ answered' = answered /\ joined' = joined /\ raced' = raced /\ early' = early
      /\ threw' = threw
  BY DEF StartUp, dbVars, histVars
<1>2. FlagsOK' /\ ThrowsOnlyIfEarlyOrRaced'
  BY <1>1, Zenon DEF TypeOK, FlagsOK, ThrowsOnlyIfEarlyOrRaced
<1>3. TypeOK'
  BY <1>1, <1>2 DEF TypeOK
<1>4. batch = None
  BY <1>1 DEF TablesInv
<1>5. TablesInv'
  BY <1>1, <1>4 DEF TablesInv
<1>6. ASSUME ~ raced PROVE CacheIsStored' /\ AnsweredSurvives' /\ CreationInv'
  <2>1. CacheIsStored' /\ AnsweredSurvives'
    BY <1>1, <1>6 DEF CacheIsStored, AnsweredSurvives
  <2>2. Creating' = Creating /\ CreatedRow' = CreatedRow /\ StoredChannels' = StoredChannels
    BY <1>1 DEF Creating, CreatedRow, StoredChannels
  <2>3. CreationInv
    BY <1>6
  <2>4. CreationInv'
    BY <1>1, <1>6, <2>2, <2>3 DEF CreationInv
  <2> QED BY <2>1, <2>4
<1>7. ASSUME ~ raced, ~ early PROVE ChatsInv'
  <2>1. pending = <<>> /\ Len(pending') = 0 /\ BatchLen' = 0
    BY <1>1, <1>4, <1>7 DEF ChatsInv, BatchLen
  <2>2. FirstQueued' = next_id' - 0 - 0
    BY <2>1 DEF FirstQueued
  <2>3. FirstQueued' = next_id'
    <3>1. \A n \in Nat : n - 0 - 0 = n
      OBVIOUS
    <3> QED BY <2>2, <3>1, Zenon
  <2> QED BY <1>1, <2>1, <2>3 DEF ChatsInv
<1> QED BY <1>1, <1>2, <1>3, <1>5, <1>6, <1>7

LEMMA StartUpInv ==
  ASSUME DatabaseInv,
         RegisterUserHandlers \/ PrewarmUsers \/ PrewarmChannels \/ PrewarmMessages
  PROVE  DatabaseInv'
<1> USE DEF DatabaseInv
<1>n. next_id \in Nat
  BY DEF TypeOK
<1>1. CASE RegisterUserHandlers
  <2>1. /\ StartUp("accept", "users") /\ cache' = cache /\ next_id' = next_id
        /\ pending' = pending /\ batch' = batch /\ written' = written
    BY <1>1 DEF RegisterUserHandlers, chatVars
  <2> QED BY <1>n, <2>1, StartUpStep
<1>2. CASE PrewarmUsers
  <2>1. /\ StartUp("users", "channels") /\ next_id' = next_id /\ pending' = pending
        /\ batch' = batch /\ written' = written
        /\ cache' = WithStored(cache, In(rows, "users"))
    BY <1>2 DEF PrewarmUsers, chatVars, StoredUsers
  <2>2. cache \subseteq cache' /\ cache' \subseteq cache \cup rows
    BY <2>1, WithStoredProperty
  <2> QED BY <1>n, <2>1, <2>2, StartUpStep
<1>3. CASE PrewarmChannels
  <2>1. /\ StartUp("channels", "messages") /\ next_id' = next_id /\ pending' = pending
        /\ batch' = batch /\ written' = written
        /\ cache' = WithStored(cache, In(rows, "channels"))
    BY <1>3 DEF PrewarmChannels, chatVars, StoredChannels
  <2>2. cache \subseteq cache' /\ cache' \subseteq cache \cup rows
    BY <2>1, WithStoredProperty
  <2>3. ~ raced => \A r \in StoredChannels : r \in cache'
    BY <2>1, WithStoredProperty DEF StoredChannels
  <2> QED BY <1>n, <2>1, <2>2, <2>3, StartUpStep
<1>4. CASE PrewarmMessages
  <2>1. /\ StartUp("messages", "up") /\ cache' = cache /\ pending' = pending
        /\ batch' = batch /\ written' = written
        /\ next_id' = Max(Ids(rows, "messages") \cup {-1}) + 1
    BY <1>4 DEF PrewarmMessages
  <2>2. next_id' \in Nat /\ \A id \in Ids(rows, "messages") : id < next_id'
    BY <2>1, NextRowId
  <2>3. ~ raced =>
          \A r \in StoredChannels : r \in cache' \/ (Creating /\ app.table = "channels" /\ r = CreatedRow)
    BY <2>1 DEF StartUp, CreationInv
  <2> QED BY <2>1, <2>2, <2>3, StartUpStep
<1> QED BY <1>1, <1>2, <1>3, <1>4

-----------------------------------------------------------------------------
(* Creations.                                                              *)

(* A row with a new id: the tables keep their shape. *)
LEMMA NewRow ==
  ASSUME TypeOK, TablesInv, NEW row \in StoredRow,
         \A r \in rows : r.table = row.table => r.id # row.id,
         rows' = rows \cup {row}
  PROVE  /\ \E m \in {r.id : r \in rows'} \cup {0} : \A r \in rows' : r.id <= m
         /\ \A r, s \in rows' : r.table = s.table /\ r.id = s.id => r = s
<1>1. \A r \in rows' : r.id \in Nat
  BY RowType DEF TypeOK
<1>2. PICK m \in {r.id : r \in rows} \cup {0} : \A r \in rows : r.id <= m
  BY DEF TablesInv
<1>3. m \in Nat /\ row.id \in Nat
  BY <1>1, <1>2
<1>4. CASE row.id <= m
  <2>1. m \in {r.id : r \in rows'} \cup {0} /\ \A r \in rows' : r.id <= m
    BY <1>2, <1>4
  <2> QED BY <2>1 DEF TablesInv
<1>5. CASE m < row.id
  <2>1. row.id \in {r.id : r \in rows'} /\ \A r \in rows' : r.id <= row.id
    BY <1>1, <1>2, <1>3, <1>5
  <2> QED BY <2>1 DEF TablesInv
<1> QED BY <1>3, <1>4, <1>5

(* The INSERT of CreateUser and CreateChatChannel. *)
LEMMA InsertInv ==
  ASSUME DatabaseInv, NEW table \in {"users", "channels"}, NEW name \in UserNames \cup ChannelNames,
         Insert(table, name), cache \subseteq cache', cache' \subseteq cache \cup rows
  PROVE  DatabaseInv'
<1> USE DEF DatabaseInv
<1> DEFINE row == Row(table, Max(Ids(rows, table) \cup {0}) + 1, name)
<1>1. /\ app = None /\ app' = [pc |-> "changes", table |-> table, name |-> name]
      /\ txn' = txn /\ main' = main /\ next_id' = next_id /\ pending' = pending
      /\ batch' = batch /\ written' = written /\ crashes' = crashes /\ answered' = answered
      /\ raced' = raced /\ early' = early /\ threw' = threw
  BY DEF Insert, chatVars
<1>2. FlagsOK' /\ ThrowsOnlyIfEarlyOrRaced'
  BY <1>1, Zenon DEF TypeOK, FlagsOK, ThrowsOnlyIfEarlyOrRaced
<1>3. app' \in Creation /\ app' # None /\ app'.table = table /\ app'.name = name
      /\ app'.pc = "changes"
  BY <1>1, DatabaseAssumption DEF Creation
<1>4. \A r \in StoredChannels : ~ raced /\ main \in {"messages", "up"} => r \in cache
  BY <1>1 DEF CreationInv, Creating
<1>5. CASE /\ changes' = 0 /\ rows' = rows /\ uncommitted' = uncommitted
           /\ last_rowid' = last_rowid /\ joined' = joined
  <2>1. TypeOK'
    BY <1>1, <1>2, <1>3, <1>5 DEF TypeOK
  <2>2. TablesInv'
    BY <1>1, <1>5 DEF TablesInv
  <2>3. ASSUME ~ raced PROVE CacheIsStored' /\ AnsweredSurvives' /\ CreationInv'
    <3>1. CacheIsStored' /\ AnsweredSurvives'
      BY <1>1, <1>5, <2>3 DEF CacheIsStored, AnsweredSurvives
    <3>2. ~ Creating' /\ StoredChannels' = StoredChannels
      BY <1>3, <1>5 DEF Creating, StoredChannels
    <3> QED BY <1>1, <1>4, <2>3, <3>1, <3>2 DEF CreationInv
  <2>4. ASSUME ~ raced, ~ early PROVE ChatsInv'
    BY <1>1, <1>5, <2>4 DEF ChatsInv, BatchLen, FirstQueued
  <2> QED BY <1>1, <1>2, <2>1, <2>2, <2>3, <2>4
<1>6. CASE InsertRow(row) /\ joined' = IF txn THEN joined \cup {row} ELSE joined
  <2>0. row.table = table /\ row.name = name /\ row.id = Max(Ids(rows, table) \cup {0}) + 1
    BY RowFields
  <2>1. /\ row.table = table /\ row.name = name /\ row.id \in Nat
        /\ \A id \in Ids(rows, table) : id < row.id
    <3>1. 0 \in {-1, 0}
      OBVIOUS
    <3> HIDE DEF row
    <3> QED BY <2>0, <3>1, NextRowId
  <2>2. row \in StoredRow
    BY <2>1 DEF Row, StoredRow
  <2> HIDE DEF row
  <2>3. \A r \in rows : r.table = row.table => r.id # row.id
    <3> SUFFICES ASSUME NEW r \in rows, r.table = table PROVE r.id # row.id
      BY <2>1
    <3>1. r.id \in Ids(rows, table) /\ r.id \in Nat
      BY InTable, RowType DEF TypeOK
    <3> QED BY <2>1, <3>1
  <2>4. /\ rows' = rows \cup {row} /\ changes' = 1 /\ last_rowid' = row.id
        /\ uncommitted' = IF txn THEN uncommitted \cup {row} ELSE uncommitted
        /\ joined' = IF txn THEN joined \cup {row} ELSE joined
    BY <1>6 DEF InsertRow
  <2>5. TypeOK'
    BY <1>1, <1>2, <1>3, <2>1, <2>2, <2>4 DEF TypeOK
  <2>6. TablesInv'
    <3>1. \A r \in uncommitted' : r.table = "messages" \/ r \in joined'
      BY <2>4 DEF TablesInv
    <3> QED BY <1>1, <2>2, <2>3, <2>4, <3>1, NewRow DEF TablesInv
  <2>7. CreatedRow' = row /\ Creating'
    <3>1. row = Row(row.table, row.id, row.name)
      BY <2>2, RowType
    <3> QED BY <1>3, <2>1, <2>4, <3>1 DEF CreatedRow, Creating
  <2>8. ASSUME ~ raced PROVE CacheIsStored' /\ AnsweredSurvives' /\ CreationInv'
    <3>1. CacheIsStored'
      BY <2>4, <2>8 DEF CacheIsStored
    <3>2. AnsweredSurvives'
      BY <1>1, <2>4, <2>8 DEF AnsweredSurvives
    <3>3. \A r \in StoredChannels' : r \in StoredChannels \/ (r = row /\ row.table = "channels")
      BY <2>4 DEF StoredChannels, In
    <3>4. CreationInv'
      BY <1>1, <1>3, <1>4, <2>1, <2>4, <2>7, <2>8, <3>3 DEF CreationInv
    <3> QED BY <3>1, <3>2, <3>4
  <2>9. ASSUME ~ raced, ~ early PROVE ChatsInv'
    <3>1. Ids(rows', "messages") = Ids(rows, "messages")
      BY <2>1, <2>4 DEF Ids, In
    <3>2. Ids(rows, "channels") \subseteq Ids(rows', "channels")
      BY <2>4 DEF Ids, In
    <3>3. BatchLen' = BatchLen /\ FirstQueued' = FirstQueued
      BY <1>1 DEF BatchLen, FirstQueued
    <3> QED BY <1>1, <2>9, <3>1, <3>2, <3>3 DEF ChatsInv
  <2> QED BY <1>1, <1>2, <2>5, <2>6, <2>8, <2>9
<1>7. QED BY <1>5, <1>6 DEF Insert

LEMMA CreateInv ==
  ASSUME DatabaseInv,
         \/ \E name \in UserNames : HandleCreateUser(name)
         \/ \E name \in ChannelNames : HandleCreateChatChannel(name)
  PROVE  DatabaseInv'
<1>1. CASE \E name \in UserNames : HandleCreateUser(name)
  BY <1>1, InsertInv DEF HandleCreateUser
<1>2. CASE \E name \in ChannelNames : HandleCreateChatChannel(name)
  <2>1. PICK name \in ChannelNames : HandleCreateChatChannel(name)
    BY <1>2
  <2>2. PICK user \in StoredUsers : Cache(user)
    BY <2>1 DEF HandleCreateChatChannel, SessionUser
  <2>3. user \in rows
    BY <2>2, InTable DEF StoredUsers
  <2>4. cache \subseteq cache' /\ cache' \subseteq cache \cup rows
    BY <2>2, <2>3, CacheProperty
  <2>5. Insert("channels", name)
    BY <2>1 DEF HandleCreateChatChannel
  <2> QED BY <2>4, <2>5, InsertInv
<1> QED BY <1>1, <1>2

(* HandleConflict and ReadRowid: a creation reads its result, caches a     *)
(* stored row of its table and answers with a stored row.                  *)
LEMMA ResultStep ==
  ASSUME DatabaseInv, app # None, app' \in {None, [app EXCEPT !.pc = "rowid"]},
         cache \subseteq cache', cache' \subseteq StoredRow, answered' \subseteq StoredRow,
         \A r \in answered' \ answered : r.table # "messages",
         ~ raced => cache' \subseteq rows /\ answered' \ answered \subseteq rows,
         app' # None => changes > 0,
         ~ raced /\ app' = None /\ Creating /\ app.table = "channels" => CreatedRow \in cache',
         rows' = rows, txn' = txn, uncommitted' = uncommitted, changes' = changes,
         last_rowid' = last_rowid, main' = main, next_id' = next_id,
         pending' = pending, batch' = batch, written' = written, crashes' = crashes,
         joined' = joined, raced' = raced, early' = early, threw' = threw
  PROVE  DatabaseInv'
<1> USE DEF DatabaseInv
<1>0. FlagsOK' /\ ThrowsOnlyIfEarlyOrRaced'
  BY Zenon DEF TypeOK, FlagsOK, ThrowsOnlyIfEarlyOrRaced
<1>1. app \in Creation
  BY Types
<1>2. app' = None \/ (/\ app' \in Creation /\ app' # None /\ app'.pc = "rowid"
                      /\ app'.table = app.table /\ app'.name = app.name)
  BY <1>1, DatabaseAssumption DEF Creation
<1>3. TypeOK'
  BY <1>0, <1>2 DEF TypeOK
<1>4. TablesInv'
  BY DEF TablesInv
<1>5. ASSUME ~ raced PROVE CacheIsStored' /\ AnsweredSurvives' /\ CreationInv'
  <2>1. CacheIsStored'
    BY <1>5 DEF CacheIsStored
  <2>2. AnsweredSurvives'
    <3>1. ASSUME NEW r \in answered' \ answered PROVE r \in (rows \ uncommitted) \cup joined
      <4>1. r \in rows /\ r.table # "messages"
        BY <1>5
      <4>2. r \in uncommitted => r \in joined
        BY <4>1 DEF TablesInv
      <4> QED BY <4>1, <4>2
    <3> QED BY <1>5, <3>1 DEF AnsweredSurvives
  <2>3. CreationInv
    BY <1>5
  <2>4. StoredChannels' = StoredChannels
    BY DEF StoredChannels
  <2>5. CASE app' = None
    <3>1. ~ Creating'
      BY <2>5 DEF Creating
    <3> QED BY <1>5, <2>1, <2>2, <2>3, <2>4, <2>5, <3>1 DEF CreationInv
  <2>6. CASE app' # None
    <3>1. Creating /\ Creating' /\ CreatedRow' = CreatedRow /\ app'.table = app.table
      BY <1>2, <2>6 DEF Creating, CreatedRow
    <3> QED BY <2>1, <2>2, <2>3, <2>4, <3>1 DEF CreationInv
  <2> QED BY <2>5, <2>6
<1>6. ASSUME ~ raced, ~ early PROVE ChatsInv'
  BY <1>6 DEF ChatsInv, BatchLen, FirstQueued
<1> QED BY <1>0, <1>3, <1>4, <1>5, <1>6

LEMMA HandleConflictInv ==
  ASSUME DatabaseInv, HandleConflict
  PROVE  DatabaseInv'
<1> USE DEF DatabaseInv
<1>1. /\ app # None /\ app.pc = "changes"
      /\ rows' = rows /\ txn' = txn /\ uncommitted' = uncommitted /\ changes' = changes
      /\ last_rowid' = last_rowid /\ main' = main /\ next_id' = next_id
      /\ pending' = pending /\ batch' = batch /\ written' = written /\ crashes' = crashes
      /\ joined' = joined /\ raced' = raced /\ early' = early /\ threw' = threw
  BY DEF HandleConflict, ReadChanges, dbVars, chatVars
<1>2. cache \subseteq StoredRow /\ answered \subseteq StoredRow /\ rows \subseteq StoredRow
  BY DEF TypeOK
<1>3. ~ raced => cache \subseteq rows
  BY DEF CacheIsStored
<1>4. CASE /\ changes > 0 /\ app' = [app EXCEPT !.pc = "rowid"]
           /\ cache' = cache /\ answered' = answered
  <2>1. app' # None
    BY <1>1, <1>4, Types, DatabaseAssumption DEF Creation
  <2> QED BY <1>1, <1>2, <1>3, <1>4, <2>1, ResultStep
<1>5. CASE changes = 0 /\ app' = None /\ cache' = cache /\ answered' = answered
  <2>1. ~ Creating
    BY <1>1, <1>5 DEF Creating
  <2> QED BY <1>1, <1>2, <1>3, <1>5, <2>1, ResultStep
<1>6. CASE /\ changes = 0 /\ app' = None
           /\ \E r \in GetChannel("name", app.name) :
                Cache(r) /\ answered' = answered \cup {CacheResult(r)}
  <2>1. ~ Creating
    BY <1>1, <1>6 DEF Creating
  <2>2. PICK r \in GetChannel("name", app.name) :
               Cache(r) /\ answered' = answered \cup {CacheResult(r)}
    BY <1>6
  <2>3. r \in cache \cup rows /\ r.table = "channels"
    BY <2>2, FoundIsStored
  <2>4. /\ cache \subseteq cache' /\ cache' \subseteq cache \cup rows
        /\ CacheResult(r) \in cache \cup rows /\ CacheResult(r).table = "channels"
    BY <2>2, <2>3, CacheProperty
  <2> QED BY <1>1, <1>2, <1>3, <1>6, <2>1, <2>2, <2>4, ResultStep
<1> QED BY <1>4, <1>5, <1>6 DEF HandleConflict, ReadChanges

LEMMA ReadRowidInv ==
  ASSUME DatabaseInv, ReadRowid
  PROVE  DatabaseInv'
<1> USE DEF DatabaseInv
<1>1. /\ app # None /\ app.pc = "rowid" /\ app' = None
      /\ rows' = rows /\ txn' = txn /\ uncommitted' = uncommitted /\ changes' = changes
      /\ last_rowid' = last_rowid /\ main' = main /\ next_id' = next_id
      /\ pending' = pending /\ batch' = batch /\ written' = written /\ crashes' = crashes
      /\ joined' = joined /\ raced' = raced /\ early' = early /\ threw' = threw
  BY DEF ReadRowid, dbVars, chatVars
<1>2. cache \subseteq StoredRow /\ answered \subseteq StoredRow /\ rows \subseteq StoredRow
  BY DEF TypeOK
<1>3. ~ raced => cache \subseteq rows /\ CreatedRow \in rows
  BY <1>1 DEF CacheIsStored, CreationInv, Creating
<1>4. /\ CreatedRow.table = app.table /\ CreatedRow.id = last_rowid
      /\ app.table \in {"users", "channels"} /\ CreatedRow \in StoredRow
  BY <1>1, Types, RowFields DEF CreatedRow, Row, StoredRow, TypeOK
<1>5. CASE app.table = "channels"
  <2>1. Cache(CreatedRow) /\ answered' = answered \cup {CacheResult(CreatedRow)}
    BY <1>5 DEF ReadRowid, CreatedRow
  <2>2. /\ cache \subseteq cache' /\ cache' \subseteq cache \cup {CreatedRow}
        /\ CacheResult(CreatedRow) \in cache \cup {CreatedRow}
        /\ CacheResult(CreatedRow).table = "channels"
    BY <1>4, <1>5, <2>1, CacheProperty
  <2>3. ASSUME ~ raced PROVE CreatedRow \in cache'
    <3>1. CASE Blocking(CreatedRow) = {}
      BY <2>1, <3>1 DEF Cache
    <3>2. CASE Blocking(CreatedRow) # {}
      <4>1. PICK e \in cache : e.table = "channels" /\ e.id = last_rowid
        BY <1>4, <1>5, <3>2 DEF Blocking, In
      <4>2. e = CreatedRow
        BY <1>3, <1>4, <1>5, <2>3, <4>1 DEF TablesInv
      <4> QED BY <2>2, <4>2
    <3> QED BY <3>1, <3>2
  <2> QED BY <1>1, <1>2, <1>3, <1>4, <2>1, <2>2, <2>3, ResultStep
<1>6. CASE app.table = "users"
  <2>1. cache' = cache /\ answered' = answered \cup {CreatedRow}
    BY <1>6 DEF ReadRowid, CreatedRow
  <2> QED BY <1>1, <1>2, <1>3, <1>4, <1>6, <2>1, ResultStep
<1> QED BY <1>4, <1>5, <1>6

-----------------------------------------------------------------------------
(* Chats.                                                                  *)

LEMMA WriteInv ==
  ASSUME DatabaseInv, NEW channel \in Ids(cache, "channels"), HandleWriteChatMessage(channel)
  PROVE  DatabaseInv'
<1> USE DEF DatabaseInv
<1> DEFINE row == Row("messages", next_id, channel)
<1>1. /\ pending' = Append(pending, row)
      /\ next_id' = next_id + 1 /\ written' = written + 1
      /\ early' = (early \/ main # "up")
      /\ rows' = rows /\ txn' = txn /\ uncommitted' = uncommitted /\ changes' = changes
      /\ last_rowid' = last_rowid /\ main' = main /\ app' = app
      /\ batch' = batch /\ crashes' = crashes /\ answered' = answered
      /\ joined' = joined /\ raced' = raced /\ threw' = threw
  BY DEF HandleWriteChatMessage, dbVars
<1>2. FlagsOK' /\ ThrowsOnlyIfEarlyOrRaced'
  BY <1>1, Zenon DEF TypeOK, FlagsOK, ThrowsOnlyIfEarlyOrRaced
<1>3. cache \subseteq cache' /\ cache' \subseteq cache \cup rows
  <2>1. PICK user \in StoredUsers : Cache(user)
    BY DEF HandleWriteChatMessage, SessionUser
  <2>2. user \in rows
    BY <2>1, InTable DEF StoredUsers
  <2> QED BY <2>1, <2>2, CacheProperty
<1>4. PICK ch \in cache : ch.table = "channels" /\ ch.id = channel
  BY InTable
<1>5. row \in ChatRow /\ row.id = next_id /\ row.name = channel
  <2>1. channel \in Nat /\ next_id \in Nat
    BY <1>4, RowType DEF TypeOK
  <2> QED BY <2>1, RowFields DEF ChatRow, Row
<1> HIDE DEF row
<1>t. /\ next_id \in Nat /\ Len(pending) \in Nat /\ pending \in Seq(ChatRow)
      /\ BatchLen \in Nat /\ FirstQueued \in Int /\ written \in Nat
  BY Types DEF TypeOK
<1>6. /\ pending' \in Seq(ChatRow) /\ Len(pending') = Len(pending) + 1
      /\ pending'[Len(pending) + 1] = row
      /\ \A i \in 1 .. Len(pending) : pending'[i] = pending[i]
  BY <1>1, <1>5, <1>t
<1>7. TypeOK'
  BY <1>1, <1>2, <1>3, <1>6, <1>t DEF TypeOK
<1>8. TablesInv'
  BY <1>1 DEF TablesInv
<1>9. ASSUME ~ raced PROVE CacheIsStored' /\ AnsweredSurvives' /\ CreationInv'
  <2>1. CacheIsStored' /\ AnsweredSurvives'
    BY <1>1, <1>3, <1>9 DEF CacheIsStored, AnsweredSurvives
  <2>2. Creating' = Creating /\ CreatedRow' = CreatedRow /\ StoredChannels' = StoredChannels
    BY <1>1 DEF Creating, CreatedRow, StoredChannels
  <2>3. CreationInv
    BY <1>9
  <2>4. CreationInv'
    BY <1>1, <1>3, <2>2, <2>3 DEF CreationInv
  <2> QED BY <2>1, <2>4
<1>10. ASSUME ~ raced, ~ early' PROVE ChatsInv'
  <2>1. ~ early /\ main = "up"
    BY <1>1, <1>10
  <2>2. ChatsInv
    BY <1>10, <2>1
  <2>3. BatchLen' = BatchLen
    BY <1>1 DEF BatchLen
  <2>4. FirstQueued' = FirstQueued
    BY <1>1, <1>6, <1>t, <2>3 DEF FirstQueued
  <2>5. next_id = FirstQueued + BatchLen + Len(pending)
    BY <1>t DEF FirstQueued
  <2>6. channel \in Ids(rows, "channels")
    BY <1>4, <1>10, InTable DEF CacheIsStored
  <2>7. ASSUME NEW i \in 1 .. Len(pending')
        PROVE  pending'[i].id = FirstQueued + BatchLen + i - 1 /\ pending'[i].name \in Ids(rows, "channels")
    <3>1. CASE i = Len(pending) + 1
      BY <1>5, <1>6, <1>t, <2>5, <2>6, <3>1
    <3>2. CASE i # Len(pending) + 1
      <4>1. i \in 1 .. Len(pending)
        BY <1>6, <1>t, <3>2
      <4> QED BY <1>6, <2>2, <4>1 DEF ChatsInv
    <3> QED BY <3>1, <3>2
  <2> QED BY <1>1, <2>1, <2>2, <2>3, <2>4, <2>7 DEF ChatsInv
<1> QED BY <1>1, <1>2, <1>7, <1>8, <1>9, <1>10

(* The pending chats become the batch of a transaction. *)
LEMMA PersistBeginInv ==
  ASSUME DatabaseInv, PersistBegin
  PROVE  DatabaseInv'
<1> USE DEF DatabaseInv
<1>1. /\ main = "up" /\ batch = None /\ txn' = TRUE /\ batch' = pending /\ pending' = <<>>
      /\ rows' = rows /\ uncommitted' = uncommitted /\ changes' = changes
      /\ last_rowid' = last_rowid /\ main' = main /\ app' = app /\ cache' = cache
      /\ next_id' = next_id /\ written' = written /\ crashes' = crashes /\ answered' = answered
      /\ joined' = joined /\ raced' = raced /\ early' = early /\ threw' = threw
  BY DEF PersistBegin, histVars
<1>2. FlagsOK' /\ ThrowsOnlyIfEarlyOrRaced'
  BY <1>1, Zenon DEF TypeOK, FlagsOK, ThrowsOnlyIfEarlyOrRaced
<1>t. next_id \in Nat /\ Len(pending) \in Nat /\ pending \in Seq(ChatRow) /\ pending # None
  BY Types, DatabaseAssumption
<1>3. TypeOK'
  <2>1. pending' \in Seq(ChatRow)
    BY <1>1
  <2> QED BY <1>1, <1>2, <1>t, <2>1 DEF TypeOK
<1>4. TablesInv'
  BY <1>1 DEF TablesInv
<1>5. ASSUME ~ raced PROVE CacheIsStored' /\ AnsweredSurvives' /\ CreationInv'
  BY <1>1, <1>5 DEF CacheIsStored, AnsweredSurvives, CreationInv, Creating, CreatedRow, StoredChannels
<1>6. ASSUME ~ raced, ~ early PROVE ChatsInv'
  <2>1. BatchLen = 0 /\ BatchLen' = Len(pending) /\ Len(pending') = 0
    BY <1>1, <1>t DEF BatchLen
  <2>2. FirstQueued' = FirstQueued /\ FirstQueued \in Int
    BY <1>1, <1>t, <2>1 DEF FirstQueued
  <2>3. ChatsInv
    BY <1>6
  <2>4. \A i \in 1 .. Len(pending) :
          pending[i].id = FirstQueued + i - 1 /\ pending[i].name \in Ids(rows, "channels")
    BY <2>1, <2>2, <2>3 DEF ChatsInv
  <2> QED BY <1>1, <2>1, <2>2, <2>3, <2>4 DEF ChatsInv
<1> QED BY <1>1, <1>2, <1>3, <1>4, <1>5, <1>6

(* The INSERT of a chat.  A creation that is under way is raced. *)
LEMMA PersistInsertInv ==
  ASSUME DatabaseInv, PersistInsert
  PROVE  DatabaseInv'
<1> USE DEF DatabaseInv
<1> DEFINE row == Head(batch)
<1>1. /\ batch # None /\ batch # <<>> /\ Accepts(row)
      /\ rows' = rows \cup {row} /\ changes' = 1 /\ last_rowid' = row.id
      /\ uncommitted' = IF txn THEN uncommitted \cup {row} ELSE uncommitted
      /\ batch' = Tail(batch) /\ raced' = (raced \/ app # None)
      /\ txn' = txn /\ main' = main /\ app' = app /\ cache' = cache
      /\ next_id' = next_id /\ pending' = pending /\ written' = written /\ crashes' = crashes
      /\ answered' = answered /\ joined' = joined /\ early' = early /\ threw' = threw
  BY DEF PersistInsert, InsertRow
<1>2. FlagsOK' /\ ThrowsOnlyIfEarlyOrRaced'
  BY <1>1, Zenon DEF TypeOK, FlagsOK, ThrowsOnlyIfEarlyOrRaced
<1>t. next_id \in Nat /\ Len(pending) \in Nat /\ batch \in Seq(ChatRow) /\ BatchLen = Len(batch)
  BY <1>1, Types
<1>3. /\ row = batch[1] /\ row \in ChatRow /\ Len(batch) \in Nat /\ Len(batch) > 0
      /\ batch' \in Seq(ChatRow) /\ Len(batch') = Len(batch) - 1
      /\ \A i \in 1 .. Len(batch') : batch'[i] = batch[i + 1] /\ i + 1 \in 1 .. Len(batch)
  BY <1>1, <1>t
<1> HIDE DEF row
<1>4. row.table = "messages" /\ row.id \in Nat /\ row \in StoredRow
  BY <1>3, ChatIsStoredRow DEF ChatRow
<1>5. TypeOK'
  BY <1>1, <1>2, <1>3, <1>4 DEF TypeOK
<1>6. TablesInv'
  <2>1. \A r \in rows : r.table = row.table => r.id # row.id
    BY <1>1, <1>4, InTable DEF Accepts
  <2>2. \A r \in uncommitted' : r.table = "messages" \/ r \in joined'
    BY <1>1, <1>4 DEF TablesInv
  <2>3. main = "up"
    BY <1>1 DEF TablesInv
  <2> QED BY <1>1, <1>4, <2>1, <2>2, <2>3, NewRow DEF TablesInv
<1>7. ASSUME ~ raced' PROVE CacheIsStored' /\ AnsweredSurvives' /\ CreationInv'
  <2>1. ~ raced /\ app = None
    BY <1>1, <1>7
  <2>2. CacheIsStored'
    BY <1>1, <2>1 DEF CacheIsStored
  <2>3. AnsweredSurvives'
    <3>1. row \notin answered
      BY <1>4 DEF TablesInv
    <3> QED BY <1>1, <2>1, <3>1 DEF AnsweredSurvives
  <2>4. StoredChannels' = StoredChannels
    BY <1>1, <1>4 DEF StoredChannels, In
  <2>5. CreationInv'
    <3>1. ~ Creating /\ ~ Creating'
      BY <1>1, <2>1 DEF Creating
    <3> QED BY <1>1, <2>1, <2>4, <3>1 DEF CreationInv
  <2> QED BY <2>2, <2>3, <2>5
<1>8. ASSUME ~ raced', ~ early PROVE ChatsInv'
  <2>1. ~ raced /\ ChatsInv
    BY <1>1, <1>8
  <2>2. batch' # None
    BY <1>3, DatabaseAssumption
  <2>3. BatchLen' = Len(batch) - 1
    BY <1>3, <2>2 DEF BatchLen
  <2>4. FirstQueued \in Int /\ FirstQueued' = FirstQueued + 1
    BY <1>1, <1>3, <1>t, <2>3 DEF FirstQueued
  <2>5. Ids(rows', "channels") = Ids(rows, "channels")
    BY <1>1, <1>4 DEF Ids, In
  <2>6. Ids(rows', "messages") = Ids(rows, "messages") \cup {row.id}
    BY <1>1, <1>4 DEF Ids, In
  <2>7. row.id = FirstQueued
    BY <1>3, <1>t, <2>1, <2>4 DEF ChatsInv
  <2>8. ASSUME NEW i \in 1 .. BatchLen'
        PROVE  /\ batch'[i].id = FirstQueued' + i - 1
               /\ batch'[i].name \in Ids(rows', "channels")
    <3>1. i \in 1 .. Len(batch') /\ i \in Int /\ batch'[i] = batch[i + 1] /\ i + 1 \in 1 .. BatchLen
      BY <1>3, <1>t, <2>3
    <3>2. /\ batch[i + 1].id = FirstQueued + (i + 1) - 1
          /\ batch[i + 1].name \in Ids(rows, "channels")
      BY <2>1, <3>1 DEF ChatsInv
    <3> QED BY <2>4, <2>5, <3>1, <3>2
  <2>9. ASSUME NEW i \in 1 .. Len(pending)
        PROVE  /\ pending[i].id = FirstQueued' + BatchLen' + i - 1
               /\ pending[i].name \in Ids(rows', "channels")
    <3>1. /\ pending[i].id = FirstQueued + BatchLen + i - 1
          /\ pending[i].name \in Ids(rows, "channels")
      BY <2>1 DEF ChatsInv
    <3>2. FirstQueued' + BatchLen' + i - 1 = FirstQueued + BatchLen + i - 1
      BY <1>3, <1>t, <2>3, <2>4
    <3> QED BY <2>5, <3>1, <3>2
  <2>10. main = "up"
    BY <1>1 DEF TablesInv
  <2>11. ASSUME NEW id \in Ids(rows', "messages") PROVE id < FirstQueued'
    <3>1. CASE id = row.id
      BY <2>4, <2>7, <3>1
    <3>2. CASE id \in Ids(rows, "messages")
      <4>1. id < FirstQueued
        BY <2>1, <2>10, <3>2 DEF ChatsInv
      <4>2. id \in Nat
        BY <3>2, InTable, RowType DEF TypeOK
      <4> QED BY <2>4, <4>1, <4>2
    <3> QED BY <2>6, <3>1, <3>2
  <2> QED BY <1>1, <2>8, <2>9, <2>10, <2>11 DEF ChatsInv
<1> QED BY <1>1, <1>2, <1>5, <1>6, <1>7, <1>8

LEMMA PersistCommitInv ==
  ASSUME DatabaseInv, PersistCommit
  PROVE  DatabaseInv'
<1> USE DEF DatabaseInv
<1>1. /\ batch = <<>> /\ txn' = FALSE /\ uncommitted' = {} /\ batch' = None
      /\ rows' = rows /\ changes' = changes
      /\ last_rowid' = last_rowid /\ main' = main /\ app' = app /\ cache' = cache
      /\ next_id' = next_id /\ pending' = pending /\ written' = written /\ crashes' = crashes
      /\ answered' = answered
      /\ joined' = joined /\ raced' = raced /\ early' = early /\ threw' = threw
  BY DEF PersistCommit, histVars
<1>2. FlagsOK' /\ ThrowsOnlyIfEarlyOrRaced'
  BY <1>1, Zenon DEF TypeOK, FlagsOK, ThrowsOnlyIfEarlyOrRaced
<1>3. TypeOK'
  BY <1>1, <1>2 DEF TypeOK
<1>4. TablesInv'
  BY <1>1 DEF TablesInv
<1>5. ASSUME ~ raced PROVE CacheIsStored' /\ AnsweredSurvives' /\ CreationInv'
  <2>1. CacheIsStored' /\ AnsweredSurvives'
    BY <1>1, <1>5 DEF CacheIsStored, AnsweredSurvives
  <2>2. CreationInv'
    BY <1>1, <1>5 DEF CreationInv, Creating, CreatedRow, StoredChannels
  <2> QED BY <2>1, <2>2
<1>6. ASSUME ~ raced, ~ early PROVE ChatsInv'
  <2>1. BatchLen = 0 /\ BatchLen' = 0
    BY <1>1 DEF BatchLen
  <2>2. FirstQueued' = FirstQueued
    BY <1>1, <2>1 DEF FirstQueued
  <2>3. ChatsInv
    BY <1>6
  <2> QED BY <1>1, <2>1, <2>2, <2>3 DEF ChatsInv
<1> QED BY <1>1, <1>2, <1>3, <1>4, <1>5, <1>6

-----------------------------------------------------------------------------
(* The server dies.                                                        *)

LEMMA RestartInv ==
  ASSUME DatabaseInv, Restart, crashes' \in Nat, threw' \in BOOLEAN,
         threw' => early \/ raced
  PROVE  DatabaseInv'
<1> USE DEF DatabaseInv
<1>1. /\ rows' = rows \ uncommitted /\ uncommitted' = {} /\ txn' = FALSE
      /\ changes' = 0 /\ last_rowid' = 0
      /\ main' = "accept" /\ app' = None /\ cache' = {}
      /\ next_id' = 0 /\ pending' = <<>> /\ batch' = None
      /\ written' = written /\ answered' = answered /\ joined' = joined
      /\ raced' = raced /\ early' = early
  BY DEF Restart
<1>2. FlagsOK' /\ ThrowsOnlyIfEarlyOrRaced'
  BY <1>1, Zenon DEF TypeOK, FlagsOK, ThrowsOnlyIfEarlyOrRaced
<1>3. TypeOK'
  BY <1>1, <1>2 DEF TypeOK
<1>4. TablesInv'
  <2>1. \E m \in {r.id : r \in rows'} \cup {0} : \A r \in rows' : r.id <= m
    <3> DEFINE S == {r.id : r \in rows'} \cup {0}
    <3>1. PICK n \in {r.id : r \in rows} \cup {0} : \A r \in rows : r.id <= n
      BY DEF TablesInv
    <3>2. \A r \in rows : r.id \in Nat
      BY RowType DEF TypeOK
    <3>3. n \in Nat /\ S \subseteq Int /\ S # {} /\ \A x \in S : x <= n
      BY <1>1, <3>1, <3>2
    <3>4. Max(S) \in S /\ \A x \in S : x <= Max(S)
      <4> HIDE DEF S
      <4> QED BY <3>3, MaxProperty
    <3> QED BY <3>4
  <2> QED BY <1>1, <2>1 DEF TablesInv
<1>5. ASSUME ~ raced PROVE CacheIsStored' /\ AnsweredSurvives' /\ CreationInv'
  <2>1. CacheIsStored' /\ AnsweredSurvives'
    BY <1>1, <1>5 DEF CacheIsStored, AnsweredSurvives
  <2>2. CreationInv'
    BY <1>1 DEF CreationInv, Creating
  <2> QED BY <2>1, <2>2
<1>6. ChatsInv'
  <2>1. BatchLen' = 0 /\ Len(pending') = 0
    BY <1>1 DEF BatchLen
  <2> QED BY <1>1, <2>1 DEF ChatsInv
<1> QED BY <1>1, <1>2, <1>3, <1>4, <1>5, <1>6

LEMMA CrashInv ==
  ASSUME DatabaseInv, Crash
  PROVE  DatabaseInv'
<1>1. Restart /\ crashes' = crashes + 1 /\ threw' = threw
  BY DEF Crash
<1>2. crashes' \in Nat
  BY <1>1 DEF DatabaseInv, TypeOK
<1>3. threw' \in BOOLEAN /\ (threw' => early \/ raced)
  BY <1>1, Zenon DEF DatabaseInv, TypeOK, FlagsOK, ThrowsOnlyIfEarlyOrRaced
<1> QED BY <1>1, <1>2, <1>3, RestartInv

(* The first chat of a batch is accepted: its id is above those in the     *)
(* table, and its channel is stored.                                       *)
LEMMA PersistThrowsInv ==
  ASSUME DatabaseInv, PersistThrows
  PROVE  DatabaseInv'
<1> USE DEF DatabaseInv
<1>1. batch # None /\ batch # <<>> /\ ~ Accepts(Head(batch)) /\ threw' = TRUE /\ Restart
      /\ crashes' = crashes
  BY DEF PersistThrows
<1>2. ASSUME ~ early, ~ raced PROVE FALSE
  <2>1. ChatsInv /\ main = "up"
    BY <1>1, <1>2 DEF TablesInv
  <2>2. /\ batch \in Seq(ChatRow) /\ BatchLen = Len(batch) /\ FirstQueued \in Int
        /\ Len(batch) \in Nat
    BY <1>1, Types
  <2>3. Len(batch) > 0 /\ Head(batch) = batch[1]
    BY <1>1, <2>2
  <2>4. Head(batch).id = FirstQueued /\ Head(batch).name \in Ids(rows, "channels")
    BY <2>1, <2>2, <2>3 DEF ChatsInv
  <2>5. FirstQueued \notin Ids(rows, "messages")
    BY <2>1, <2>2 DEF ChatsInv
  <2> QED BY <1>1, <2>4, <2>5 DEF Accepts
<1>3. crashes' \in Nat
  BY <1>1 DEF TypeOK
<1> QED BY <1>1, <1>2, <1>3, RestartInv

-----------------------------------------------------------------------------

LEMMA NextDatabaseInv == DatabaseInv /\ [Next]_vars => DatabaseInv'
<1> SUFFICES ASSUME DatabaseInv, [Next]_vars PROVE DatabaseInv'
  OBVIOUS
<1>1. CASE Next
  BY <1>1, StartUpInv, CreateInv, LookupInv, HandleConflictInv, ReadRowidInv, WriteInv,
     PersistBeginInv, PersistInsertInv, PersistCommitInv, PersistThrowsInv, CrashInv DEF Next
<1>2. CASE UNCHANGED vars
  <2>1. /\ rows' = rows /\ txn' = txn /\ uncommitted' = uncommitted /\ changes' = changes
        /\ last_rowid' = last_rowid /\ main' = main /\ app' = app /\ next_id' = next_id
        /\ pending' = pending /\ batch' = batch /\ written' = written /\ crashes' = crashes
        /\ answered' = answered /\ joined' = joined /\ raced' = raced /\ early' = early
        /\ threw' = threw /\ cache' = cache
    BY <1>2 DEF vars, dbVars, chatVars, histVars
  <2> QED BY <2>1, CacheStep
<1> QED BY <1>1, <1>2

(* In every reachable state: ids are unique in their table, a creation     *)
(* that is not raced reads the row it inserted, and the chats waiting for  *)
(* the table have the ids after those in it.                               *)
THEOREM DatabaseInvariant == Spec => []DatabaseInv
BY InitDatabaseInv, NextDatabaseInv, PTL DEF Spec

(* Without a race on the connection, what the caches hold and what a       *)
(* client was told is in the tables, and survives any number of crashes    *)
(* unless its INSERT fell into the transaction of Persist.                 *)
THEOREM WhatIsToldIsStored == Spec => []StoredAsTold
<1>1. DatabaseInv => StoredAsTold
  BY DEF DatabaseInv, StoredAsTold
<1> QED BY <1>1, DatabaseInvariant, PTL

(* Once ChatChannelStore is filled, GetChatChannels lists every stored     *)
(* channel: one created before, during and after Prewarm.                  *)
THEOREM ChannelListIsComplete == Spec => []ListIsComplete
<1>1. DatabaseInv => ListIsComplete
  <2> SUFFICES ASSUME DatabaseInv, ~ raced, app = None, main \in {"messages", "up"}
               PROVE  In(rows, "channels") \subseteq GetChannels
    BY DEF ListIsComplete
  <2>1. \A r \in StoredChannels : r \in cache
    BY DEF DatabaseInv, CreationInv, Creating
  <2> QED BY <2>1 DEF StoredChannels, GetChannels, In
<1> QED BY <1>1, DatabaseInvariant, PTL

(* A statement of Persist throws only after a chat was written during the  *)
(* start-up or a creation was raced.                                       *)
THEOREM PersistIsAccepted == Spec => []ThrowsOnlyIfEarlyOrRaced
<1>1. DatabaseInv => ThrowsOnlyIfEarlyOrRaced
  BY DEF DatabaseInv
<1> QED BY <1>1, DatabaseInvariant, PTL

=============================================================================
