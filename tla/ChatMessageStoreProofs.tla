----------------------- MODULE ChatMessageStoreProofs -----------------------
(***************************************************************************)
(* Proofs about ChatMessageStore, for any set of channels, any number of   *)
(* messages, any prewarm count and any limits.                             *)
(***************************************************************************)
EXTENDS ChatMessageStore, FiniteSetTheorems, WellFoundedInduction, NaturalsInduction, TLAPS

(* A bounded set of natural numbers that is not empty has a largest one. *)
LEMMA MaxExists ==
  ASSUME NEW N \in Nat, NEW S, S \subseteq 0 .. (N - 1), S # {}
  PROVE  \E i \in S : \A j \in S : j <= i
<1> DEFINE T == {k \in Nat : \E i \in S : k = N - i}
<1>1. T \subseteq Nat /\ T # {}
  <2>1. PICK i \in S : i \in 0 .. (N - 1)
    OBVIOUS
  <2>2. N - i \in T
    BY <2>1
  <2> QED BY <2>2
<1>2. PICK k \in T : \A x \in T : <<x, k>> \notin OpToRel(<, Nat)
  BY <1>1, WFMin, NatLessThanWellFounded
<1>3. \A x \in T : ~ (x < k)
  BY <1>1, <1>2 DEF OpToRel
<1>4. PICK i \in S : k = N - i
  OBVIOUS
<1>5. ASSUME NEW j \in S PROVE j <= i
  <2>1. N - j \in T
    OBVIOUS
  <2> QED BY <1>3, <1>4, <2>1
<1> QED BY <1>5

(* MAX(id) over the stored rows, as Prewarm reads it. *)
LEMMA MaxIdProperty ==
  ASSUME NEW S, S \subseteq MessageId
  PROVE  /\ MaxId(S) \in MessageId \cup {NoId}
         /\ S # {} => MaxId(S) \in S
         /\ \A i \in S : i <= MaxId(S)
<1>1. CASE S = {}
  BY <1>1 DEF MaxId
<1>2. CASE S # {}
  <2>1. \E i \in S : \A j \in S : j <= i
    BY <1>2, MaxExists, ConstantsAssumption DEF MessageId
  <2> QED BY <1>2, <2>1 DEF MaxId
<1> QED BY <1>1, <1>2

LEMMA MessageIdFacts ==
  /\ \A i \in MessageId \cup {NoId} : i \in Int /\ i + 1 \in 0 .. MaxMessages
  /\ \A i \in MessageId : i \in Nat /\ i < MaxMessages
BY ConstantsAssumption DEF MessageId, NoId

LEMMA MessageFacts ==
  \A m \in Message : /\ m.id \in MessageId /\ m.id \in Nat /\ m.id < MaxMessages
                     /\ m.channel \in Channels
BY MessageIdFacts DEF Message

(* What a query returns are messages, and their ids are message ids. *)
LEMMA QueryType ==
  ASSUME TypeOK, NEW c, NEW B, NEW n
  PROVE  /\ GetChatMessagesBefore(c, B, n) \subseteq Message
         /\ \A m \in GetChatMessagesBefore(c, B, n) : m.id \in MessageId
BY DEF TypeOK, GetChatMessagesBefore, VisibleRows, Message

LEMMA SeqFacts ==
  ASSUME NEW S, NEW s \in Seq(S), s # <<>>
  PROVE  Head(s) \in S /\ Tail(s) \in Seq(S)
OBVIOUS

(* The memory of a process that ended, however it ended, is well typed. *)
LEMMA ProcessEndsType ==
  ASSUME TypeOK, NEW e \in {"crashed", "exited"}, ProcessEnds(e)
  PROVE  TypeOK'
BY ConstantsAssumption DEF TypeOK, ProcessEnds, Nobody, MessageId, NoId, Persisters

(* Every action keeps the types. *)
LEMMA TypeStep == TypeOK /\ [Next]_vars => TypeOK'
<1> SUFFICES ASSUME TypeOK, [Next]_vars PROVE TypeOK'
  OBVIOUS
<1>1. ASSUME NEW c \in Channels, CreateMessage(c) PROVE TypeOK'
  <2>1. [id |-> next_id, channel |-> c] \in Message
    BY <1>1, ConstantsAssumption DEF CreateMessage, Message, MessageId, TypeOK
  <2>2. next_id \in MessageId /\ next_id + 1 \in 0 .. MaxMessages
    BY <1>1, ConstantsAssumption DEF CreateMessage, MessageId, TypeOK
  <2> QED BY <1>1, <2>1, <2>2 DEF CreateMessage, TypeOK, CacheInsert, dbVars, persistVars, appVars
<1>2. ASSUME NEW c \in Channels, NEW n \in Limits, HandleGetChats(c, n) PROVE TypeOK'
  <2>1. LatestIds(channel_message_ids[c], n) \subseteq MessageId
    BY DEF LatestIds, TypeOK
  <2>2. [channel |-> c, limit |-> n] \in [channel : Channels, limit : Nat]
    BY ConstantsAssumption
  <2> DEFINE result == GetChatMessagesBefore(c, LatestIds(channel_message_ids[c], n),
                         n - Cardinality(LatestIds(channel_message_ids[c], n)))
  <2>3. result \subseteq Message /\ {m.id : m \in result} \subseteq MessageId
    BY QueryType
  <2> HIDE DEF result
  <2>4. /\ request' = [channel |-> c, limit |-> n]
        /\ taken' = LatestIds(channel_message_ids[c], n)
        /\ queried' = {m.id : m \in result} \/ queried' = {}
        /\ rows' = result \/ rows' = {}
        /\ app_pc' \in {"idle", "assign", "reply"}
        /\ cache_complete' \in [Channels -> BOOLEAN]
        /\ UNCHANGED <<dbVars, lockedVars, persistVars, message_cache,
                   channel_message_ids, phase, next_id, sent, first_id>>
    BY <1>2 DEF HandleGetChats, TypeOK, result
  <2> QED BY <2>1, <2>2, <2>3, <2>4 DEF TypeOK, dbVars, lockedVars, persistVars
<1>3. CASE AssignMessage
  BY <1>3 DEF AssignMessage, TypeOK, CacheInsert, dbVars, persistVars
<1>4. CASE AssignMessageIds
  BY <1>4 DEF AssignMessageIds, TypeOK, dbVars, lockedVars, persistVars
<1>5. CASE SendReply
  BY <1>5 DEF SendReply, TypeOK, dbVars, lockedVars, persistVars, logVars
<1>6. CASE SchedulerDue
  BY <1>6 DEF SchedulerDue, TypeOK, dbVars, lockedVars, appVars, logVars, Persisters
<1>7. ASSUME NEW t \in Persisters, PersistNext(t) PROVE TypeOK'
  <2>1. CASE PersistSwap(t)
    <3>1. AfterPersist(t) \in {"idle", "done"}
      BY DEF AfterPersist
    <3>2. CASE pending_messages = <<>>
      BY <2>1, <3>1, <3>2 DEF PersistSwap, SwapOut, NothingToPersist, TypeOK, dbVars, lockedVars, appVars, logVars
    <3>3. CASE pending_messages # <<>>
      <4>1. /\ persist_pc' = [persist_pc EXCEPT ![t] = "swapped"]
            /\ batch' = [batch EXCEPT ![t] = pending_messages]
            /\ pending_messages' = <<>>
            /\ UNCHANGED <<dbVars, latest_persisted_id, last_id, appVars, logVars,
                           phase, next_id, sent, first_id>>
        BY <2>1, <3>3 DEF PersistSwap, SwapOut, NothingToPersist
      <4>2. batch' \in [Persisters -> Seq(Message)] /\ pending_messages' \in Seq(Message)
        BY <4>1 DEF TypeOK
      <4>3. persist_pc' \in [Persisters -> {"idle", "due", "swapped", "inserting", "committed", "done"}]
        BY <4>1 DEF TypeOK
      <4> QED BY <4>1, <4>2, <4>3 DEF TypeOK, dbVars, appVars, logVars
    <3> QED BY <3>2, <3>3
  <2>2. CASE PersistBegin(t)
    <3>1. CASE ProcessEnds("crashed")
      BY <3>1, ProcessEndsType
    <3>2. CASE txn_owner = Nobody
      BY <2>2, <3>2 DEF PersistBegin, TypeOK, lockedVars, appVars, logVars
    <3> QED BY <2>2, <3>1, <3>2 DEF PersistBegin
  <2>3. CASE PersistInsert(t)
    <3>1. CASE ProcessEnds("crashed")
      BY <3>1, ProcessEndsType
    <3>2. CASE ~ ProcessEnds("crashed")
      <4>1. Head(batch[t]) \in Message /\ Tail(batch[t]) \in Seq(Message)
        BY <2>3, SeqFacts DEF PersistInsert, TypeOK
      <4>2. Head(batch[t]).id \in MessageId
        BY <4>1 DEF Message
      <4>3. /\ txn' = txn \cup {Head(batch[t])}
            /\ batch' = [batch EXCEPT ![t] = Tail(@)]
            /\ last_id' = [last_id EXCEPT ![t] = Head(batch[t]).id]
            /\ UNCHANGED <<db, txn_owner, persist_pc, latest_persisted_id, pending_messages,
                           appVars, logVars, phase, next_id, sent, first_id>>
        BY <2>3, <3>2 DEF PersistInsert, lockedVars
      <4>4. txn' \subseteq Message /\ batch' \in [Persisters -> Seq(Message)]
        BY <4>1, <4>3 DEF TypeOK
      <4>5. last_id' \in [Persisters -> MessageId \cup {NoId}]
        BY <4>2, <4>3 DEF TypeOK
      <4> QED BY <4>3, <4>4, <4>5 DEF TypeOK, appVars, logVars
    <3> QED BY <3>1, <3>2
  <2>4. CASE PersistCommit(t)
    BY <2>4 DEF PersistCommit, TypeOK, lockedVars, appVars, logVars
  <2>5. CASE PersistEnd(t)
    BY <2>5 DEF PersistEnd, AfterPersist, TypeOK, dbVars, appVars, logVars
  <2> QED BY <1>7, <2>1, <2>2, <2>3, <2>4, <2>5 DEF PersistNext
<1>8. CASE Prewarm
  <2>1. {m.id : m \in VisibleRows} \subseteq MessageId
    BY DEF TypeOK, VisibleRows, Message
  <2>2. MaxId({m.id : m \in VisibleRows}) \in MessageId \cup {NoId}
    BY <2>1, MaxIdProperty
  <2>3. latest_persisted_id' \in MessageId \cup {NoId} /\ next_id' \in 0 .. MaxMessages
    BY <1>8, <2>2, MessageIdFacts DEF Prewarm
  <2>4. \A c \in Channels : LatestIds(ChannelIds(VisibleRows, c), PrewarmMessageCount) \subseteq MessageId
    BY DEF TypeOK, LatestIds, ChannelIds, VisibleRows, Message
  <2>5. UNION {GetChatMessagesBefore(c, {}, PrewarmMessageCount) : c \in Channels} \subseteq Message
    BY QueryType
  <2>6. message_cache' \subseteq Message
    BY <1>8, <2>5 DEF Prewarm, TypeOK
  <2>7. channel_message_ids' \in [Channels -> SUBSET MessageId]
    BY <1>8, <2>4 DEF Prewarm, TypeOK
  <2>8. phase' = "up" /\ first_id' = next_id'
        /\ UNCHANGED <<dbVars, pending_messages, persistVars, appVars, cache_complete, sent>>
    BY <1>8 DEF Prewarm
  <2> QED BY <2>3, <2>6, <2>7, <2>8 DEF TypeOK, dbVars, persistVars, appVars
<1>9. CASE BeginShutdown
  BY <1>9 DEF BeginShutdown, TypeOK, dbVars, lockedVars, appVars, logVars, Persisters
<1>10. CASE StopApplication
  BY <1>10 DEF StopApplication, TypeOK, dbVars, lockedVars, persistVars, appVars, logVars
<1>11. CASE Exit
  BY <1>11, ProcessEndsType DEF Exit
<1>12. CASE Crash
  BY <1>12, ProcessEndsType DEF Crash
<1>13. CASE Restart
  BY <1>13 DEF Restart, TypeOK, dbVars, lockedVars, persistVars, appVars, logVars
<1>14. CASE UNCHANGED vars
  BY <1>14 DEF vars, TypeOK, dbVars, lockedVars, persistVars, appVars, logVars
<1> QED BY <1>1, <1>2, <1>3, <1>4, <1>5, <1>6, <1>7, <1>8, <1>9, <1>10, <1>11, <1>12, <1>13, <1>14
        DEF Next, AppNext, LifeNext

(* Every variable keeps its type: ids stay within the bound, the log of a  *)
(* channel holds ids of messages, and the queue and the batches of Persist *)
(* hold messages.                                                          *)
THEOREM TypeCorrect == Spec => []TypeOK
<1>1. Init => TypeOK
  BY ConstantsAssumption DEF Init, FreshStore, TypeOK, Nobody, MessageId, NoId, Persisters
<1> QED BY <1>1, TypeStep, PTL DEF Spec

-----------------------------------------------------------------------------
(* The queue and the batches as sets of messages.                          *)

LEMMA EmptySeqSet == SeqToSet(<<>>) = {} /\ Ascending(<<>>)
BY DEF SeqToSet, Ascending

LEMMA AppendSet ==
  ASSUME NEW S, NEW s \in Seq(S), NEW m \in S
  PROVE  SeqToSet(Append(s, m)) = SeqToSet(s) \cup {m}
<1>1. Len(s) \in Nat /\ DOMAIN s = 1 .. Len(s) /\ DOMAIN Append(s, m) = 1 .. (Len(s) + 1)
  OBVIOUS
<1>2. \A i \in 1 .. Len(s) : Append(s, m)[i] = s[i]
  OBVIOUS
<1>3. Append(s, m)[Len(s) + 1] = m
  OBVIOUS
<1>4. ASSUME NEW x \in SeqToSet(Append(s, m)) PROVE x \in SeqToSet(s) \cup {m}
  <2>1. PICK i \in 1 .. (Len(s) + 1) : x = Append(s, m)[i]
    BY <1>1 DEF SeqToSet
  <2>2. i \in 1 .. Len(s) \/ i = Len(s) + 1
    BY <1>1
  <2> QED BY <1>1, <1>2, <1>3, <2>1, <2>2 DEF SeqToSet
<1>5. ASSUME NEW x \in SeqToSet(s) \cup {m} PROVE x \in SeqToSet(Append(s, m))
  <2>1. CASE x = m
    <3>1. Len(s) + 1 \in 1 .. (Len(s) + 1)
      BY <1>1
    <3> QED BY <1>1, <1>3, <2>1, <3>1 DEF SeqToSet
  <2>2. CASE x \in SeqToSet(s)
    <3>1. PICK i \in 1 .. Len(s) : x = s[i]
      BY <1>1, <2>2 DEF SeqToSet
    <3>2. i \in 1 .. (Len(s) + 1)
      BY <1>1
    <3> QED BY <1>1, <1>2, <3>1, <3>2 DEF SeqToSet
  <2> QED BY <2>1, <2>2
<1> QED BY <1>4, <1>5

LEMMA HeadTailSet ==
  ASSUME NEW S, NEW s \in Seq(S), s # <<>>
  PROVE  SeqToSet(s) = {Head(s)} \cup SeqToSet(Tail(s))
<1>1. Len(s) \in Nat /\ Len(s) > 0 /\ DOMAIN s = 1 .. Len(s)
  OBVIOUS
<1>2. DOMAIN Tail(s) = 1 .. (Len(s) - 1) /\ \A i \in 1 .. (Len(s) - 1) : Tail(s)[i] = s[i + 1]
  BY <1>1
<1>3. Head(s) = s[1]
  BY <1>1
<1>4. ASSUME NEW x \in SeqToSet(s) PROVE x \in {Head(s)} \cup SeqToSet(Tail(s))
  <2>1. PICK i \in 1 .. Len(s) : x = s[i]
    BY <1>1 DEF SeqToSet
  <2>2. CASE i = 1
    BY <1>3, <2>1, <2>2
  <2>3. CASE i # 1
    <3>1. i - 1 \in 1 .. (Len(s) - 1) /\ Tail(s)[i - 1] = s[i]
      BY <1>1, <1>2, <2>3
    <3> QED BY <1>2, <2>1, <3>1 DEF SeqToSet
  <2> QED BY <2>2, <2>3
<1>5. ASSUME NEW x \in {Head(s)} \cup SeqToSet(Tail(s)) PROVE x \in SeqToSet(s)
  <2>1. CASE x = Head(s)
    BY <1>1, <1>3, <2>1 DEF SeqToSet
  <2>2. CASE x \in SeqToSet(Tail(s))
    <3>1. PICK i \in 1 .. (Len(s) - 1) : x = s[i + 1]
      BY <1>2, <2>2 DEF SeqToSet
    <3>2. i + 1 \in 1 .. Len(s)
      BY <1>1
    <3> QED BY <1>1, <3>1, <3>2 DEF SeqToSet
  <2> QED BY <2>1, <2>2
<1> QED BY <1>4, <1>5

LEMMA AscendingAppend ==
  ASSUME NEW s \in Seq(Message), Ascending(s), NEW m \in Message,
         \A x \in SeqToSet(s) : x.id < m.id
  PROVE  Ascending(Append(s, m))
<1>1. Len(s) \in Nat /\ Len(Append(s, m)) = Len(s) + 1
  OBVIOUS
<1>2. \A i \in 1 .. Len(s) : Append(s, m)[i] = s[i] /\ s[i] \in SeqToSet(s)
  BY DEF SeqToSet
<1>3. Append(s, m)[Len(s) + 1] = m
  OBVIOUS
<1> SUFFICES ASSUME NEW i \in 1 .. (Len(s) + 1), NEW j \in 1 .. (Len(s) + 1), i < j
             PROVE  Append(s, m)[i].id < Append(s, m)[j].id
  BY <1>1 DEF Ascending
<1>4. i \in 1 .. Len(s)
  BY <1>1
<1>5. CASE j = Len(s) + 1
  BY <1>2, <1>3, <1>4, <1>5
<1>6. CASE j # Len(s) + 1
  <2>1. j \in 1 .. Len(s)
    BY <1>1, <1>6
  <2> QED BY <1>2, <1>4, <2>1 DEF Ascending
<1> QED BY <1>5, <1>6

LEMMA AscendingTail ==
  ASSUME NEW s \in Seq(Message), Ascending(s), s # <<>>
  PROVE  Ascending(Tail(s)) /\ \A x \in SeqToSet(Tail(s)) : x.id # Head(s).id
<1>1. Len(s) \in Nat /\ Len(s) > 0 /\ Len(Tail(s)) = Len(s) - 1 /\ Head(s) = s[1]
  OBVIOUS
<1>2. DOMAIN Tail(s) = 1 .. (Len(s) - 1) /\ \A i \in 1 .. (Len(s) - 1) : Tail(s)[i] = s[i + 1]
  BY <1>1
<1>3. Ascending(Tail(s))
  <2> SUFFICES ASSUME NEW i \in 1 .. (Len(s) - 1), NEW j \in 1 .. (Len(s) - 1), i < j
               PROVE  Tail(s)[i].id < Tail(s)[j].id
    BY <1>1 DEF Ascending
  <2>1. i + 1 \in 1 .. Len(s) /\ j + 1 \in 1 .. Len(s) /\ i + 1 < j + 1
    BY <1>1
  <2>2. s[i + 1].id < s[j + 1].id
    BY <2>1 DEF Ascending
  <2> QED BY <1>2, <2>2
<1>4. \A i \in 1 .. Len(s) : s[i].id \in Nat
  <2>1. \A i \in 1 .. Len(s) : s[i] \in Message
    OBVIOUS
  <2> QED BY <2>1, MessageFacts
<1>5. ASSUME NEW x \in SeqToSet(Tail(s)) PROVE x.id # Head(s).id
  <2>1. PICK i \in 1 .. (Len(s) - 1) : x = s[i + 1]
    BY <1>2 DEF SeqToSet
  <2>2. i + 1 \in 1 .. Len(s) /\ 1 \in 1 .. Len(s) /\ 1 < i + 1
    BY <1>1
  <2>3. s[1].id < s[i + 1].id
    BY <2>2 DEF Ascending
  <2> QED BY <1>1, <1>4, <2>1, <2>2, <2>3
<1> QED BY <1>3, <1>5

LEMMA QueuedParts ==
  Queued = SeqToSet(pending_messages) \cup SeqToSet(batch["scheduler"]) \cup SeqToSet(batch["main"])
BY DEF Queued, Persisters

LEMMA SeqSetType ==
  ASSUME NEW s \in Seq(Message)
  PROVE  SeqToSet(s) \subseteq Message
BY DEF SeqToSet

-----------------------------------------------------------------------------
(* StoreInv is inductive.                                                  *)

LEMMA InitStoreInv == Init => StoreInv
<1> SUFFICES ASSUME Init PROVE StoreInv
  OBVIOUS
<1>1. TypeOK
  BY ConstantsAssumption DEF Init, FreshStore, TypeOK, Nobody, MessageId, NoId, Persisters
<1>2. NotRunningInv
  BY DEF Init, FreshStore, NotRunningInv, Persisters
<1>3. PersistInv
  BY DEF Init, FreshStore, PersistInv, Persisters, Nobody
<1>4. IdInv
  BY EmptySeqSet DEF Init, FreshStore, IdInv, Persisters, Apart, VisibleRows
<1>5. ~ Running
  BY DEF Init, Running
<1> QED BY <1>1, <1>2, <1>3, <1>4, <1>5 DEF StoreInv, RecentInv, NothingForgottenInv

(* However the process ends, what is left is the committed rows. *)
LEMMA ProcessEndsInv ==
  ASSUME StoreInv, NEW e \in {"crashed", "exited"}, ProcessEnds(e)
  PROVE  StoreInv'
<1>1. TypeOK'
  BY ProcessEndsType DEF StoreInv
<1>2. ~ Running' /\ phase' # "starting"
  BY DEF ProcessEnds, Running
<1>3. NotRunningInv'
  BY <1>2 DEF ProcessEnds, NotRunningInv
<1>4. PersistInv'
  BY DEF ProcessEnds, PersistInv, Persisters, Nobody
<1>5. db' = db /\ txn' = {} /\ (sent' = sent \/ sent' = db)
  BY DEF ProcessEnds
<1>6. /\ db' \subseteq sent' /\ txn' \subseteq sent'
      /\ \A m, n \in sent' : m.id = n.id => m = n
  BY <1>5 DEF StoreInv, IdInv
<1>7. pending_messages' = <<>> /\ \A t \in Persisters : batch'[t] = <<>>
  BY DEF ProcessEnds
<1>8. IdInv'
  BY <1>2, <1>6, <1>7, EmptySeqSet DEF IdInv, Apart, VisibleRows, Persisters
<1> QED BY <1>1, <1>2, <1>3, <1>4, <1>8 DEF StoreInv, RecentInv, NothingForgottenInv

(* The parts of StoreInv do not mention what HandleGetChats collects,      *)
(* except its rows and queried ids.                                        *)
LEMMA LatestAll ==
  ASSUME NEW S, IsFiniteSet(S), NEW n \in Nat, Cardinality(S) < n
  PROVE  LatestIds(S, n) = S
<1> SUFFICES ASSUME NEW i \in S PROVE Cardinality({j \in S : j > i}) < n
  BY DEF LatestIds
<1>1. /\ IsFiniteSet({j \in S : j > i})
      /\ Cardinality({j \in S : j > i}) <= Cardinality(S)
  BY FS_Subset
<1>2. Cardinality(S) \in Nat /\ Cardinality({j \in S : j > i}) \in Nat
  BY <1>1, FS_CardinalityType
<1> QED BY <1>1, <1>2

LEMMA FiniteIds ==
  ASSUME NEW S, S \subseteq MessageId
  PROVE  IsFiniteSet(S) /\ Cardinality(S) \in Nat
<1>1. IsFiniteSet(MessageId)
  BY FS_Interval, ConstantsAssumption DEF MessageId
<1>2. IsFiniteSet(S)
  BY <1>1, FS_Subset
<1> QED BY <1>2, FS_CardinalityType

(* CreateMessage: the new id is above every id in use and above            *)
(* latest_persisted_id, so the message is queued, logged and in no other   *)
(* place.                                                                  *)
LEMMA CreateInv ==
  ASSUME StoreInv, TypeOK', NEW c \in Channels, CreateMessage(c)
  PROVE  StoreInv'
<1> DEFINE m == [id |-> next_id, channel |-> c]
<1>1. Running /\ Running' /\ phase' = phase
  BY DEF CreateMessage, Serving, Running
<1>2. m \in Message /\ m.id = next_id /\ m.channel = c /\ next_id \in Nat
  BY ConstantsAssumption DEF CreateMessage, Message, MessageId, StoreInv, TypeOK
<1>3. /\ pending_messages \in Seq(Message) /\ sent \subseteq Message
      /\ \A x \in sent : x.id \in Nat /\ x.id < next_id
      /\ latest_persisted_id \in Int /\ latest_persisted_id < next_id
  BY <1>1, MessageFacts, MessageIdFacts DEF StoreInv, TypeOK, IdInv, RecentInv
<1>4. pending_messages' = Append(pending_messages, m)
  BY <1>2, <1>3 DEF CreateMessage
<1>5. SeqToSet(pending_messages') = SeqToSet(pending_messages) \cup {m}
  BY <1>2, <1>3, <1>4, AppendSet
<1>6. channel_message_ids' = [channel_message_ids EXCEPT ![c] = @ \cup {next_id}]
  BY <1>1 DEF CreateMessage, StoreInv, RecentInv
<1>7. /\ next_id' = next_id + 1
      /\ sent' = sent \cup {m}
      /\ UNCHANGED <<db, txn, txn_owner, persist_pc, batch, last_id, queried, rows,
                     latest_persisted_id, first_id>>
  BY DEF CreateMessage, dbVars, persistVars, appVars
<1> HIDE DEF m
<1>8. Queued' = Queued \cup {m} /\ VisibleRows' = VisibleRows /\ sent = VisibleRows \cup Queued
  BY <1>1, <1>5, <1>7, QueuedParts DEF Queued, VisibleRows, StoreInv, NothingForgottenInv
<1>9. NotRunningInv'
  BY <1>1 DEF NotRunningInv
<1>10. PersistInv'
  BY <1>1, <1>7 DEF StoreInv, PersistInv
<1>11. IdInv'
  <2>1. db' \subseteq sent' /\ txn' \subseteq sent'
    BY <1>7 DEF StoreInv, IdInv
  <2>2. \A x, y \in sent' : x.id = y.id => x = y
    BY <1>2, <1>3, <1>7 DEF StoreInv, IdInv
  <2>3. \A x \in sent' : x.id < next_id'
    BY <1>2, <1>3, <1>7
  <2>4. SeqToSet(pending_messages) \subseteq sent
    BY <1>8, QueuedParts
  <2>5. Ascending(pending_messages')
    BY <1>2, <1>3, <1>4, <2>4, AscendingAppend DEF StoreInv, IdInv
  <2>6. \A x \in VisibleRows : x.id # m.id
    BY <1>2, <1>3, <1>8
  <2>7. \A t \in Persisters : \A x \in SeqToSet(batch[t]) : x.id # m.id
    BY <1>2, <1>3, <1>8, QueuedParts DEF Persisters
  <2> QED BY <1>5, <1>7, <1>8, <2>1, <2>2, <2>3, <2>5, <2>6, <2>7 DEF StoreInv, IdInv, Apart
<1>12. RecentInv'
  <2>1. /\ first_id \in Int /\ queried \subseteq Int
        /\ \A t \in Persisters : last_id[t] \in Int
        /\ \A x \in Queued : x.id >= first_id
    <3>1. first_id \in Int /\ queried \subseteq Int
      BY MessageIdFacts DEF StoreInv, TypeOK
    <3>2. \A t \in Persisters : last_id[t] \in Int
      BY MessageIdFacts DEF StoreInv, TypeOK
    <3>3. \A x \in Queued : x.id >= first_id
      BY <1>1 DEF StoreInv, RecentInv
    <3> QED BY <3>1, <3>2, <3>3
  <2>2. first_id' <= next_id' /\ latest_persisted_id' >= first_id' - 1 /\ latest_persisted_id' < next_id'
    BY <1>1, <1>2, <1>3, <1>7, <2>1 DEF StoreInv, RecentInv
  <2>3. \A t \in Persisters : last_id'[t] < next_id'
    BY <1>1, <1>2, <1>7, <2>1 DEF StoreInv, RecentInv
  <2>4. \A d \in Channels : \A i \in channel_message_ids'[d] : i < next_id'
    <3>1. \A d \in Channels : \A i \in channel_message_ids[d] : i \in Int /\ i < next_id
      BY <1>1, MessageIdFacts DEF StoreInv, RecentInv, TypeOK
    <3> QED BY <1>2, <1>6, <1>7, <3>1 DEF StoreInv, TypeOK
  <2>5. \A i \in queried' : i < next_id'
    BY <1>1, <1>2, <1>7, <2>1 DEF StoreInv, RecentInv
  <2>6. \A x \in Queued' : x.id >= first_id'
    <3>1. next_id >= first_id
      BY <1>1 DEF StoreInv, RecentInv, TypeOK
    <3> QED BY <1>2, <1>7, <1>8, <2>1, <3>1
  <2>7. \A x \in sent' : x.id >= first_id' => x.id \in channel_message_ids'[x.channel]
    <3>1. channel_message_ids'[c] = channel_message_ids[c] \cup {next_id}
          /\ \A d \in Channels : channel_message_ids[d] \subseteq channel_message_ids'[d]
      BY <1>6 DEF StoreInv, TypeOK
    <3> QED BY <1>1, <1>2, <1>3, <1>7, <3>1, MessageFacts DEF StoreInv, RecentInv
  <2>8. (\A x \in rows' : x.id < first_id') /\ rows' \subseteq sent'
    BY <1>1, <1>7 DEF StoreInv, RecentInv
  <2> QED BY <2>2, <2>3, <2>4, <2>5, <2>6, <2>7, <2>8 DEF RecentInv
<1>13. NothingForgottenInv'
  BY <1>7, <1>8 DEF NothingForgottenInv
<1> QED BY <1>9, <1>10, <1>11, <1>12, <1>13 DEF StoreInv

(* HandleGetChats asks the database below the oldest id it took.  It only  *)
(* asks when it took the whole log, and every message created since        *)
(* Prewarm is in the log, so the rows are older than that.                 *)
LEMMA GetChatsInv ==
  ASSUME StoreInv, TypeOK', NEW c \in Channels, NEW n \in Limits, HandleGetChats(c, n)
  PROVE  StoreInv'
<1> DEFINE log == channel_message_ids[c]
           cached == LatestIds(log, n)
           result == GetChatMessagesBefore(c, cached, n - Cardinality(cached))
<1>1. Running /\ Running'
  BY DEF HandleGetChats, Serving, Running
<1>2. UNCHANGED <<db, txn, txn_owner, latest_persisted_id, pending_messages, persist_pc,
                  batch, last_id, channel_message_ids, phase, next_id, sent, first_id>>
  BY DEF HandleGetChats, dbVars, lockedVars, persistVars
<1>3. /\ result \subseteq VisibleRows
      /\ \A m \in result : m.channel = c /\ \A j \in cached : m.id < j
  BY DEF GetChatMessagesBefore, ChannelIds, LatestIds
<1>4. VisibleRows \subseteq sent
  BY DEF StoreInv, IdInv, VisibleRows
<1>5. ASSUME rows' # {} \/ queried' # {}
      PROVE  /\ rows' = result /\ queried' = {m.id : m \in result}
             /\ cached = log
  <2>1. /\ rows' = result /\ queried' = {m.id : m \in result}
        /\ log = {} \/ Cardinality(log) < n
    BY <1>5 DEF HandleGetChats
  <2>2. n \in Nat /\ IsFiniteSet(log)
    BY FiniteIds, ConstantsAssumption DEF StoreInv, TypeOK
  <2>3. cached = log
    BY <2>1, <2>2, LatestAll DEF LatestIds
  <2> QED BY <2>1, <2>3
<1> HIDE DEF log, cached, result
<1>6. /\ rows' \subseteq sent
      /\ \A m \in rows' : m.id < first_id
      /\ \A i \in queried' : i < next_id
  <2>1. CASE rows' = {} /\ queried' = {}
    BY <2>1
  <2>2. CASE rows' # {} \/ queried' # {}
    <3>1. rows' = result /\ queried' = {m.id : m \in result} /\ cached = log
      BY <1>5, <2>2
    <3>2. ASSUME NEW m \in result PROVE m.id < first_id /\ m.id < next_id
      <4>1. m \in sent /\ m.id \in Nat /\ m.channel = c
        BY <1>3, <1>4, MessageFacts DEF StoreInv, TypeOK
      <4>2. m.id < next_id
        BY <1>1, <4>1 DEF StoreInv, IdInv
      <4>3. m.id \notin log
        BY <1>3, <3>1, <4>1
      <4>4. ~ (m.id >= first_id)
        BY <1>1, <4>1, <4>3 DEF StoreInv, RecentInv, log
      <4>5. first_id \in Nat
        BY ConstantsAssumption DEF StoreInv, TypeOK
      <4> QED BY <4>1, <4>2, <4>4, <4>5
    <3> QED BY <1>3, <1>4, <3>1, <3>2
  <2> QED BY <2>1, <2>2
<1>7. NotRunningInv' /\ PersistInv' /\ IdInv' /\ NothingForgottenInv'
  BY <1>1, <1>2 DEF StoreInv, NotRunningInv, PersistInv, IdInv, NothingForgottenInv,
                    Queued, VisibleRows, Apart, Running
<1>8. Queued' = Queued
  BY <1>2 DEF Queued
<1>9. RecentInv'
  BY <1>1, <1>2, <1>6, <1>8 DEF StoreInv, RecentInv
<1> QED BY <1>7, <1>9 DEF StoreInv

(* AssignMessage on a row of a query: the row is at or below               *)
(* latest_persisted_id, so it is not queued a second time.                 *)
LEMMA AssignMessageInv ==
  ASSUME StoreInv, TypeOK', AssignMessage
  PROVE  StoreInv'
<1>1. Running /\ Running'
  BY DEF AssignMessage, StoreInv, NotRunningInv, Running
<1>2. PICK m \in rows : /\ pending_messages' = IF m.id <= latest_persisted_id
                             THEN pending_messages ELSE Append(pending_messages, m)
                        /\ rows' = rows \ {m}
  BY DEF AssignMessage
<1>3. m.id \in Nat /\ m.id < first_id /\ latest_persisted_id >= first_id - 1
  BY <1>1, MessageFacts DEF StoreInv, TypeOK, RecentInv
<1>4. m.id <= latest_persisted_id
  <2>1. latest_persisted_id \in Int /\ first_id \in Int
    BY MessageIdFacts DEF StoreInv, TypeOK
  <2> QED BY <1>3, <2>1
<1>5. pending_messages' = pending_messages
  BY <1>2, <1>4
<1>6. UNCHANGED <<db, txn, txn_owner, persist_pc, batch, last_id, queried, phase, channel_message_ids,
                  latest_persisted_id, next_id, sent, first_id>>
  BY DEF AssignMessage, dbVars, persistVars
<1>7. NotRunningInv' /\ PersistInv' /\ IdInv' /\ NothingForgottenInv'
  BY <1>1, <1>5, <1>6 DEF StoreInv, NotRunningInv, PersistInv, IdInv, NothingForgottenInv,
                    Queued, VisibleRows, Apart, Running
<1>8. Queued' = Queued
  BY <1>5, <1>6 DEF Queued
<1>9. RecentInv'
  BY <1>1, <1>2, <1>6, <1>8 DEF StoreInv, RecentInv
<1> QED BY <1>7, <1>9 DEF StoreInv

(* The end of CacheMessages and the reply change the log and the request.  *)
LEMMA ReplyStepInv ==
  ASSUME StoreInv, TypeOK', AssignMessageIds \/ SendReply
  PROVE  StoreInv'
<1>1. Running /\ Running'
  BY DEF AssignMessageIds, SendReply, StoreInv, NotRunningInv, Running
<1>2. UNCHANGED <<db, txn, txn_owner, persist_pc, batch, last_id, pending_messages, phase,
                  latest_persisted_id, next_id, sent, first_id, rows>>
  BY DEF AssignMessageIds, SendReply, dbVars, lockedVars, persistVars
<1>3. /\ queried' \subseteq queried
      /\ \A c \in Channels : /\ channel_message_ids[c] \subseteq channel_message_ids'[c]
                             /\ channel_message_ids'[c] \subseteq channel_message_ids[c] \cup queried
  <2>1. CASE AssignMessageIds
    BY <2>1 DEF AssignMessageIds, StoreInv, TypeOK
  <2>2. CASE SendReply
    BY <2>2 DEF SendReply, logVars
  <2> QED BY <2>1, <2>2
<1>4. NotRunningInv' /\ PersistInv' /\ IdInv' /\ NothingForgottenInv'
  BY <1>1, <1>2 DEF StoreInv, NotRunningInv, PersistInv, IdInv, NothingForgottenInv,
                    Queued, VisibleRows, Apart, Running
<1>5. Queued' = Queued
  BY <1>2 DEF Queued
<1>6. \A x \in sent : x.channel \in Channels
  BY MessageFacts DEF StoreInv, TypeOK
<1>7. RecentInv'
  BY <1>1, <1>2, <1>3, <1>5, <1>6 DEF StoreInv, RecentInv
<1> QED BY <1>4, <1>7 DEF StoreInv

-----------------------------------------------------------------------------
(* The steps of Persist and of the threads around it.                      *)

(* Persist runs only while the process is running. *)
LEMMA PersistRunning ==
  ASSUME StoreInv, NEW t \in Persisters, persist_pc[t] # "idle"
  PROVE  Running
BY DEF StoreInv, NotRunningInv

(* A step that moves program counters and the phase and nothing else. *)
LEMMA ControlStepInv ==
  ASSUME StoreInv, TypeOK', SchedulerDue \/ BeginShutdown \/ StopApplication
  PROVE  StoreInv'
<1>1. Running /\ Running'
  BY DEF SchedulerDue, BeginShutdown, StopApplication, Running
<1>2. UNCHANGED <<db, txn, txn_owner, batch, last_id, pending_messages, latest_persisted_id,
                  next_id, sent, first_id, rows, queried, channel_message_ids>>
  BY DEF SchedulerDue, BeginShutdown, StopApplication, dbVars, lockedVars, persistVars, appVars, logVars
<1>3. /\ \A t \in Persisters :
           \/ persist_pc'[t] = persist_pc[t]
           \/ (persist_pc[t] = "idle" /\ persist_pc'[t] = "due")
      /\ phase' = "up" => persist_pc'["main"] = persist_pc["main"] /\ phase = "up"
  <2>1. CASE SchedulerDue
    BY <2>1 DEF SchedulerDue, StoreInv, TypeOK, Persisters
  <2>2. CASE BeginShutdown
    BY <2>2 DEF BeginShutdown, StoreInv, TypeOK, PersistInv, Persisters
  <2>3. CASE StopApplication
    BY <2>3 DEF StopApplication, persistVars
  <2> QED BY <2>1, <2>2, <2>3
<1>4. PersistInv'
  BY <1>2, <1>3 DEF StoreInv, PersistInv
<1>5. NotRunningInv' /\ IdInv' /\ NothingForgottenInv' /\ Queued' = Queued
  BY <1>1, <1>2 DEF StoreInv, NotRunningInv, IdInv, NothingForgottenInv,
                    Queued, VisibleRows, Apart, Running
<1>6. RecentInv'
  BY <1>1, <1>2, <1>5 DEF StoreInv, RecentInv
<1> QED BY <1>4, <1>5, <1>6 DEF StoreInv

(* The swap moves the queue into the batch; nothing is in between. *)
LEMMA PersistSwapInv ==
  ASSUME StoreInv, TypeOK', NEW t \in Persisters, PersistSwap(t)
  PROVE  StoreInv'
<1>1. Running /\ Running' /\ phase' = phase
  BY PersistRunning DEF PersistSwap, SwapOut, NothingToPersist, Running
<1>2. UNCHANGED <<db, txn, txn_owner, last_id, latest_persisted_id, next_id, sent, first_id,
                  rows, queried, channel_message_ids>>
  BY DEF PersistSwap, SwapOut, NothingToPersist, dbVars, lockedVars, appVars, logVars
<1>3. batch[t] = <<>> /\ persist_pc[t] = "due" /\ txn_owner # t
  BY DEF PersistSwap, SwapOut, NothingToPersist, StoreInv, PersistInv
<1>4. /\ batch'[t] = pending_messages /\ pending_messages' = <<>>
      /\ \A u \in Persisters \ {t} : batch'[u] = batch[u] /\ persist_pc'[u] = persist_pc[u]
      /\ persist_pc'[t] \in {"swapped", "idle", "done"}
      /\ persist_pc'[t] = "swapped" <=> pending_messages # <<>>
  BY <1>3 DEF PersistSwap, SwapOut, NothingToPersist, AfterPersist, StoreInv, TypeOK, lockedVars
<1>5. phase = "up" => t # "main"
  BY <1>3 DEF StoreInv, PersistInv
<1>6. PersistInv'
  BY <1>1, <1>2, <1>3, <1>4, <1>5 DEF StoreInv, PersistInv, Persisters
<1>7. Queued' = Queued
  BY <1>3, <1>4, QueuedParts, EmptySeqSet DEF Queued, Persisters
<1>8. IdInv'
  BY <1>1, <1>2, <1>3, <1>4, EmptySeqSet DEF StoreInv, IdInv, VisibleRows, Apart, Running, Persisters
<1>9. NotRunningInv' /\ NothingForgottenInv' /\ RecentInv'
  BY <1>1, <1>2, <1>7 DEF StoreInv, NotRunningInv, NothingForgottenInv, RecentInv, VisibleRows
<1> QED BY <1>6, <1>8, <1>9 DEF StoreInv

(* BEGIN, when no other transaction is open. *)
LEMMA PersistBeginInv ==
  ASSUME StoreInv, TypeOK', NEW t \in Persisters, PersistBegin(t)
  PROVE  StoreInv'
<1>1. CASE ProcessEnds("crashed")
  BY <1>1, ProcessEndsInv
<1>2. CASE ~ ProcessEnds("crashed")
  <2>1. /\ persist_pc[t] = "swapped" /\ txn_owner = Nobody /\ txn_owner' = t
        /\ persist_pc' = [persist_pc EXCEPT ![t] = "inserting"]
        /\ UNCHANGED <<db, txn, batch, last_id, pending_messages, latest_persisted_id, phase,
                       next_id, sent, first_id, rows, queried, channel_message_ids>>
    BY <1>2 DEF PersistBegin, lockedVars, appVars, logVars
  <2>2. Running /\ Running'
    BY <2>1, PersistRunning DEF Running
  <2>3. batch[t] # <<>> /\ t # Nobody
    BY <2>1 DEF StoreInv, PersistInv, Persisters, Nobody
  <2>4. persist_pc'[t] = "inserting" /\ \A u \in Persisters \ {t} : persist_pc'[u] = persist_pc[u]
    BY <2>1 DEF StoreInv, TypeOK
  <2>5. PersistInv'
    BY <2>1, <2>3, <2>4 DEF StoreInv, PersistInv, Persisters, Nobody
  <2>6. NotRunningInv' /\ IdInv' /\ NothingForgottenInv' /\ Queued' = Queued
    BY <2>1, <2>2 DEF StoreInv, NotRunningInv, IdInv, NothingForgottenInv,
                      Queued, VisibleRows, Apart, Running
  <2>7. RecentInv'
    BY <2>1, <2>2, <2>6 DEF StoreInv, RecentInv
  <2> QED BY <2>5, <2>6, <2>7 DEF StoreInv
<1> QED BY <1>1, <1>2

(* An INSERT moves the oldest message of the batch into the transaction. *)
LEMMA PersistInsertInv ==
  ASSUME StoreInv, TypeOK', NEW t \in Persisters, PersistInsert(t)
  PROVE  StoreInv'
<1>1. CASE ProcessEnds("crashed")
  BY <1>1, ProcessEndsInv
<1>2. CASE ~ ProcessEnds("crashed")
  <2> DEFINE m == Head(batch[t])
  <2>1. /\ persist_pc[t] = "inserting" /\ batch[t] # <<>>
        /\ \A r \in VisibleRows : r.id # m.id
        /\ txn' = txn \cup {m}
        /\ last_id' = [last_id EXCEPT ![t] = m.id]
        /\ batch' = [batch EXCEPT ![t] = Tail(batch[t])]
        /\ UNCHANGED <<db, txn_owner, persist_pc, pending_messages, latest_persisted_id, phase,
                       next_id, sent, first_id, rows, queried, channel_message_ids>>
    BY <1>2 DEF PersistInsert, lockedVars, appVars, logVars
  <2>2. Running /\ Running'
    BY <2>1, PersistRunning DEF Running
  <2>3. batch[t] \in Seq(Message)
    BY DEF StoreInv, TypeOK
  <2>4. m \in Message /\ Tail(batch[t]) \in Seq(Message)
    BY <2>1, <2>3, SeqFacts
  <2>5. SeqToSet(batch[t]) = {m} \cup SeqToSet(Tail(batch[t]))
    BY <2>1, <2>3, HeadTailSet
  <2>6. Ascending(Tail(batch[t])) /\ \A x \in SeqToSet(Tail(batch[t])) : x.id # m.id
    BY <2>1, <2>3, AscendingTail DEF StoreInv, IdInv
  <2> HIDE DEF m
  <2>7. /\ batch'[t] = Tail(batch[t]) /\ last_id'[t] = m.id
        /\ \A u \in Persisters \ {t} : batch'[u] = batch[u] /\ last_id'[u] = last_id[u]
    BY <2>1 DEF StoreInv, TypeOK
  <2>8. m \in Queued /\ m \in sent /\ m.id >= first_id /\ m.id < next_id
    <3>1. m \in Queued
      BY <2>5, QueuedParts DEF Persisters
    <3> QED BY <2>2, <3>1 DEF StoreInv, IdInv, RecentInv, NothingForgottenInv
  <2>9. PersistInv'
    BY <2>1, <2>7, <2>8 DEF StoreInv, PersistInv, Persisters, Nobody
  <2>10. VisibleRows' = VisibleRows \cup {m}
    BY <2>1 DEF VisibleRows
  <2>11. Queued' \subseteq Queued /\ Queued \subseteq Queued' \cup {m}
    BY <2>1, <2>5, <2>7, QueuedParts DEF Queued, Persisters
  <2>12. IdInv'
    <3>1. db' \subseteq sent' /\ txn' \subseteq sent'
      BY <2>1, <2>8 DEF StoreInv, IdInv
    <3>2. Ascending(pending_messages') /\ \A u \in Persisters : Ascending(batch'[u])
      BY <2>1, <2>6, <2>7 DEF StoreInv, IdInv
    <3>3. Apart(SeqToSet(pending_messages'), VisibleRows')
      BY <2>1, <2>5, <2>10 DEF StoreInv, IdInv, Apart
    <3>4. \A u \in Persisters : Apart(SeqToSet(batch'[u]), SeqToSet(pending_messages'))
      BY <2>1, <2>5, <2>7 DEF StoreInv, IdInv, Apart
    <3>5. Apart(SeqToSet(batch'["scheduler"]), SeqToSet(batch'["main"]))
      BY <2>5, <2>7 DEF StoreInv, IdInv, Apart, Persisters
    <3>6. ASSUME NEW u \in Persisters PROVE Apart(SeqToSet(batch'[u]), VisibleRows')
      <4>1. CASE u = t
        BY <2>5, <2>6, <2>7, <2>10, <4>1 DEF StoreInv, IdInv, Apart
      <4>2. CASE u # t
        BY <2>5, <2>7, <2>10, <4>2 DEF StoreInv, IdInv, Apart, Persisters
      <4> QED BY <4>1, <4>2
    <3> QED BY <2>1, <2>2, <3>1, <3>2, <3>3, <3>4, <3>5, <3>6 DEF StoreInv, IdInv
  <2>13. NotRunningInv'
    BY <2>2 DEF NotRunningInv
  <2>14. NothingForgottenInv'
    BY <2>1, <2>2, <2>8, <2>10, <2>11 DEF StoreInv, NothingForgottenInv
  <2>15. RecentInv'
    BY <2>1, <2>2, <2>7, <2>8, <2>11 DEF StoreInv, RecentInv
  <2> QED BY <2>9, <2>12, <2>13, <2>14, <2>15 DEF StoreInv
<1> QED BY <1>1, <1>2

(* The commit makes the rows of the transaction durable. *)
LEMMA PersistCommitInv ==
  ASSUME StoreInv, TypeOK', NEW t \in Persisters, PersistCommit(t)
  PROVE  StoreInv'
<1>1. /\ persist_pc[t] = "inserting" /\ batch[t] = <<>>
      /\ db' = db \cup txn /\ txn' = {} /\ txn_owner' = Nobody
      /\ persist_pc' = [persist_pc EXCEPT ![t] = "committed"]
      /\ UNCHANGED <<batch, last_id, pending_messages, latest_persisted_id, phase,
                     next_id, sent, first_id, rows, queried, channel_message_ids>>
  BY DEF PersistCommit, lockedVars, appVars, logVars
<1>2. Running /\ Running'
  BY <1>1, PersistRunning DEF Running
<1>3. persist_pc'[t] = "committed" /\ \A u \in Persisters \ {t} : persist_pc'[u] = persist_pc[u]
  BY <1>1 DEF StoreInv, TypeOK
<1>4. txn_owner = t /\ \A u \in Persisters \ {t} : persist_pc[u] # "inserting"
  BY <1>1 DEF StoreInv, PersistInv
<1>5. PersistInv'
  BY <1>1, <1>3, <1>4 DEF StoreInv, PersistInv, Persisters, Nobody
<1>6. VisibleRows' = VisibleRows /\ Queued' = Queued
  BY <1>1 DEF VisibleRows, Queued
<1>7. NotRunningInv' /\ IdInv' /\ NothingForgottenInv' /\ RecentInv'
  BY <1>1, <1>2, <1>6 DEF StoreInv, NotRunningInv, IdInv, NothingForgottenInv, RecentInv, Apart
<1> QED BY <1>5, <1>7 DEF StoreInv

(* The second critical section: the id it stores was created in this run. *)
LEMMA PersistEndInv ==
  ASSUME StoreInv, TypeOK', NEW t \in Persisters, PersistEnd(t)
  PROVE  StoreInv'
<1>1. /\ persist_pc[t] = "committed" /\ latest_persisted_id' = last_id[t]
      /\ UNCHANGED <<db, txn, txn_owner, batch, last_id, pending_messages, phase,
                     next_id, sent, first_id, rows, queried, channel_message_ids>>
  BY DEF PersistEnd, dbVars, appVars, logVars
<1>2. Running /\ Running'
  BY <1>1, PersistRunning DEF Running
<1>3. persist_pc'[t] \in {"idle", "done"} /\ \A u \in Persisters \ {t} : persist_pc'[u] = persist_pc[u]
  BY DEF PersistEnd, AfterPersist, StoreInv, TypeOK
<1>4. last_id[t] >= first_id /\ last_id[t] < next_id /\ last_id[t] \in Int /\ first_id \in Int
  BY <1>1, <1>2, MessageIdFacts DEF StoreInv, PersistInv, RecentInv, TypeOK
<1>5. phase = "up" => t # "main"
  BY <1>1 DEF StoreInv, PersistInv
<1>6. PersistInv'
  BY <1>1, <1>3, <1>5 DEF StoreInv, PersistInv, Persisters, Nobody
<1>7. VisibleRows' = VisibleRows /\ Queued' = Queued
  BY <1>1 DEF VisibleRows, Queued
<1>8. NotRunningInv' /\ IdInv' /\ NothingForgottenInv'
  BY <1>1, <1>2, <1>7 DEF StoreInv, NotRunningInv, IdInv, NothingForgottenInv, Apart
<1>9. latest_persisted_id' >= first_id - 1 /\ latest_persisted_id' < next_id
  BY <1>1, <1>4
<1>10. RecentInv'
  BY <1>1, <1>2, <1>7, <1>9 DEF StoreInv, RecentInv
<1> QED BY <1>6, <1>8, <1>10 DEF StoreInv

(* Prewarm starts above every stored id. *)
LEMMA PrewarmInv ==
  ASSUME StoreInv, TypeOK', Prewarm
  PROVE  StoreInv'
<1>1. /\ ~ Running /\ Running'
      /\ UNCHANGED <<db, txn, txn_owner, pending_messages, persist_pc, batch, last_id,
                     queried, rows, sent>>
      /\ phase' = "up" /\ first_id' = next_id' /\ next_id' = latest_persisted_id' + 1
      /\ latest_persisted_id' = MaxId({m.id : m \in VisibleRows})
  BY DEF Prewarm, Running, dbVars, persistVars, appVars
<1>2. /\ sent = db /\ txn = {} /\ pending_messages = <<>> /\ rows = {} /\ queried = {}
      /\ \A t \in Persisters : persist_pc[t] = "idle" /\ batch[t] = <<>> /\ last_id[t] = NoId
      /\ \A c \in Channels : channel_message_ids[c] = {}
  BY <1>1 DEF StoreInv, NotRunningInv, Prewarm
<1>3. VisibleRows = sent /\ VisibleRows' = sent /\ Queued' = {}
  BY <1>1, <1>2, EmptySeqSet DEF VisibleRows, Queued
<1>4. {m.id : m \in VisibleRows} \subseteq MessageId
  BY MessageFacts DEF StoreInv, TypeOK, VisibleRows
<1>5. /\ latest_persisted_id' \in MessageId \cup {NoId}
      /\ \A m \in sent : m.id <= latest_persisted_id'
  BY <1>1, <1>3, <1>4, MaxIdProperty
<1>6. latest_persisted_id' \in Int /\ latest_persisted_id' >= NoId /\ \A m \in sent : m.id \in Nat
  <2>1. \A m \in sent : m.id \in Nat
    BY MessageFacts DEF StoreInv, TypeOK
  <2>2. \A i \in MessageId \cup {NoId} : i \in Int /\ i >= NoId
    BY MessageIdFacts DEF NoId
  <2> QED BY <1>5, <2>1, <2>2
<1>7. \A m \in sent : m.id < next_id'
  BY <1>1, <1>5, <1>6
<1>8. PersistInv'
  BY <1>1, <1>2 DEF StoreInv, PersistInv, Persisters
<1>9. IdInv'
  BY <1>1, <1>2, <1>7, EmptySeqSet DEF StoreInv, IdInv, Apart, VisibleRows, Persisters
<1>10. NotRunningInv' /\ NothingForgottenInv'
  BY <1>1, <1>3 DEF NotRunningInv, NothingForgottenInv
<1>11. RecentInv'
  <2>1. first_id' <= next_id' /\ latest_persisted_id' >= first_id' - 1 /\ latest_persisted_id' < next_id'
    BY <1>1, <1>6
  <2>2. \A t \in Persisters : last_id'[t] < next_id'
    BY <1>1, <1>2, <1>6 DEF NoId
  <2>3. ASSUME NEW c \in Channels, NEW i \in channel_message_ids'[c] PROVE i < next_id'
    <3>1. i \in ChannelIds(VisibleRows, c)
      BY <1>2 DEF Prewarm, LatestIds
    <3> QED BY <1>3, <1>7, <3>1 DEF ChannelIds
  <2>4. \A m \in sent' : ~ (m.id >= first_id')
    BY <1>1, <1>6, <1>7
  <2>5. rows' = {} /\ queried' = {}
    BY <1>1, <1>2
  <2> QED BY <1>3, <2>1, <2>2, <2>3, <2>4, <2>5 DEF RecentInv
<1> QED BY <1>8, <1>9, <1>10, <1>11 DEF StoreInv

(* A new process finds the committed rows and nothing else. *)
LEMMA RestartInv ==
  ASSUME StoreInv, TypeOK', Restart
  PROVE  StoreInv'
<1>1. /\ ~ Running /\ ~ Running'
      /\ phase' = "starting" /\ sent' = db
      /\ UNCHANGED <<db, txn, txn_owner, pending_messages, persist_pc, batch, last_id,
                     queried, rows, message_cache, channel_message_ids, cache_complete,
                     app_pc, first_id, latest_persisted_id, next_id>>
  BY DEF Restart, Running, dbVars, lockedVars, persistVars, appVars, logVars
<1>2. txn = {} /\ NotRunningInv' /\ PersistInv'
  BY <1>1 DEF StoreInv, NotRunningInv, PersistInv
<1>3. IdInv'
  BY <1>1, <1>2 DEF StoreInv, IdInv, VisibleRows, Apart
<1> QED BY <1>1, <1>2, <1>3 DEF StoreInv, RecentInv, NothingForgottenInv

LEMMA StoreInvStep == StoreInv /\ [Next]_vars => StoreInv'
<1> SUFFICES ASSUME StoreInv, [Next]_vars PROVE StoreInv'
  OBVIOUS
<1>1. TypeOK'
  BY TypeStep DEF StoreInv
<1>2. CASE AppNext
  BY <1>1, <1>2, CreateInv, GetChatsInv, AssignMessageInv, ReplyStepInv DEF AppNext
<1>3. ASSUME NEW t \in Persisters, PersistNext(t) PROVE StoreInv'
  BY <1>1, <1>3, PersistSwapInv, PersistBeginInv, PersistInsertInv, PersistCommitInv, PersistEndInv
     DEF PersistNext
<1>4. CASE LifeNext
  <2>1. CASE Exit \/ Crash
    BY <2>1, ProcessEndsInv DEF Exit, Crash
  <2> QED BY <1>1, <1>4, <2>1, PrewarmInv, RestartInv, ControlStepInv DEF LifeNext
<1>5. CASE SchedulerDue
  BY <1>1, <1>5, ControlStepInv
<1>6. CASE UNCHANGED vars
  BY <1>6 DEF vars, dbVars, lockedVars, persistVars, appVars, logVars, StoreInv, TypeOK,
     NotRunningInv, PersistInv, IdInv, RecentInv, NothingForgottenInv, Running, Queued,
     VisibleRows, Apart
<1> QED BY <1>2, <1>3, <1>4, <1>5, <1>6 DEF Next

(* The inductive invariant holds in every reachable state: what each       *)
(* critical section of Persist, each request and each end of the process   *)
(* leaves behind in queue, batches, transaction, table, logs and ids.      *)
THEOREM StoreInvariant == Spec => []StoreInv
BY InitStoreInv, StoreInvStep, PTL DEF Spec

(* ChatMessageStore::Persist never inserts an id the table already has,    *)
(* for any number of channels and messages: what a request reads back from *)
(* the database is never queued again, although latest_persisted_id_ lags. *)
THEOREM PersistNeverDuplicates == Spec => []NoDuplicateInsert
<1>1. StoreInv => NoDuplicateInsert
  <2> SUFFICES ASSUME StoreInv, NEW t \in Persisters, batch[t] # <<>>, NEW r \in VisibleRows
               PROVE  r.id # Head(batch[t]).id
    BY DEF NoDuplicateInsert
  <2>1. Head(batch[t]) \in SeqToSet(batch[t])
    BY HeadTailSet DEF StoreInv, TypeOK
  <2> QED BY <2>1 DEF StoreInv, IdInv, Apart
<1> QED BY <1>1, StoreInvariant, PTL

(* No interleaving of requests with the critical sections of Persist loses *)
(* a message while the process runs.                                       *)
THEOREM PersistForgetsNothing == Spec => []NothingForgotten
<1>1. StoreInv => NothingForgotten
  <2>1. phase \in {"up", "closing"} => Running
    BY DEF Running
  <2> QED BY <2>1 DEF StoreInv, NothingForgottenInv, NothingForgotten, Queued
<1> QED BY <1>1, StoreInvariant, PTL

(* While the server is up, BEGIN never finds the connection in a           *)
(* transaction: PersistChatMessages can throw for that reason only once    *)
(* the main thread has begun its last Persist.                             *)
THEOREM TransactionsNest == Spec => []NestedOnlyAtShutdown
<1>1. StoreInv => NestedOnlyAtShutdown
  BY DEF StoreInv, PersistInv, TypeOK, Persisters, NestedOnlyAtShutdown
<1> QED BY <1>1, StoreInvariant, PTL

-----------------------------------------------------------------------------
(* Messages reach the table in the order of their ids.                     *)

(* The head of a batch is below the rest of it. *)
LEMMA AscendingHead ==
  ASSUME NEW s \in Seq(Message), Ascending(s), s # <<>>
  PROVE  \A x \in SeqToSet(Tail(s)) : Head(s).id < x.id
<1>1. Len(s) \in Nat /\ Len(s) > 0 /\ Head(s) = s[1]
  OBVIOUS
<1>2. DOMAIN Tail(s) = 1 .. (Len(s) - 1) /\ \A i \in 1 .. (Len(s) - 1) : Tail(s)[i] = s[i + 1]
  BY <1>1
<1> SUFFICES ASSUME NEW x \in SeqToSet(Tail(s)) PROVE Head(s).id < x.id
  OBVIOUS
<1>3. PICK i \in 1 .. (Len(s) - 1) : x = s[i + 1]
  BY <1>2 DEF SeqToSet
<1>4. i + 1 \in 1 .. Len(s) /\ 1 \in 1 .. Len(s) /\ 1 < i + 1
  BY <1>1
<1> QED BY <1>1, <1>3, <1>4 DEF Ascending

(* The steps of the scheduler thread that move messages, while the server  *)
(* is up; the main thread has none then.                                   *)
LEMMA PersistPrefix ==
  ASSUME StoreInv, PrefixInv, NEW t \in Persisters, PersistNext(t)
  PROVE  PrefixInv'
<1> SUFFICES ASSUME phase' = "up"
             PROVE  /\ Before(db', txn' \cup Queued')
                    /\ Before(txn', Queued')
                    /\ Before(SeqToSet(batch'["scheduler"]), SeqToSet(pending_messages'))
  BY DEF PrefixInv
<1>1. ~ ProcessEnds("crashed")
  BY DEF ProcessEnds
<1>2. phase = "up" /\ UNCHANGED <<phase, next_id>>
  BY <1>1 DEF PersistNext, PersistSwap, SwapOut, NothingToPersist, PersistBegin, PersistInsert,
              PersistCommit, PersistEnd
<1>3. t = "scheduler"
  BY <1>2 DEF StoreInv, PersistInv, Persisters, PersistNext, PersistSwap, PersistBegin,
              PersistInsert, PersistCommit, PersistEnd
<1>4. /\ Before(db, txn \cup Queued) /\ Before(txn, Queued)
      /\ Before(SeqToSet(batch["scheduler"]), SeqToSet(pending_messages))
  BY <1>2 DEF PrefixInv
<1>5. batch["scheduler"] \in Seq(Message) /\ pending_messages \in Seq(Message)
  BY DEF StoreInv, TypeOK, Persisters
<1>6. batch["main"] = <<>> /\ SeqToSet(batch["main"]) = {}
  BY <1>2, EmptySeqSet DEF StoreInv, PersistInv, Persisters
<1>7. batch \in [Persisters -> Seq(Message)] /\ "scheduler" \in Persisters /\ "main" \in Persisters
  BY DEF StoreInv, TypeOK, Persisters
<1>8. CASE PersistSwap(t)
  <2>1. batch["scheduler"] = <<>> /\ db' = db /\ txn' = txn
    BY <1>3, <1>8 DEF PersistSwap, SwapOut, NothingToPersist, StoreInv, PersistInv, Persisters, dbVars
  <2>2. CASE pending_messages = <<>>
    <3>1. batch' = batch /\ pending_messages' = pending_messages
      BY <1>8, <2>2 DEF PersistSwap, SwapOut, NothingToPersist, lockedVars
    <3> QED BY <1>4, <2>1, <3>1 DEF Queued
  <2>3. CASE pending_messages # <<>>
    <3>1. batch' = [batch EXCEPT !["scheduler"] = pending_messages] /\ pending_messages' = <<>>
      BY <1>3, <1>8, <2>3 DEF PersistSwap, SwapOut, NothingToPersist
    <3>2. batch'["scheduler"] = pending_messages /\ batch'["main"] = <<>>
      BY <1>6, <1>7, <3>1
    <3>3. SeqToSet(pending_messages') = {} /\ SeqToSet(batch'["main"]) = {}
      BY <3>1, <3>2, EmptySeqSet
    <3>4. Queued' = SeqToSet(pending_messages)
      BY <3>2, <3>3 DEF Queued, Persisters
    <3>5. Queued' \subseteq Queued
      BY <3>4 DEF Queued
    <3> QED BY <1>4, <2>1, <3>3, <3>5 DEF Before
  <2> QED BY <2>2, <2>3
<1>9. CASE PersistBegin(t) \/ PersistEnd(t)
  <2>1. UNCHANGED <<db, txn, batch, pending_messages>>
    BY <1>1, <1>9 DEF PersistBegin, PersistEnd, dbVars, lockedVars
  <2> QED BY <1>4, <2>1 DEF Queued
<1>10. CASE PersistInsert(t)
  <2> DEFINE m == Head(batch["scheduler"])
  <2>1. /\ batch["scheduler"] # <<>> /\ txn' = txn \cup {m}
        /\ batch' = [batch EXCEPT !["scheduler"] = Tail(batch["scheduler"])]
        /\ UNCHANGED <<db, pending_messages>>
    BY <1>1, <1>3, <1>10 DEF PersistInsert, lockedVars
  <2>2. SeqToSet(batch["scheduler"]) = {m} \cup SeqToSet(Tail(batch["scheduler"]))
    BY <1>5, <2>1, HeadTailSet
  <2>3. \A x \in SeqToSet(Tail(batch["scheduler"])) : m.id < x.id
    BY <1>5, <2>1, AscendingHead DEF StoreInv, IdInv, Persisters
  <2> HIDE DEF m
  <2>4. batch'["scheduler"] = Tail(batch["scheduler"]) /\ batch'["main"] = <<>>
    BY <1>6, <1>7, <2>1
  <2>5. /\ Queued = SeqToSet(pending_messages) \cup SeqToSet(batch["scheduler"])
        /\ Queued' = SeqToSet(pending_messages) \cup SeqToSet(Tail(batch["scheduler"]))
    BY <1>6, <2>1, <2>4 DEF Queued, Persisters
  <2>6. Before({m}, Queued')
    BY <1>4, <2>2, <2>3, <2>5 DEF Before
  <2>7. Before(db', txn' \cup Queued')
    BY <1>4, <2>1, <2>2, <2>5 DEF Before
  <2>8. Before(txn', Queued')
    BY <1>4, <2>1, <2>2, <2>5, <2>6 DEF Before
  <2>9. Before(SeqToSet(batch'["scheduler"]), SeqToSet(pending_messages'))
    BY <1>4, <2>1, <2>2, <2>4 DEF Before
  <2> QED BY <2>7, <2>8, <2>9
<1>11. CASE PersistCommit(t)
  <2>1. db' = db \cup txn /\ txn' = {} /\ UNCHANGED <<batch, pending_messages>>
    BY <1>11 DEF PersistCommit, lockedVars
  <2>2. Queued' = Queued
    BY <2>1 DEF Queued
  <2> QED BY <1>4, <2>1, <2>2 DEF Before
<1> QED BY <1>8, <1>9, <1>10, <1>11 DEF PersistNext

LEMMA PrefixStep == StoreInv /\ StoreInv' /\ PrefixInv /\ [Next]_vars => PrefixInv'
<1> SUFFICES ASSUME StoreInv, StoreInv', PrefixInv, [Next]_vars PROVE PrefixInv'
  OBVIOUS
<1>1. ASSUME NEW c \in Channels, CreateMessage(c) PROVE PrefixInv'
  <2> DEFINE m == [id |-> next_id, channel |-> c]
  <2>1. m \in Message /\ m.id = next_id /\ pending_messages \in Seq(Message)
    <3>1. next_id \in MessageId
      BY <1>1, ConstantsAssumption DEF CreateMessage, MessageId, StoreInv, TypeOK
    <3>2. pending_messages \in Seq(Message)
      BY DEF StoreInv, TypeOK
    <3> QED BY <3>1, <3>2 DEF Message
  <2>2. pending_messages' = pending_messages \/ pending_messages' = Append(pending_messages, m)
    BY <1>1 DEF CreateMessage
  <2> HIDE DEF m
  <2>3. SeqToSet(pending_messages') \subseteq SeqToSet(pending_messages) \cup {m}
    <3>1. SeqToSet(Append(pending_messages, m)) = SeqToSet(pending_messages) \cup {m}
      BY <2>1, AppendSet
    <3> QED BY <2>2, <3>1
  <2>4. UNCHANGED <<db, txn, batch, phase>> /\ Running
    BY <1>1 DEF CreateMessage, dbVars, persistVars, Serving, Running
  <2>5. Queued' \subseteq Queued \cup {m}
    BY <2>3, <2>4 DEF Queued
  <2>6. \A x \in db \cup txn \cup Queued : x.id < m.id
    BY <2>1, <2>4 DEF StoreInv, IdInv, NothingForgottenInv, VisibleRows
  <2>7. SeqToSet(batch["scheduler"]) \subseteq Queued
    BY QueuedParts
  <2>8. phase = "up" => Before(db, txn \cup Queued') /\ Before(txn, Queued')
    BY <2>5, <2>6 DEF PrefixInv, Before
  <2>9. phase = "up" => Before(SeqToSet(batch["scheduler"]), SeqToSet(pending_messages'))
    BY <2>3, <2>6, <2>7 DEF PrefixInv, Before
  <2> QED BY <2>4, <2>8, <2>9 DEF PrefixInv
<1>2. CASE AssignMessage
  <2>1. UNCHANGED <<db, txn, batch, phase, latest_persisted_id, first_id>>
    BY <1>2 DEF AssignMessage, dbVars, persistVars
  <2>2. Running
    BY <1>2 DEF AssignMessage, StoreInv, NotRunningInv
  <2>3. PICK m \in rows : pending_messages' = IF m.id <= latest_persisted_id
                            THEN pending_messages ELSE Append(pending_messages, m)
    BY <1>2 DEF AssignMessage
  <2>4. m.id \in Nat /\ m.id < first_id /\ latest_persisted_id >= first_id - 1
    BY <2>2, MessageFacts DEF StoreInv, TypeOK, RecentInv
  <2>5. latest_persisted_id \in Int /\ first_id \in Int
    BY MessageIdFacts DEF StoreInv, TypeOK
  <2>6. pending_messages' = pending_messages
    BY <2>3, <2>4, <2>5
  <2> QED BY <2>1, <2>6 DEF PrefixInv, Queued
<1>3. ASSUME \/ \E c \in Channels, n \in Limits : HandleGetChats(c, n)
             \/ AssignMessageIds \/ SendReply \/ SchedulerDue \/ UNCHANGED vars
      PROVE  PrefixInv'
  <2>1. UNCHANGED <<db, txn, batch, pending_messages, phase>>
    BY <1>3 DEF HandleGetChats, AssignMessageIds, SendReply, SchedulerDue, vars, dbVars, lockedVars, persistVars
  <2> QED BY <2>1 DEF PrefixInv, Queued
<1>4. ASSUME NEW t \in Persisters, PersistNext(t) PROVE PrefixInv'
  BY <1>4, PersistPrefix
<1>5. CASE Prewarm
  <2>1. UNCHANGED <<db, txn, batch, pending_messages>> /\ ~ Running
    BY <1>5 DEF Prewarm, dbVars, persistVars, Running
  <2>2. txn = {} /\ pending_messages = <<>> /\ \A t \in Persisters : batch[t] = <<>>
    BY <2>1 DEF StoreInv, NotRunningInv
  <2>3. Queued' = {}
    BY <2>1, <2>2, EmptySeqSet DEF Queued
  <2>4. SeqToSet(pending_messages') = {}
    BY <2>1, <2>2, EmptySeqSet
  <2> QED BY <2>1, <2>2, <2>3, <2>4 DEF PrefixInv, Before
<1>6. CASE BeginShutdown \/ StopApplication \/ Exit \/ Crash \/ Restart
  <2>1. phase' # "up"
    BY <1>6 DEF BeginShutdown, StopApplication, Exit, Crash, Restart, ProcessEnds
  <2> QED BY <2>1 DEF PrefixInv
<1> QED BY <1>1, <1>2, <1>3, <1>4, <1>5, <1>6 DEF Next, AppNext, LifeNext

(* A crash never leaves a hole: until the shutdown begins, the committed   *)
(* rows are a prefix of the broadcast messages, whatever Persist has       *)
(* swapped out and inserted.                                               *)
THEOREM CrashLeavesNoHole == Spec => []DurablePrefix
<1>1. Init => PrefixInv
  BY DEF Init, PrefixInv
<1>2. StoreInv /\ PrefixInv => DurablePrefix
  <2> SUFFICES ASSUME StoreInv, PrefixInv, phase = "up", NEW m \in db, NEW s \in sent,
                      s.id <= m.id, s \notin db
               PROVE  FALSE
    BY DEF DurablePrefix
  <2>1. s \in txn \cup Queued
    BY DEF StoreInv, NothingForgottenInv, Running, VisibleRows
  <2>2. m.id < s.id
    BY <2>1 DEF PrefixInv, Before
  <2>3. m.id \in Nat /\ s.id \in Nat
    BY MessageFacts DEF StoreInv, TypeOK
  <2> QED BY <2>2, <2>3
<1> QED BY <1>1, <1>2, PrefixStep, StoreInvariant, PTL DEF Spec

-----------------------------------------------------------------------------
(* The latest ids of a set, as vector and query give them.                 *)

(* Sets of ids are finite, and a part of one has no more elements. *)
LEMMA IdsAbove ==
  ASSUME NEW S, S \subseteq MessageId, NEW T, T \subseteq S
  PROVE  /\ IsFiniteSet(S) /\ IsFiniteSet(T)
         /\ Cardinality(S) \in Nat /\ Cardinality(T) \in Nat
         /\ Cardinality(T) <= Cardinality(S)
<1>1. IsFiniteSet(S) /\ Cardinality(S) \in Nat
  BY FiniteIds
<1>2. IsFiniteSet(T) /\ Cardinality(T) <= Cardinality(S)
  BY <1>1, FS_Subset
<1> QED BY <1>1, <1>2, FS_CardinalityType

(* What is not among the latest is below all that are. *)
LEMMA LatestIsUpper ==
  ASSUME NEW S, S \subseteq MessageId, NEW n \in Int,
         NEW i \in S, i \notin LatestIds(S, n), NEW j \in LatestIds(S, n)
  PROVE  i < j
<1>1. i \in Nat /\ j \in Nat /\ j \in S /\ \A k \in S : k \in Nat
  BY MessageIdFacts DEF LatestIds
<1> SUFFICES ASSUME j <= i PROVE FALSE
  BY <1>1
<1> DEFINE A == {k \in S : k > i}
           B == {k \in S : k > j}
<1>2. A \subseteq B /\ B \subseteq S
  <2>1. \A k \in S : k > i => k > j
    BY <1>1
  <2> QED BY <2>1
<1>3. Cardinality(A) \in Nat /\ Cardinality(B) \in Nat /\ Cardinality(A) <= Cardinality(B)
  <2>1. B \subseteq MessageId
    BY <1>2
  <2> HIDE DEF A, B
  <2> QED BY <1>2, <2>1, IdsAbove
<1>4. Cardinality(B) < n /\ ~ (Cardinality(A) < n)
  BY <1>1 DEF LatestIds
<1> QED BY <1>3, <1>4

(* Fewer than asked for is all there is. *)
LEMMA LatestFewer ==
  ASSUME NEW S, S \subseteq MessageId, NEW n \in Int, Cardinality(LatestIds(S, n)) < n
  PROVE  LatestIds(S, n) = S
<1> DEFINE L == LatestIds(S, n)
<1>1. L \subseteq S
  BY DEF LatestIds
<1> SUFFICES ASSUME S \ L # {} PROVE FALSE
  BY <1>1
<1>2. S \ L \subseteq 0 .. (MaxMessages - 1)
  BY DEF MessageId
<1>3. PICK i \in S \ L : \A j \in S \ L : j <= i
  BY <1>2, MaxExists, ConstantsAssumption
<1> DEFINE A == {k \in S : k > i}
<1>4. \A k \in S : k \in Nat
  BY MessageIdFacts
<1>5. A \subseteq L
  BY <1>3, <1>4
<1>6. ~ (Cardinality(A) < n)
  BY <1>3 DEF LatestIds
<1>7. Cardinality(A) \in Nat /\ Cardinality(L) \in Nat /\ Cardinality(A) <= Cardinality(L)
  <2>1. L \subseteq MessageId
    BY <1>1
  <2> HIDE DEF A, L
  <2> QED BY <1>5, <2>1, IdsAbove
<1> QED BY <1>6, <1>7

(* An upper part that is large enough has the latest of the whole. *)
LEMMA LatestOfUpper ==
  ASSUME NEW S, S \subseteq MessageId, NEW T, T \subseteq S, NEW n \in Int,
         \A i \in S \ T, j \in T : i < j,
         n <= Cardinality(T)
  PROVE  LatestIds(S, n) = LatestIds(T, n)
<1>1. \A k \in S : k \in Nat
  BY MessageIdFacts
<1>2. ASSUME NEW i \in T PROVE i \in LatestIds(S, n) <=> i \in LatestIds(T, n)
  <2>1. {k \in S : k > i} = {k \in T : k > i}
    BY <1>1, <1>2
  <2> QED BY <2>1 DEF LatestIds
<1>3. ASSUME NEW i \in S \ T PROVE i \notin LatestIds(S, n)
  <2> DEFINE A == {k \in S : k > i}
  <2>1. T \subseteq A /\ A \subseteq MessageId
    BY <1>1
  <2>2. Cardinality(A) \in Nat /\ Cardinality(T) \in Nat /\ Cardinality(T) <= Cardinality(A)
    <3> HIDE DEF A
    <3> QED BY <2>1, IdsAbove
  <2>3. ~ (Cardinality(A) < n)
    BY <2>2
  <2> QED BY <2>3 DEF LatestIds
<1> QED BY <1>2, <1>3 DEF LatestIds

(* An upper part that is too small is completed by the latest of the rest. *)
LEMMA LatestInTwoParts ==
  ASSUME NEW S, S \subseteq MessageId, NEW T, T \subseteq S, NEW n \in Int,
         \A i \in S \ T, j \in T : i < j,
         Cardinality(T) < n
  PROVE  LatestIds(S, n) = T \cup LatestIds(S \ T, n - Cardinality(T))
<1>1. \A k \in S : k \in Nat
  BY MessageIdFacts
<1>2. ASSUME NEW i \in T PROVE i \in LatestIds(S, n)
  <2> DEFINE A == {k \in S : k > i}
  <2>1. A \subseteq T /\ T \subseteq MessageId
    BY <1>1
  <2>2. Cardinality(A) \in Nat /\ Cardinality(T) \in Nat /\ Cardinality(A) <= Cardinality(T)
    <3> HIDE DEF A
    <3> QED BY <2>1, IdsAbove
  <2>3. Cardinality(A) < n
    BY <2>2
  <2> QED BY <2>3 DEF LatestIds
<1>3. ASSUME NEW i \in S \ T
      PROVE  i \in LatestIds(S, n) <=> i \in LatestIds(S \ T, n - Cardinality(T))
  <2> DEFINE A == {k \in S : k > i}
             B == {k \in S \ T : k > i}
  <2>1. A = T \cup B /\ T \cap B = {} /\ B \subseteq MessageId /\ T \subseteq MessageId
    BY <1>1
  <2>2. Cardinality(A) = Cardinality(T) + Cardinality(B) /\ Cardinality(T) \in Nat /\ Cardinality(B) \in Nat
    <3> HIDE DEF A, B
    <3>1. IsFiniteSet(T) /\ IsFiniteSet(B) /\ Cardinality(T) \in Nat /\ Cardinality(B) \in Nat
      BY <2>1, FiniteIds
    <3>2. Cardinality(T \cup B) = Cardinality(T) + Cardinality(B) - Cardinality(T \cap B)
      BY <3>1, FS_Union
    <3> QED BY <2>1, <3>1, <3>2, FS_EmptySet
  <2>3. Cardinality(A) < n <=> Cardinality(B) < n - Cardinality(T)
    BY <2>2
  <2> QED BY <2>3 DEF LatestIds
<1> QED BY <1>2, <1>3 DEF LatestIds

(* A set of messages with different ids is as large as the set of its ids. *)
LEMMA IdsOfMessages ==
  ASSUME NEW R, R \subseteq Message, \A x, y \in R : x.id = y.id => x = y
  PROVE  Cardinality({m.id : m \in R}) = Cardinality(R)
<1> DEFINE I == {m.id : m \in R}
           f == [m \in R |-> m.id]
<1>1. I \subseteq MessageId
  BY MessageFacts
<1>2. IsFiniteSet(I)
  BY <1>1, FiniteIds
<1>3. f \in [R -> I] /\ \A m \in R : f[m] = m.id
  OBVIOUS
<1>4. f \in Injection(R, I)
  BY <1>3 DEF Injection, IsInjective
<1>5. f \in Surjection(R, I)
  BY <1>3 DEF Surjection
<1> HIDE DEF I, f
<1> QED BY <1>2, <1>4, <1>5, FS_Injection DEF I

-----------------------------------------------------------------------------
(* Logs and requests: the answer to GetChats is exact.                     *)

LEMMA IdsOfChannel ==
  ASSUME StoreInv, NEW c \in Channels
  PROVE  /\ ChannelIds(sent, c) \subseteq MessageId
         /\ channel_message_ids[c] \subseteq MessageId
BY MessageFacts DEF StoreInv, TypeOK, ChannelIds

(* Whatever leaves the logs, the request and the broadcast messages alone. *)
LEMMA ReplyFrame ==
  ASSUME LogInv, RequestInv, Running' => Running,
         UNCHANGED <<sent, message_cache, channel_message_ids, cache_complete,
                     app_pc, request, taken, queried, rows>>
  PROVE  LogInv' /\ RequestInv'
<1>1. LogInv'
  BY DEF LogInv, Merging
<1>2. RequestInv'
  BY DEF RequestInv, AssignInv, AnswerInv
<1> QED BY <1>1, <1>2

(* A process that is not running has empty logs and no request. *)
LEMMA EndedReply ==
  ASSUME StoreInv', ~ Running'
  PROVE  LogInv' /\ RequestInv'
<1>1. /\ message_cache' = {} /\ app_pc' = "idle"
      /\ \A c \in Channels : channel_message_ids'[c] = {} /\ cache_complete'[c] = FALSE
  BY DEF StoreInv, NotRunningInv
<1>2. LogInv'
  BY <1>1 DEF LogInv
<1>3. RequestInv'
  BY <1>1 DEF RequestInv, AssignInv, AnswerInv
<1> QED BY <1>2, <1>3

(* A message that is not in its log is older than the process, so it is    *)
(* not waiting to be persisted: the query can see it.                      *)
LEMMA OutsideLogIsVisible ==
  ASSUME StoreInv, Running, NEW c \in Channels, NEW i \in ChannelIds(sent, c),
         i \notin channel_message_ids[c]
  PROVE  \E m \in VisibleRows : m.channel = c /\ m.id = i
<1>1. PICK m \in sent : m.channel = c /\ m.id = i
  BY DEF ChannelIds
<1>2. ~ (m.id >= first_id)
  BY <1>1 DEF StoreInv, RecentInv
<1>3. m \notin Queued
  BY <1>2 DEF StoreInv, RecentInv
<1>4. m \in VisibleRows
  BY <1>3 DEF StoreInv, NothingForgottenInv
<1> QED BY <1>1, <1>4

(* CreateMessage puts the new message at the end of its log. *)
LEMMA CreateReply ==
  ASSUME StoreInv, StoreInv', LogInv, RequestInv, NEW c \in Channels, CreateMessage(c)
  PROVE  LogInv' /\ RequestInv'
<1> DEFINE m == [id |-> next_id, channel |-> c]
<1>1. Running /\ app_pc = "idle" /\ m.id = next_id /\ m.channel = c
  BY DEF CreateMessage, Serving, Running
<1>2. channel_message_ids' = [channel_message_ids EXCEPT ![c] = channel_message_ids[c] \cup {next_id}]
  BY <1>1 DEF CreateMessage, StoreInv, RecentInv
<1>3. /\ sent' = sent \cup {m} /\ message_cache' = CacheInsert(message_cache, m)
      /\ UNCHANGED <<cache_complete, app_pc, request, taken, queried, rows>>
  BY DEF CreateMessage, appVars
<1> HIDE DEF m
<1>4. /\ channel_message_ids'[c] = channel_message_ids[c] \cup {next_id}
      /\ \A d \in Channels \ {c} : channel_message_ids'[d] = channel_message_ids[d]
  BY <1>2 DEF StoreInv, TypeOK
<1>5. /\ ChannelIds(sent', c) = ChannelIds(sent, c) \cup {next_id}
      /\ \A d \in Channels \ {c} : ChannelIds(sent', d) = ChannelIds(sent, d)
  BY <1>1, <1>3 DEF ChannelIds
<1>6. /\ m \in message_cache' /\ message_cache' \subseteq sent'
      /\ \A i : (\E x \in message_cache : x.id = i) => \E x \in message_cache' : x.id = i
  BY <1>1, <1>3 DEF CacheInsert, RequestInv
<1>7. \A d \in Channels : Merging(d) = {} /\ Merging(d)' = {}
  BY <1>1, <1>3 DEF Merging
<1>8. \A i \in ChannelIds(sent, c) : i < next_id
  BY <1>1 DEF StoreInv, IdInv, ChannelIds
<1>9. LogInv'
  <2> SUFFICES ASSUME NEW d \in Channels
               PROVE  /\ channel_message_ids'[d] \subseteq ChannelIds(sent', d)
                      /\ \A i \in channel_message_ids'[d] : \E x \in message_cache' : x.id = i
                      /\ \A i \in ChannelIds(sent', d) \ channel_message_ids'[d] :
                           \A j \in channel_message_ids'[d] : i < j
                      /\ cache_complete'[d] => ChannelIds(sent', d) \subseteq channel_message_ids'[d] \cup Merging(d)'
    BY DEF LogInv
  <2>1. /\ channel_message_ids[d] \subseteq ChannelIds(sent, d)
        /\ \A i \in channel_message_ids[d] : \E x \in message_cache : x.id = i
        /\ \A i \in ChannelIds(sent, d) \ channel_message_ids[d] :
             \A j \in channel_message_ids[d] : i < j
        /\ cache_complete[d] => ChannelIds(sent, d) \subseteq channel_message_ids[d]
    BY <1>1, <1>7 DEF LogInv
  <2>2. CASE d = c
    <3>1. channel_message_ids'[c] \subseteq ChannelIds(sent', c)
      BY <1>4, <1>5, <2>1, <2>2
    <3>2. \A i \in channel_message_ids'[c] : \E x \in message_cache' : x.id = i
      BY <1>1, <1>4, <1>6, <2>1, <2>2
    <3>3. \A i \in ChannelIds(sent', c) \ channel_message_ids'[c] :
             \A j \in channel_message_ids'[c] : i < j
      BY <1>4, <1>5, <1>8, <2>1, <2>2
    <3>4. cache_complete'[c] => ChannelIds(sent', c) \subseteq channel_message_ids'[c]
      BY <1>3, <1>4, <1>5, <2>1, <2>2
    <3> QED BY <2>2, <3>1, <3>2, <3>3, <3>4
  <2>3. CASE d # c
    BY <1>3, <1>4, <1>5, <1>6, <1>7, <2>1, <2>3
  <2> QED BY <2>2, <2>3
<1>10. RequestInv'
  BY <1>1, <1>3, <1>6 DEF RequestInv, AssignInv, AnswerInv
<1> QED BY <1>9, <1>10

(* HandleGetChats takes the end of the log; the query, if there is one,    *)
(* returns the latest of what the log leaves out, and fewer rows than      *)
(* asked for only if it returns all of it.                                 *)
LEMMA GetChatsReply ==
  ASSUME StoreInv, StoreInv', LogInv, RequestInv,
         NEW c \in Channels, NEW n \in Limits, HandleGetChats(c, n)
  PROVE  LogInv' /\ RequestInv'
<1> DEFINE log == channel_message_ids[c]
           cached == LatestIds(log, n)
           result == GetChatMessagesBefore(c, cached, n - Cardinality(cached))
           all == ChannelIds(sent, c)
           older == all \ log
           k == n - Cardinality(log)
<1>1. /\ app_pc = "idle" /\ Running /\ Running'
      /\ request'.channel = c /\ request'.limit = n /\ taken' = cached
      /\ UNCHANGED <<sent, message_cache, channel_message_ids>>
  BY DEF HandleGetChats, Serving, Running
<1>2. all \subseteq MessageId /\ log \subseteq all /\ n \in Nat /\ Cardinality(log) \in Nat
      /\ IsFiniteSet(log)
  <2>1. all \subseteq MessageId /\ log \subseteq MessageId
    BY IdsOfChannel
  <2> QED BY <2>1, FiniteIds, ConstantsAssumption DEF LogInv
<1>3. \A i \in older, j \in log : i < j
  BY <1>1 DEF LogInv
<1>4. \A d \in Channels : cache_complete[d] => ChannelIds(sent, d) \subseteq channel_message_ids[d]
  BY <1>1 DEF LogInv, Merging
<1>5. \A i \in log : \E m \in message_cache : m.id = i
  BY DEF LogInv
<1>6. ASSUME \A d \in Channels : cache_complete'[d] =>
               ChannelIds(sent, d) \subseteq channel_message_ids[d] \cup Merging(d)'
      PROVE  LogInv'
  BY <1>1, <1>6 DEF LogInv
<1>7. message_cache' \subseteq sent' /\ (app_pc' # "idle" => request'.limit \in Limits)
  BY <1>1 DEF RequestInv
<1>8. CASE /\ n # 0
           /\ log = {} \/ (~ cache_complete[c] /\ Cardinality(log) < n)
           /\ queried' = {m.id : m \in result}
           /\ rows' = result
           /\ cache_complete' =
                 [cache_complete EXCEPT ![c] = @ \/ Cardinality(result) < n - Cardinality(cached)]
           /\ app_pc' = IF result = {} THEN "reply" ELSE "assign"
  <2>1. Cardinality(log) < n
    BY <1>2, <1>8, FS_EmptySet
  <2>2. cached = log
    BY <1>2, <2>1, LatestAll
  <2>3. k \in Nat /\ k >= 1
    BY <1>2, <2>1
  <2>4. result = {m \in VisibleRows : m.channel = c /\ m.id \in LatestIds(older, k)}
    <3>1. ASSUME NEW i \in older PROVE i \in ChannelIds(VisibleRows, c)
      BY <1>1, OutsideLogIsVisible DEF ChannelIds
    <3>2. ASSUME NEW i \in ChannelIds(VisibleRows, c) PROVE i \in all /\ i \in Nat
      <4>1. i \in all
        BY DEF ChannelIds, VisibleRows, StoreInv, IdInv
      <4> QED BY <1>2, <4>1, MessageIdFacts
    <3>3. {i \in ChannelIds(VisibleRows, c) : \A j \in cached : i < j} = older
      <4> HIDE DEF log, cached, all, result
      <4> QED BY <1>3, <2>2, <3>1, <3>2
    <3> HIDE DEF older, cached
    <3> QED BY <2>2, <3>3 DEF GetChatMessagesBefore
  <2> HIDE DEF result
  <2>5. queried' = LatestIds(older, k)
    <3>1. ASSUME NEW i \in LatestIds(older, k) PROVE \E m \in result : m.id = i
      <4>1. i \in older
        BY DEF LatestIds
      <4>2. \E m \in VisibleRows : m.channel = c /\ m.id = i
        BY <1>1, <4>1, OutsideLogIsVisible
      <4> QED BY <2>4, <4>2
    <3>2. \A m \in result : m.id \in LatestIds(older, k)
      BY <2>4
    <3> QED BY <1>8, <3>1, <3>2
  <2>6. Cardinality(queried') = Cardinality(result)
    <3>1. result \subseteq sent /\ result \subseteq Message
      BY <2>4 DEF StoreInv, IdInv, TypeOK, VisibleRows
    <3>2. \A x, y \in result : x.id = y.id => x = y
      BY <3>1 DEF StoreInv, IdInv
    <3> QED BY <1>8, <3>1, <3>2, IdsOfMessages
  <2> HIDE DEF older, all, log, cached, k
  <2>7. older \subseteq MessageId /\ older = all \ log
    BY <1>2 DEF older
  <2>8. Cardinality(result) < k => queried' = older
    BY <2>3, <2>5, <2>6, <2>7, LatestFewer
  <2>9. result = {} => all = log
    <3> SUFFICES ASSUME result = {} PROVE all = log
      OBVIOUS
    <3>1. Cardinality(result) < k
      BY <2>3, FS_EmptySet
    <3>2. queried' = {} /\ queried' = older
      BY <1>8, <2>8, <3>1
    <3> QED BY <1>2, <2>7, <3>2
  <2>10. LogInv'
    <3> SUFFICES ASSUME NEW d \in Channels, cache_complete'[d]
                 PROVE  ChannelIds(sent, d) \subseteq channel_message_ids[d] \cup Merging(d)'
      BY <1>6
    <3>1. CASE cache_complete[d]
      BY <1>4, <3>1
    <3>2. CASE ~ cache_complete[d]
      <4>1. d = c /\ Cardinality(result) < n - Cardinality(cached)
        BY <1>8, <3>2 DEF StoreInv, TypeOK
      <4>2. queried' = older
        BY <2>2, <2>8, <4>1 DEF k
      <4>3. CASE result = {}
        BY <2>9, <4>1, <4>3 DEF all, log
      <4>4. CASE result # {}
        <5>1. Merging(d)' = older
          BY <1>1, <1>8, <4>1, <4>2, <4>4 DEF Merging
        <5> QED BY <2>7, <4>1, <5>1 DEF all, log
      <4> QED BY <4>3, <4>4
    <3> QED BY <3>1, <3>2
  <2>11. AssignInv'
    <3>1. taken' = channel_message_ids'[c] /\ taken' = log
      BY <1>1, <2>2 DEF log
    <3>2. queried' = LatestIds(ChannelIds(sent', c) \ taken', n - Cardinality(taken'))
      BY <1>1, <2>5, <2>7, <3>1 DEF all, k
    <3>3. \A i \in queried' : \E m \in rows' : m.id = i
      BY <1>8
    <3> QED BY <1>1, <2>1, <3>1, <3>2, <3>3 DEF AssignInv
  <2>12. AnswerInv'
    <3> SUFFICES ASSUME app_pc' = "reply"
                 PROVE  /\ taken' \cup queried' = LatestIds(ChannelIds(sent', c), n)
                        /\ \A i \in taken' \cup queried' : \E m \in message_cache' : m.id = i
      BY <1>1 DEF AnswerInv
    <3>1. result = {} /\ queried' = {} /\ all = log
      BY <1>8, <2>9
    <3>2. LatestIds(all, n) = log
      BY <1>2, <2>1, <3>1, LatestAll
    <3> QED BY <1>1, <1>5, <2>2, <3>1, <3>2 DEF all
  <2> QED BY <1>7, <2>10, <2>11, <2>12 DEF RequestInv
<1>9. CASE /\ n = 0 \/ (log # {} /\ (cache_complete[c] \/ n <= Cardinality(log)))
           /\ queried' = {} /\ rows' = {}
           /\ app_pc' = "reply"
           /\ UNCHANGED cache_complete
  <2>1. LogInv'
    BY <1>4, <1>6, <1>9
  <2>2. cached = LatestIds(all, n)
    <3>1. CASE n = 0
      <4>1. ASSUME NEW S, S \subseteq MessageId PROVE LatestIds(S, 0) = {}
        <5>1. ASSUME NEW i \in S PROVE Cardinality({j \in S : j > i}) \in Nat
          BY <4>1, IdsAbove
        <5> QED BY <5>1 DEF LatestIds
      <4>2. log \subseteq MessageId
        BY <1>2
      <4> HIDE DEF log, all
      <4> QED BY <1>2, <3>1, <4>1, <4>2
    <3>2. CASE cache_complete[c]
      <4>1. all = log
        BY <1>2, <1>4, <3>2
      <4> QED BY <4>1
    <3>3. CASE n <= Cardinality(log)
      <4> HIDE DEF log, all
      <4> QED BY <1>2, <1>3, <3>3, LatestOfUpper
    <3> QED BY <1>9, <3>1, <3>2, <3>3
  <2>3. cached \subseteq log
    BY DEF LatestIds
  <2>4. AnswerInv'
    <3> HIDE DEF cached, log
    <3> QED BY <1>1, <1>5, <1>9, <2>2, <2>3 DEF AnswerInv
  <2>5. AssignInv'
    BY <1>9 DEF AssignInv
  <2> QED BY <1>7, <2>1, <2>4, <2>5 DEF RequestInv
<1> QED BY <1>8, <1>9 DEF HandleGetChats

(* AssignMessage moves one row of the query into the cache. *)
LEMMA AssignReply ==
  ASSUME StoreInv, LogInv, RequestInv, AssignMessage
  PROVE  LogInv' /\ RequestInv'
<1>1. PICK m \in rows : message_cache' = CacheInsert(message_cache, m) /\ rows' = rows \ {m}
  BY DEF AssignMessage
<1>2. /\ app_pc = "assign" /\ Running /\ m \in sent
      /\ UNCHANGED <<sent, app_pc, request, taken, queried, phase, channel_message_ids, cache_complete>>
  BY DEF AssignMessage, StoreInv, NotRunningInv, RecentInv
<1>3. /\ m \in message_cache' /\ message_cache' \subseteq sent'
      /\ \A i : (\E x \in message_cache : x.id = i) => \E x \in message_cache' : x.id = i
  BY <1>1, <1>2 DEF CacheInsert, RequestInv
<1>4. LogInv'
  <2>1. Running' = Running /\ \A d : Merging(d)' = Merging(d)
    BY <1>2 DEF Running, Merging
  <2> QED BY <1>2, <1>3, <2>1 DEF LogInv
<1>5. AssignInv'
  <2>1. \A i \in queried : (\E x \in rows : x.id = i) \/ (\E x \in message_cache : x.id = i)
    BY <1>2 DEF RequestInv, AssignInv
  <2>2. \A i \in queried : (\E x \in rows' : x.id = i) \/ (\E x \in message_cache' : x.id = i)
    BY <1>1, <1>3, <2>1
  <2> QED BY <1>2, <2>2 DEF RequestInv, AssignInv
<1>6. AnswerInv'
  BY <1>2 DEF AnswerInv
<1> QED BY <1>2, <1>3, <1>4, <1>5, <1>6 DEF RequestInv

(* AssignMessageIds merges what the query returned into the log; together  *)
(* they are the latest messages, and still the upper part of the channel.  *)
LEMMA MergeReply ==
  ASSUME StoreInv, LogInv, RequestInv, AssignMessageIds
  PROVE  LogInv' /\ RequestInv'
<1> DEFINE c == request.channel
           n == request.limit
           all == ChannelIds(sent, c)
           log == channel_message_ids[c]
           k == n - Cardinality(log)
<1>1. /\ app_pc = "assign" /\ rows = {} /\ app_pc' = "reply" /\ Running /\ Running'
      /\ channel_message_ids' = [channel_message_ids EXCEPT ![c] = channel_message_ids[c] \cup queried]
      /\ UNCHANGED <<sent, message_cache, cache_complete, request, taken, queried>>
  BY DEF AssignMessageIds, StoreInv, NotRunningInv, Running
<1>2. c \in Channels /\ n \in Nat
  BY DEF StoreInv, TypeOK
<1>3. /\ taken = log /\ Cardinality(log) < n
      /\ queried = LatestIds(all \ log, k)
      /\ \A i \in queried : \E m \in message_cache : m.id = i
  BY <1>1 DEF RequestInv, AssignInv
<1>4. all \subseteq MessageId /\ log \subseteq all /\ Cardinality(log) \in Nat
  <2>1. log \subseteq MessageId /\ all \subseteq MessageId
    BY <1>2, IdsOfChannel
  <2> QED BY <1>2, <2>1, FiniteIds DEF LogInv
<1>5. \A i \in all \ log, j \in log : i < j
  BY <1>1, <1>2 DEF LogInv
<1>6. queried \subseteq all \ log
  BY <1>3 DEF LatestIds
<1>7. /\ channel_message_ids'[c] = log \cup queried
      /\ \A d \in Channels \ {c} : channel_message_ids'[d] = channel_message_ids[d]
  BY <1>1, <1>2 DEF StoreInv, TypeOK
<1> HIDE DEF c, n, log, all, k
<1>8. taken \cup queried = LatestIds(all, n)
  BY <1>2, <1>3, <1>4, <1>5, LatestInTwoParts DEF k
<1>9. \A i \in all \ (log \cup queried), j \in log \cup queried : i < j
  <2> SUFFICES ASSUME NEW i \in all \ log, i \notin queried, NEW j \in queried PROVE i < j
    BY <1>5
  <2>1. all \ log \subseteq MessageId /\ k \in Int
    BY <1>2, <1>4 DEF k
  <2> QED BY <1>3, <2>1, LatestIsUpper
<1>10. \A i \in log : \E m \in message_cache : m.id = i
  BY <1>2 DEF LogInv, log
<1>11. LogInv'
  <2> SUFFICES ASSUME NEW d \in Channels
               PROVE  /\ channel_message_ids'[d] \subseteq ChannelIds(sent', d)
                      /\ \A i \in channel_message_ids'[d] : \E x \in message_cache' : x.id = i
                      /\ \A i \in ChannelIds(sent', d) \ channel_message_ids'[d] :
                           \A j \in channel_message_ids'[d] : i < j
                      /\ cache_complete'[d] => ChannelIds(sent', d) \subseteq channel_message_ids'[d]
    BY DEF LogInv
  <2>1. CASE d = c
    <3>1. ChannelIds(sent', d) = all /\ channel_message_ids'[d] = log \cup queried
      BY <1>1, <1>7, <2>1 DEF all
    <3>2. cache_complete[d] => all \subseteq log \cup queried
      BY <1>1, <2>1 DEF LogInv, Merging, all, log, c
    <3>3. \A i \in log \cup queried : \E x \in message_cache' : x.id = i
      BY <1>1, <1>3, <1>10
    <3> QED BY <1>1, <1>4, <1>6, <1>9, <3>1, <3>2, <3>3
  <2>2. CASE d # c
    <3>1. Merging(d) = {}
      BY <2>2 DEF Merging, c
    <3>2. channel_message_ids'[d] = channel_message_ids[d]
      BY <1>7, <2>2
    <3> QED BY <1>1, <3>1, <3>2 DEF LogInv
  <2> QED BY <2>1, <2>2
<1>12. AnswerInv'
  <2>1. taken' \cup queried' = LatestIds(ChannelIds(sent', request'.channel), request'.limit)
    BY <1>1, <1>8 DEF all, c, n
  <2>2. \A i \in taken' \cup queried' : \E m \in message_cache' : m.id = i
    BY <1>1, <1>3, <1>10
  <2> QED BY <2>1, <2>2 DEF AnswerInv
<1>13. AssignInv'
  BY <1>1 DEF AssignInv
<1> QED BY <1>1, <1>11, <1>12, <1>13 DEF RequestInv

LEMMA SendReplyInv ==
  ASSUME LogInv, RequestInv, SendReply
  PROVE  LogInv' /\ RequestInv'
<1>1. /\ app_pc = "reply" /\ app_pc' = "idle"
      /\ UNCHANGED <<sent, message_cache, channel_message_ids, cache_complete, phase>>
  BY DEF SendReply, logVars
<1>2. Running' = Running /\ \A d : Merging(d)' = Merging(d)
  BY <1>1 DEF Running, Merging
<1>3. LogInv'
  BY <1>1, <1>2 DEF LogInv
<1> QED BY <1>1, <1>3 DEF RequestInv, AssignInv, AnswerInv

(* Prewarm loads the latest rows of every channel into cache and log. *)
LEMMA PrewarmReply ==
  ASSUME StoreInv, Prewarm
  PROVE  LogInv' /\ RequestInv'
<1> DEFINE loaded == UNION {GetChatMessagesBefore(c, {}, PrewarmMessageCount) : c \in Channels}
<1>1. ~ Running /\ UNCHANGED <<db, txn, sent, cache_complete, app_pc>>
  BY DEF Prewarm, Running, dbVars, appVars
<1>2. /\ sent = db /\ txn = {} /\ message_cache = {} /\ app_pc = "idle"
      /\ \A c \in Channels : channel_message_ids[c] = {} /\ cache_complete[c] = FALSE
  BY <1>1 DEF Prewarm, StoreInv, NotRunningInv
<1>3. VisibleRows = sent
  BY <1>2 DEF VisibleRows
<1>4. \A c \in Channels : channel_message_ids'[c] = LatestIds(ChannelIds(sent, c), PrewarmMessageCount)
  BY <1>2, <1>3 DEF Prewarm
<1>5. message_cache' = loaded
  BY <1>2 DEF Prewarm
<1>6. \A c \in Channels : GetChatMessagesBefore(c, {}, PrewarmMessageCount) =
        {m \in sent : m.channel = c /\ m.id \in LatestIds(ChannelIds(sent, c), PrewarmMessageCount)}
  <2>1. \A S : {i \in S : \A j \in {} : i < j} = S
    OBVIOUS
  <2> QED BY <1>3, <2>1 DEF GetChatMessagesBefore
<1>7. loaded \subseteq sent
  BY <1>6
<1>8. ASSUME NEW c \in Channels, NEW i \in LatestIds(ChannelIds(sent, c), PrewarmMessageCount)
      PROVE  \E m \in loaded : m.id = i
  <2>1. PICK m \in sent : m.channel = c /\ m.id = i
    BY DEF LatestIds, ChannelIds
  <2>2. m \in GetChatMessagesBefore(c, {}, PrewarmMessageCount)
    BY <1>6, <2>1
  <2> QED BY <2>1, <2>2
<1> HIDE DEF loaded
<1>9. ASSUME NEW c \in Channels
      PROVE  /\ channel_message_ids'[c] \subseteq ChannelIds(sent, c)
             /\ \A i \in channel_message_ids'[c] : \E m \in message_cache' : m.id = i
             /\ \A i \in ChannelIds(sent, c) \ channel_message_ids'[c] :
                  \A j \in channel_message_ids'[c] : i < j
             /\ cache_complete'[c] = FALSE
  <2>1. ChannelIds(sent, c) \subseteq MessageId
    BY IdsOfChannel
  <2>2. \A i \in ChannelIds(sent, c) \ channel_message_ids'[c] :
          \A j \in channel_message_ids'[c] : i < j
    BY <1>4, <2>1, LatestIsUpper, ConstantsAssumption
  <2>3. channel_message_ids'[c] \subseteq ChannelIds(sent, c)
    BY <1>4 DEF LatestIds
  <2>4. \A i \in channel_message_ids'[c] : \E m \in message_cache' : m.id = i
    BY <1>4, <1>5, <1>8
  <2> QED BY <1>1, <1>2, <2>2, <2>3, <2>4
<1>10. LogInv'
  BY <1>1, <1>9 DEF LogInv
<1>11. RequestInv'
  BY <1>1, <1>2, <1>5, <1>7 DEF RequestInv, AssignInv, AnswerInv
<1> QED BY <1>10, <1>11

LEMMA ReplyStep ==
  StoreInv /\ StoreInv' /\ LogInv /\ RequestInv /\ [Next]_vars => LogInv' /\ RequestInv'
<1> SUFFICES ASSUME StoreInv, StoreInv', LogInv, RequestInv, [Next]_vars
             PROVE  LogInv' /\ RequestInv'
  OBVIOUS
<1>1. CASE AppNext
  BY <1>1, CreateReply, GetChatsReply, AssignReply, MergeReply, SendReplyInv DEF AppNext
<1>2. CASE ~ Running'
  BY <1>2, EndedReply
<1>3. ASSUME \/ SchedulerDue \/ BeginShutdown \/ StopApplication \/ UNCHANGED vars
             \/ \E t \in Persisters : PersistNext(t)
      PROVE  LogInv' /\ RequestInv'
  <2>1. CASE ProcessEnds("crashed")
    BY <1>2, <2>1 DEF ProcessEnds, Running
  <2>2. CASE ~ ProcessEnds("crashed")
    <3>1. UNCHANGED <<sent, message_cache, channel_message_ids, cache_complete,
                      app_pc, request, taken, queried, rows>>
      BY <1>3, <2>2 DEF SchedulerDue, BeginShutdown, StopApplication, vars, PersistNext, PersistSwap,
         SwapOut, NothingToPersist, PersistBegin, PersistInsert, PersistCommit, PersistEnd,
         appVars, logVars
    <3>2. phase' = phase \/ phase \in {"up", "closing"}
      BY <1>3, <2>2 DEF SchedulerDue, BeginShutdown, StopApplication, vars, PersistNext, PersistSwap,
         SwapOut, NothingToPersist, PersistBegin, PersistInsert, PersistCommit, PersistEnd
    <3>3. Running' => Running
      BY <3>2 DEF Running
    <3> QED BY <3>1, <3>3, ReplyFrame
  <2> QED BY <2>1, <2>2
<1>4. CASE Prewarm
  BY <1>4, PrewarmReply
<1>5. CASE Exit \/ Crash \/ Restart
  <2>1. ~ Running'
    BY <1>5 DEF Exit, Crash, Restart, ProcessEnds, Running
  <2> QED BY <1>2, <2>1
<1> QED BY <1>1, <1>3, <1>4, <1>5 DEF Next, LifeNext

(* What the answers rest on: every log is the upper part of its channel,   *)
(* a complete one the whole of it, and a request has collected the latest  *)
(* ids, all of them cached.                                                *)
THEOREM ReplyInvariant == Spec => []ReplyInv
<1>1. Init => PrefixInv /\ LogInv /\ RequestInv
  BY DEF Init, FreshStore, PrefixInv, LogInv, RequestInv, AssignInv, AnswerInv, Running
<1>2. ReplyInv /\ StoreInv' /\ [Next]_vars => ReplyInv'
  BY PrefixStep, ReplyStep DEF ReplyInv
<1>3. Init => ReplyInv
  BY <1>1, InitStoreInv DEF ReplyInv
<1> QED BY <1>2, <1>3, StoreInvariant, PTL DEF Spec

LEMMA RepliesExact == ReplyInv => GetChatsExact
<1> SUFFICES ASSUME StoreInv, RequestInv, app_pc = "reply"
             PROVE  /\ Reply \subseteq sent
                    /\ \A m \in Reply : m.channel = request.channel
                    /\ {m.id : m \in Reply} =
                         LatestIds(ChannelIds(sent, request.channel), request.limit)
  BY DEF ReplyInv, GetChatsExact
<1>1. /\ taken \cup queried = LatestIds(ChannelIds(sent, request.channel), request.limit)
      /\ \A i \in taken \cup queried : \E m \in message_cache : m.id = i
      /\ message_cache \subseteq sent
  BY DEF RequestInv, AnswerInv
<1>2. Reply \subseteq sent /\ {m.id : m \in Reply} = taken \cup queried
  BY <1>1 DEF Reply
<1>3. ASSUME NEW m \in Reply PROVE m.channel = request.channel
  <2>1. m.id \in ChannelIds(sent, request.channel) /\ m \in sent
    BY <1>1, <1>2 DEF LatestIds
  <2>2. PICK x \in sent : x.channel = request.channel /\ x.id = m.id
    BY <2>1 DEF ChannelIds
  <2> QED BY <2>1, <2>2 DEF StoreInv, IdInv
<1> QED BY <1>1, <1>2, <1>3

(* Every answer to GetChats is exactly the latest messages of its channel, *)
(* however much of it was cached and whatever Persist was doing between    *)
(* the query, the rows and the reply.                                      *)
THEOREM AnswersAreExact == Spec => []GetChatsExact
BY ReplyInvariant, RepliesExact, PTL

-----------------------------------------------------------------------------
(* The store implements ChatHistory.                                       *)

LEMMA AnswerKept ==
  ASSUME \/ app_pc # "reply" /\ app_pc' # "reply"
         \/ UNCHANGED <<app_pc, request, taken, queried, message_cache>>
  PROVE  AnswerGiven' = AnswerGiven
BY DEF AnswerGiven, Reply

(* A request that has its answer is an Answer of ChatHistory. *)
LEMMA AnswerStep ==
  ASSUME ReplyInv', app_pc # "reply", app_pc' = "reply", UNCHANGED <<sent, db>>
  PROVE  History!Next
<1> DEFINE c == request'.channel
           n == request'.limit
<1>1. c \in Channels /\ n \in Limits
  BY DEF ReplyInv, StoreInv, TypeOK, RequestInv
<1>2. GetChatsExact'
  BY RepliesExact, PTL
<1>3. {m.id : m \in Reply'} = History!Newest(History!IdsOf(c), n)
  <2>1. \A S : History!Cardinality(S) = Cardinality(S)
    BY DEF History!Cardinality, Cardinality
  <2> QED BY <1>2, <2>1 DEF GetChatsExact, LatestIds, ChannelIds, History!Newest, History!IdsOf
<1>4. AnswerGiven = <<>> /\ AnswerGiven' = <<[channel |-> c, limit |-> n, ids |-> {m.id : m \in Reply'}]>>
  BY DEF AnswerGiven
<1>5. History!Answer(c, n)
  BY <1>3, <1>4 DEF History!Answer
<1> QED BY <1>1, <1>5 DEF History!Next

(* A CreateMessage is a Post of ChatHistory: its id is above all others. *)
LEMMA PostStep ==
  ASSUME ReplyInv, NEW c \in Channels, CreateMessage(c)
  PROVE  History!Next
<1> DEFINE m == [id |-> next_id, channel |-> c]
<1>1. /\ app_pc = "idle" /\ Running /\ m.id = next_id /\ m.channel = c
      /\ sent' = sent \cup {m} /\ UNCHANGED <<db, app_pc>>
  BY DEF CreateMessage, Serving, Running, dbVars, appVars
<1> HIDE DEF m
<1>2. \A x \in sent : x.id < m.id /\ x.id \in Nat
  BY <1>1, MessageFacts DEF ReplyInv, StoreInv, IdInv, TypeOK
<1>3. m \in sent' \ sent
  BY <1>1, <1>2
<1>4. AnswerGiven = <<>> /\ AnswerGiven' = <<>>
  BY <1>1 DEF AnswerGiven
<1>5. History!Post(c)
  BY <1>1, <1>2, <1>3, <1>4 DEF History!Post
<1> QED BY <1>5 DEF History!Next

(* However the process ends, what is not durable is forgotten, or nothing. *)
LEMMA EndStep ==
  ASSUME NEW e \in {"crashed", "exited"}, ProcessEnds(e)
  PROVE  History!Next
<1>1. AnswerGiven' = <<>> /\ db' = db /\ (sent' = db \/ sent' = sent)
  BY DEF ProcessEnds, AnswerGiven
<1> QED BY <1>1 DEF History!Next, History!Forget, History!Answered

LEMMA HistoryStep == ReplyInv /\ ReplyInv' /\ [Next]_vars => [History!Next]_(History!vars)
<1> SUFFICES ASSUME ReplyInv, ReplyInv', [Next]_vars
             PROVE  History!Next \/ UNCHANGED <<sent, db, AnswerGiven>>
  BY DEF History!vars
<1>1. ASSUME NEW c \in Channels, CreateMessage(c) PROVE History!Next
  BY <1>1, PostStep
<1>2. ASSUME NEW c \in Channels, NEW n \in Limits, HandleGetChats(c, n)
      PROVE  History!Next \/ UNCHANGED <<sent, db, AnswerGiven>>
  <2>1. app_pc = "idle" /\ UNCHANGED <<sent, db>> /\ app_pc' \in {"assign", "reply"}
    BY <1>2 DEF HandleGetChats, dbVars
  <2>2. CASE app_pc' = "reply"
    BY <2>1, <2>2, AnswerStep
  <2>3. CASE app_pc' = "assign"
    BY <2>1, <2>3, AnswerKept
  <2> QED BY <2>1, <2>2, <2>3
<1>3. CASE AssignMessageIds
  <2>1. app_pc = "assign" /\ app_pc' = "reply" /\ UNCHANGED <<sent, db>>
    BY <1>3 DEF AssignMessageIds, dbVars
  <2> QED BY <2>1, AnswerStep
<1>4. CASE SendReply
  <2>1. AnswerGiven' = <<>> /\ UNCHANGED <<sent, db>>
    BY <1>4 DEF SendReply, AnswerGiven, dbVars
  <2> QED BY <2>1 DEF History!Next, History!Answered
<1>5. ASSUME NEW t \in Persisters, PersistCommit(t) PROVE History!Next
  <2>1. db' = db \cup txn /\ UNCHANGED <<sent, app_pc, request, taken, queried, message_cache>>
    BY <1>5 DEF PersistCommit, appVars, logVars
  <2>2. db \subseteq sent /\ txn \subseteq sent
    BY DEF ReplyInv, StoreInv, IdInv
  <2>3. AnswerGiven' = AnswerGiven
    BY <2>1, AnswerKept
  <2> QED BY <2>1, <2>2, <2>3 DEF History!Next, History!Flush
<1>6. CASE ProcessEnds("crashed") \/ ProcessEnds("exited")
  BY <1>6, EndStep
<1>7. CASE Restart
  <2>1. sent' = db /\ db' = db /\ ~ Running /\ app_pc' = app_pc
    BY <1>7 DEF Restart, Running, dbVars, appVars
  <2>2. app_pc = "idle"
    BY <2>1 DEF ReplyInv, StoreInv, NotRunningInv
  <2>3. AnswerGiven' = <<>>
    BY <2>1, <2>2 DEF AnswerGiven
  <2> QED BY <2>1, <2>3 DEF History!Next, History!Forget
<1>8. ASSUME AssignMessage \/ Prewarm
      PROVE  UNCHANGED <<sent, db, AnswerGiven>>
  <2>1. UNCHANGED <<sent, db, app_pc>>
    BY <1>8 DEF AssignMessage, Prewarm, dbVars, appVars
  <2>2. app_pc # "reply"
    BY <1>8 DEF AssignMessage, Prewarm, ReplyInv, StoreInv, NotRunningInv, Running
  <2> QED BY <2>1, <2>2, AnswerKept
<1>9. ASSUME \/ SchedulerDue \/ BeginShutdown \/ StopApplication \/ UNCHANGED vars
             \/ \E t \in Persisters : \/ PersistSwap(t) \/ PersistEnd(t)
                                      \/ PersistBegin(t) \/ PersistInsert(t),
             ~ ProcessEnds("crashed")
      PROVE  UNCHANGED <<sent, db, AnswerGiven>>
  <2>1. UNCHANGED <<sent, db, app_pc, request, taken, queried, message_cache>>
    BY <1>9 DEF SchedulerDue, BeginShutdown, StopApplication, vars, PersistSwap, SwapOut,
       NothingToPersist, PersistBegin, PersistInsert, PersistEnd, dbVars, appVars, logVars
  <2> QED BY <2>1, AnswerKept
<1> QED BY <1>1, <1>2, <1>3, <1>4, <1>5, <1>6, <1>7, <1>8, <1>9
        DEF Next, AppNext, PersistNext, LifeNext, Exit, Crash

(* The store with its caches, threads and crashes implements ChatHistory:  *)
(* its clients see a history in which ids grow, a crash forgets exactly    *)
(* what was not durable, and every answer is the latest of the channel.    *)
THEOREM StoreImplementsHistory == Spec => ImplementsHistory
<1>1. Init => History!Init
  BY DEF Init, FreshStore, History!Init, AnswerGiven
<1> QED BY <1>1, HistoryStep, ReplyInvariant, PTL DEF Spec, ImplementsHistory, History!Spec

=============================================================================
