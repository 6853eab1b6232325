---------------------------- MODULE NetworkProofs ----------------------------
(***************************************************************************)
(* Proofs about the two ends of a message's way, BoostTcpConnection, which *)
(* writes it, and TcpMessageProcessor, which hands it to its handler, for  *)
(* any threads, connections and number of messages: no frame is lost or    *)
(* sent twice; as long as nobody calls SendBytes while a frame is on its   *)
(* way, frames arrive whole and in order; and messages are handled in the  *)
(* order of their arrival.                                                 *)
(***************************************************************************)
EXTENDS BoostTcpConnection, TcpMessageProcessor, FiniteSetTheorems, SequenceTheorems, TLAPS

-----------------------------------------------------------------------------
(* TcpMessageProcessor.                                                    *)

Msg == Connections \X (1 .. MaxArrivals)

QueuesOK ==
  /\ arrived \in [Connections -> 0 .. MaxArrivals]
  /\ tasks \in Seq(Msg) /\ buffer \in Seq(Msg)
  /\ accepted \in Seq(Msg) /\ handled \in Seq(Msg)

(* Outside of the loop that runs it, the local queue is empty, so that the *)
(* swap with tasks_ overwrites nothing.                                    *)
BufferInv == app_pc # "run" => buffer = <<>>

ProcessorInv == QueuesOK /\ BufferInv /\ InOrderOfArrival

(* Appending to the last of three sequences appends to the whole. *)
LEMMA AppendLast ==
  ASSUME NEW a \in Seq(Msg), NEW b \in Seq(Msg), NEW c \in Seq(Msg), NEW m \in Msg
  PROVE  a \o b \o Append(c, m) = Append(a \o b \o c, m)
OBVIOUS

(* Moving the head of the second to the end of the first changes nothing. *)
LEMMA MoveHead ==
  ASSUME NEW a \in Seq(Msg), NEW b \in Seq(Msg), NEW c \in Seq(Msg), b # <<>>
  PROVE  Append(a, Head(b)) \o Tail(b) \o c = a \o b \o c
<1>1. Append(a, Head(b)) \o Tail(b) = a \o b
  BY SMTT(30)
<1> QED BY <1>1

LEMMA SwapQueues ==
  ASSUME NEW a \in Seq(Msg), NEW c \in Seq(Msg)
  PROVE  a \o c \o <<>> = a \o <<>> \o c
OBVIOUS

LEMMA ProcessorInvInit == ProcessorInit => ProcessorInv
BY ProcessorAssumption DEF ProcessorInit, ProcessorInv, QueuesOK, BufferInv, InOrderOfArrival

(* Enqueue appends to the queue and to what was accepted. *)
LEMMA EnqueueInv ==
  ASSUME ProcessorInv, NEW c \in Connections, Enqueue(c)
  PROVE  ProcessorInv'
<1> DEFINE m == <<c, arrived[c] + 1>>
<1>1. m \in Msg /\ arrived' \in [Connections -> 0 .. MaxArrivals]
  BY ProcessorAssumption DEF ProcessorInv, QueuesOK, Enqueue, Msg
<1>2. CASE stopped
  BY <1>1, <1>2 DEF ProcessorInv, QueuesOK, BufferInv, InOrderOfArrival, Enqueue
<1>3. CASE ~ stopped
  <2> HIDE DEF m
  <2>1. tasks' = Append(tasks, m) /\ accepted' = Append(accepted, m)
        /\ UNCHANGED <<buffer, handled, app_pc>>
    BY <1>3 DEF Enqueue, m
  <2>2. handled \o buffer \o Append(tasks, m) = Append(handled \o buffer \o tasks, m)
    BY <1>1, AppendLast DEF ProcessorInv, QueuesOK
  <2> QED BY <1>1, <2>1, <2>2 DEF ProcessorInv, QueuesOK, BufferInv, InOrderOfArrival
<1> QED BY <1>2, <1>3

(* The swap moves the whole queue behind what was handled. *)
LEMMA ProcessBlockingInv ==
  ASSUME ProcessorInv, ProcessBlocking
  PROVE  ProcessorInv'
<1>1. buffer = <<>> /\ UNCHANGED <<arrived, accepted, handled>>
  BY DEF ProcessorInv, BufferInv, ProcessBlocking, ioVars
<1>2. CASE UNCHANGED <<tasks, buffer>>
  BY <1>1, <1>2 DEF ProcessorInv, QueuesOK, BufferInv, InOrderOfArrival
<1>3. CASE app_pc' = "run" /\ buffer' = tasks /\ tasks' = <<>>
  <2>1. handled \o tasks \o <<>> = handled \o <<>> \o tasks
    BY SwapQueues DEF ProcessorInv, QueuesOK
  <2> QED BY <1>1, <1>3, <2>1 DEF ProcessorInv, QueuesOK, BufferInv, InOrderOfArrival
<1> QED BY <1>2, <1>3 DEF ProcessBlocking

LEMMA RunTaskInv ==
  ASSUME ProcessorInv, RunTask
  PROVE  ProcessorInv'
<1>1. Head(buffer) \in Msg /\ Tail(buffer) \in Seq(Msg)
  BY DEF ProcessorInv, QueuesOK, RunTask
<1>2. Append(handled, Head(buffer)) \o Tail(buffer) \o tasks = handled \o buffer \o tasks
  BY MoveHead DEF ProcessorInv, QueuesOK, RunTask
<1> QED BY <1>1, <1>2 DEF ProcessorInv, QueuesOK, BufferInv, InOrderOfArrival, RunTask, ioVars

LEMMA ProcessorInvStep == ProcessorInv /\ [ProcessorNext]_processorVars => ProcessorInv'
<1> SUFFICES ASSUME ProcessorInv, [ProcessorNext]_processorVars PROVE ProcessorInv'
  OBVIOUS
<1> USE DEF ProcessorInv, QueuesOK, BufferInv, InOrderOfArrival
<1>1. ASSUME NEW c \in Connections, Undecodable(c) PROVE ProcessorInv'
  BY <1>1, ProcessorAssumption DEF Undecodable
<1>2. CASE NotifyOne
  BY <1>2 DEF NotifyOne
<1>3. CASE Wake \/ SpuriousWake
  BY <1>3 DEF Wake, SpuriousWake, ioVars
<1>4. CASE BufferDone \/ ThreadExits
  BY <1>4 DEF BufferDone, ThreadExits, ioVars
<1>5. CASE Stop \/ Join
  BY <1>5 DEF Stop, Join, ioVars
<1>6. CASE UNCHANGED processorVars
  BY <1>6 DEF processorVars, ioVars
<1> QED BY <1>1, <1>2, <1>3, <1>4, <1>5, <1>6, EnqueueInv, ProcessBlockingInv, RunTaskInv
        DEF ProcessorNext, AppNext

(* README, Limitations: payloads are processed in the order of arrival.    *)
(* For any number of connections and messages, what was handled, swapped   *)
(* out and queued is, in this order, all that Enqueue accepted.            *)
THEOREM ProcessedInOrder == ProcessorSpec => []InOrderOfArrival
<1>1. ProcessorInv => InOrderOfArrival
  BY DEF ProcessorInv
<1> QED BY <1>1, ProcessorInvInit, ProcessorInvStep, PTL DEF ProcessorSpec

-----------------------------------------------------------------------------
(* BoostTcpConnection.                                                     *)

Workers == Threads \cup {IO}
Part == [frame : Frame, part : {"length", "payload"}]

LEMMA FrameFacts ==
  \A f \in Frame : /\ f[1] \in Threads /\ f[2] \in Nat /\ f = <<f[1], f[2]>>
                   /\ f # NoFrame
<1> SUFFICES ASSUME NEW f \in Frame
             PROVE  f[1] \in Threads /\ f[2] \in Nat /\ f = <<f[1], f[2]>> /\ f # NoFrame
  OBVIOUS
<1>1. PICK t \in Threads : f \in {t} \X (1 .. Sends[t])
  BY DEF Frame
<1>2. f[1] = t /\ f[2] \in 1 .. Sends[t] /\ f = <<f[1], f[2]>>
  BY <1>1
<1>3. Sends[t] \in Nat
  BY ConnectionAssumption
<1>4. \A a, b : <<a, b>> # <<>>
  OBVIOUS
<1>5. f # NoFrame
  BY <1>2, <1>4, Zenon DEF NoFrame
<1>6. f[2] \in Nat
  BY <1>2, <1>3
<1> QED BY <1>2, <1>5, <1>6

LEMMA NewFrame ==
  ASSUME TypeOK, NEW t \in Threads, sent[t] < Sends[t]
  PROVE  /\ <<t, sent[t] + 1>> \in Frame
         /\ <<t, sent[t] + 1>>[1] = t /\ <<t, sent[t] + 1>>[2] = sent[t] + 1
<1>1. sent[t] \in Nat /\ Sends[t] \in Nat
  BY ConnectionAssumption DEF TypeOK
<1>2. sent[t] + 1 \in 1 .. Sends[t]
  BY <1>1
<1>3. <<t, sent[t] + 1>> \in {t} \X (1 .. Sends[t])
  BY <1>2
<1> QED BY <1>3 DEF Frame

LEMMA PartsFacts == Len(Parts) = 2 /\ Parts[1] = "length" /\ Parts[2] = "payload"
BY DEF Parts

(* What most steps need of the types. *)
LEMMA Types ==
  ASSUME TypeOK
  PROVE  /\ sent \in [Threads -> Nat] /\ pc \in [Workers -> {"idle", "next", "write"}]
         /\ popped \in [Workers -> Frame \cup {NoFrame}]
         /\ outgoing_bytes \in Seq(Frame) /\ Len(outgoing_bytes) \in Nat
         /\ writes \subseteq [frame : Frame, done : 0 .. 2]
         /\ \A w \in writes : w.frame \in Frame /\ w.done \in 0 .. 2
         /\ wire \in Seq(Part) /\ Len(wire) \in Nat
         /\ received \in Seq(Frame) /\ Len(received) \in Nat
BY DEF TypeOK, Workers, Part

LEMMA InitConnectionInv == Init => ConnectionInv
<1> SUFFICES ASSUME Init PROVE ConnectionInv
  OBVIOUS
<1>0. FlagsOK
  BY Zenon DEF Init, FlagsOK
<1>l. Len(outgoing_bytes) = 0 /\ Len(wire) = 0 /\ Len(received) = 0
  BY DEF Init
<1>1. TypeOK
  BY <1>0, ConnectionAssumption DEF Init, TypeOK
<1>n. /\ \A f \in Frame : ~ Queued(f) /\ ~ Held(f) /\ ~ BeingWritten(f) /\ f \notin written
      /\ \A f \in Frame : ~ Given(f)
  <2> SUFFICES ASSUME NEW f \in Frame
               PROVE  ~ Queued(f) /\ ~ Held(f) /\ ~ BeingWritten(f) /\ f \notin written /\ ~ Given(f)
    OBVIOUS
  <2>1. ~ Queued(f)
    BY <1>l DEF Queued
  <2>2. ~ Held(f)
    BY FrameFacts DEF Init, Held
  <2>3. ~ BeingWritten(f) /\ f \notin written
    BY DEF Init, BeingWritten
  <2>4. ~ Given(f)
    <3>1. PICK t \in Threads : f \in {t} \X (1 .. Sends[t])
      BY DEF Frame
    <3>2. f[1] = t /\ f[2] \in 1 .. Sends[t] /\ Sends[t] \in Nat
      BY <3>1, ConnectionAssumption
    <3> QED BY <3>2 DEF Init, Given
  <2> QED BY <2>1, <2>2, <2>3, <2>4
<1>2. OnceInv
  BY <1>l DEF Init, OnceInv
<1>3. PlaceInv
  BY <1>n DEF PlaceInv
<1>4. SingleInv
  BY <1>l DEF Init, SingleInv
<1>5. ReceivedInOrder
  BY <1>l DEF Init, ReceivedInOrder
<1>6. StreamInv
  <2>1. \A f \in Frame : <<>> # <<f>>
    OBVIOUS
  <2> QED BY <1>l, <2>1 DEF Init, StreamInv, EndsIn
<1>7. OrderInv
  BY <1>l, <1>n DEF OrderInv, Pending
<1> QED BY <1>1, <1>2, <1>3, <1>4, <1>5, <1>6, <1>7 DEF ConnectionInv

-----------------------------------------------------------------------------
(* The reader, and the end of the connection.                              *)

(* They leave the sending side alone. *)
LEMMA SendersUntouched ==
  ASSUME OnceInv, PlaceInv, ~ crossed => SingleInv,
         sent' = sent, pc' = pc, popped' = popped, outgoing_bytes' = outgoing_bytes,
         writes' = writes, written' = written, crossed' = crossed, open' => open
  PROVE  OnceInv' /\ PlaceInv' /\ (~ crossed' => SingleInv')
<1>1. OnceInv'
  BY DEF OnceInv
<1>2. PlaceInv'
  BY DEF PlaceInv, Queued, Held, BeingWritten, Given
<1>3. ASSUME ~ crossed PROVE SingleInv'
  BY <1>3 DEF SingleInv
<1> QED BY <1>1, <1>2, <1>3

LEMMA CloseInv ==
  ASSUME ConnectionInv, Close
  PROVE  ConnectionInv'
<1> USE DEF ConnectionInv
<1>1. /\ open /\ open' = FALSE
      /\ sent' = sent /\ pc' = pc /\ popped' = popped /\ outgoing_bytes' = outgoing_bytes
      /\ writes' = writes /\ written' = written /\ crossed' = crossed
      /\ wire' = wire /\ reading' = reading /\ received' = received /\ garbled' = garbled
      /\ reads' = reads /\ disconnects' = disconnects
  BY DEF Close, readVars
<1>2. FlagsOK'
  BY <1>1, Zenon DEF TypeOK, FlagsOK
<1>3. TypeOK'
  BY <1>1, <1>2 DEF TypeOK
<1>4. OnceInv' /\ PlaceInv' /\ (~ crossed' => SingleInv')
  BY <1>1, SendersUntouched
<1>5. ReceivedInOrder'
  BY <1>1 DEF ReceivedInOrder
<1> QED BY <1>1, <1>3, <1>4, <1>5

LEMMA ReadFailsInv ==
  ASSUME ConnectionInv, ReadFails
  PROVE  ConnectionInv'
<1> USE DEF ConnectionInv
<1>1. /\ ~ open /\ open' = open /\ reads' = FALSE /\ disconnects' = Reported
      /\ sent' = sent /\ pc' = pc /\ popped' = popped /\ outgoing_bytes' = outgoing_bytes
      /\ writes' = writes /\ written' = written /\ crossed' = crossed
      /\ wire' = wire /\ reading' = reading /\ received' = received /\ garbled' = garbled
  BY DEF ReadFails, readVars
<1>2. FlagsOK'
  BY <1>1, Zenon DEF TypeOK, FlagsOK
<1>r. Reported \in 0 .. 2
  BY DEF Reported, TypeOK
<1>3. TypeOK'
  BY <1>1, <1>2, <1>r DEF TypeOK
<1>4. OnceInv' /\ PlaceInv' /\ (~ crossed' => SingleInv')
  BY <1>1, SendersUntouched
<1>5. ReceivedInOrder'
  BY <1>1 DEF ReceivedInOrder
<1> QED BY <1>1, <1>3, <1>4, <1>5

(* The first part on the wire is taken off it. *)
LEMMA WireTail ==
  ASSUME TypeOK, wire # <<>>
  PROVE  /\ Head(wire) = wire[1] /\ wire[1] \in Part /\ wire[1].frame \in Frame
         /\ Len(wire) >= 1 /\ Tail(wire) \in Seq(Part) /\ Len(Tail(wire)) = Len(wire) - 1
         /\ \A k \in 1 .. Len(Tail(wire)) : Tail(wire)[k] = wire[k + 1] /\ k + 1 \in 1 .. Len(wire)
<1>1. wire \in Seq(Part) /\ Len(wire) \in Nat
  BY Types
<1>2. Len(wire) >= 1
  BY <1>1
<1>3. wire[1] \in Part
  BY <1>1, <1>2
<1> QED BY <1>1, <1>2, <1>3 DEF Part

LEMMA ReadLengthInv ==
  ASSUME ConnectionInv, ReadLength
  PROVE  ConnectionInv'
<1> USE DEF ConnectionInv
<1>y. TypeOK
  OBVIOUS
<1>1. /\ open /\ reading = <<>> /\ wire # <<>> /\ wire' = Tail(wire)
      /\ garbled' = (garbled \/ Head(wire).part # "length")
      /\ \/ reading' = <<Head(wire).frame>> /\ open' = open
         \/ Head(wire).part # "length" /\ open' = FALSE /\ reading' = reading
      /\ sent' = sent /\ pc' = pc /\ popped' = popped /\ outgoing_bytes' = outgoing_bytes
      /\ writes' = writes /\ written' = written /\ crossed' = crossed
      /\ received' = received /\ reads' = reads /\ disconnects' = disconnects
  BY DEF ReadLength
<1>2. FlagsOK'
  BY <1>1, Zenon DEF TypeOK, FlagsOK
<1>w. /\ Head(wire) = wire[1] /\ wire[1] \in Part /\ wire[1].frame \in Frame
      /\ Len(wire) >= 1 /\ wire' \in Seq(Part) /\ Len(wire') = Len(wire) - 1
      /\ \A k \in 1 .. Len(wire') : wire'[k] = wire[k + 1] /\ k + 1 \in 1 .. Len(wire)
      /\ Len(wire) \in Nat /\ Len(received) \in Nat
  BY <1>1, <1>y, WireTail, Types
<1>3. TypeOK'
  <2>1. reading' = <<>> \/ \E f \in Frame : reading' = <<f>>
    BY <1>1, <1>w
  <2>2. wire' \in Seq([frame : Frame, part : {"length", "payload"}])
    BY <1>w DEF Part
  <2> QED BY <1>1, <1>2, <2>1, <2>2 DEF TypeOK
<1>4. OnceInv' /\ PlaceInv' /\ (~ crossed' => SingleInv')
  BY <1>1, SendersUntouched
<1>5. ASSUME ~ crossed
      PROVE  wire[1].part = "length" /\ reading' = <<wire[1].frame>> /\ open' = open
  <2>1. wire[1].part = "length"
    BY <1>1, <1>5 DEF StreamInv
  <2> QED BY <1>1, <1>w, <2>1
<1>6. ReceivedInOrder'
  BY <1>1, <1>5, <1>w DEF ReceivedInOrder
<1>7. ASSUME ~ crossed PROVE StreamInv'
  <2>1. StreamInv
    BY <1>1, <1>7
  <2>2. reading' = <<wire[1].frame>> /\ wire[1].part = "length" /\ reading'[1] = wire[1].frame
        /\ reading' # <<>>
    BY <1>5, <1>7
  <2>3. wire' # <<>> => wire'[1] = [frame |-> reading'[1], part |-> "payload"]
    <3> SUFFICES ASSUME wire' # <<>> PROVE wire'[1] = [frame |-> reading'[1], part |-> "payload"]
      OBVIOUS
    <3>1. Len(wire') >= 1
      BY <1>w
    <3>2. wire'[1] = wire[1 + 1] /\ 1 \in 1 .. (Len(wire) - 1)
      BY <1>w, <3>1
    <3>3. wire[1 + 1] = [frame |-> wire[1].frame, part |-> "payload"]
      BY <2>1, <2>2, <3>2 DEF StreamInv
    <3> QED BY <2>2, <3>2, <3>3
  <2>4. \A k \in 1 .. (Len(wire') - 1) :
          IF wire'[k].part = "length"
          THEN wire'[k + 1] = [frame |-> wire'[k].frame, part |-> "payload"]
          ELSE wire'[k + 1].part = "length"
    <3> SUFFICES ASSUME NEW k \in 1 .. (Len(wire') - 1)
                 PROVE  IF wire'[k].part = "length"
                        THEN wire'[k + 1] = [frame |-> wire'[k].frame, part |-> "payload"]
                        ELSE wire'[k + 1].part = "length"
      OBVIOUS
    <3>1. /\ k + 1 \in 1 .. (Len(wire) - 1) /\ k \in 1 .. Len(wire') /\ k + 1 \in 1 .. Len(wire')
      BY <1>w
    <3>2. wire'[k] = wire[k + 1] /\ wire'[k + 1] = wire[(k + 1) + 1]
      BY <1>w, <3>1
    <3> QED BY <2>1, <3>1, <3>2 DEF StreamInv
  <2>5. \A f \in Frame : EndsIn(f)' <=> EndsIn(f)
    <3> SUFFICES ASSUME NEW f \in Frame PROVE EndsIn(f)' <=> EndsIn(f)
      OBVIOUS
    <3>1. CASE wire' = <<>>
      <4>1. Len(wire) = 1
        BY <1>w, <3>1
      <4>2. EndsIn(f)' <=> <<wire[1].frame>> = <<f>>
        BY <2>2, <3>1 DEF EndsIn
      <4>3. EndsIn(f) <=> wire[1] = [frame |-> f, part |-> "length"]
        BY <1>1, <4>1 DEF EndsIn
      <4>4. wire[1] = [frame |-> wire[1].frame, part |-> "length"]
        BY <1>w, <2>2 DEF Part
      <4> QED BY <4>2, <4>3, <4>4
    <3>2. CASE wire' # <<>>
      <4>1. Len(wire') >= 1
        BY <1>w, <3>2
      <4>2. wire'[Len(wire')] = wire[Len(wire)]
        BY <1>w, <4>1
      <4> QED BY <1>1, <3>2, <4>2 DEF EndsIn
    <3> QED BY <3>1, <3>2
  <2>6. writes' = writes /\ \A w \in writes : w.frame \in Frame
    BY <1>1, <1>y, Types
  <2>7. \A w \in writes : w.done = 1 => EndsIn(w.frame)'
    BY <2>1, <2>5, <2>6 DEF StreamInv
  <2>8. (\A w \in writes : w.done # 1) => \A f \in Frame : ~ EndsIn(f)'
    BY <2>1, <2>5 DEF StreamInv
  <2> QED BY <2>2, <2>3, <2>4, <2>6, <2>7, <2>8 DEF StreamInv
<1>8. ASSUME ~ crossed PROVE OrderInv'
  <2>1. OrderInv
    BY <1>1, <1>8
  <2>2. \A f \in Frame : Pending(f)' <=> Pending(f)
    BY <1>1 DEF Pending, Queued, Held, BeingWritten
  <2>3. \A f : Given(f)' <=> Given(f)
    BY <1>1 DEF Given
  <2>4. \A k \in 1 .. Len(wire') : Given(wire'[k].frame)
    BY <1>w, <2>1 DEF OrderInv
  <2>5. \A i \in 1 .. Len(received), k \in 1 .. Len(wire') : Before(received[i], wire'[k].frame)
    BY <1>w, <2>1 DEF OrderInv
  <2>6. \A k, l \in 1 .. Len(wire') :
          k < l /\ wire'[k].part = "payload" => Before(wire'[k].frame, wire'[l].frame)
    <3> SUFFICES ASSUME NEW k \in 1 .. Len(wire'), NEW l \in 1 .. Len(wire'), k < l,
                        wire'[k].part = "payload"
                 PROVE  Before(wire'[k].frame, wire'[l].frame)
      OBVIOUS
    <3>1. /\ wire'[k] = wire[k + 1] /\ wire'[l] = wire[l + 1] /\ k + 1 < l + 1
          /\ k + 1 \in 1 .. Len(wire) /\ l + 1 \in 1 .. Len(wire)
      BY <1>w
    <3> QED BY <2>1, <3>1 DEF OrderInv
  <2>7. \A f \in Frame : Pending(f) =>
          \A k \in 1 .. Len(wire') : wire'[k].part = "payload" => Before(wire'[k].frame, f)
    BY <1>w, <2>1 DEF OrderInv
  <2> QED BY <1>1, <2>1, <2>2, <2>3, <2>4, <2>5, <2>6, <2>7 DEF OrderInv, Before, Given
<1> QED BY <1>1, <1>3, <1>4, <1>6, <1>7, <1>8

LEMMA ReadPayloadInv ==
  ASSUME ConnectionInv, ReadPayload
  PROVE  ConnectionInv'
<1> USE DEF ConnectionInv
<1>y. TypeOK
  OBVIOUS
<1>1. /\ open /\ reading # <<>> /\ wire # <<>> /\ wire' = Tail(wire)
      /\ received' = Append(received, Head(wire).frame)
      /\ garbled' = (garbled \/ Head(wire) # [frame |-> reading[1], part |-> "payload"])
      /\ reading' = <<>> /\ open' = open
      /\ sent' = sent /\ pc' = pc /\ popped' = popped /\ outgoing_bytes' = outgoing_bytes
      /\ writes' = writes /\ written' = written /\ crossed' = crossed
      /\ reads' = reads /\ disconnects' = disconnects
  BY DEF ReadPayload, endVars
<1>2. FlagsOK'
  BY <1>1, Zenon DEF TypeOK, FlagsOK
<1>w. /\ Head(wire) = wire[1] /\ wire[1] \in Part /\ wire[1].frame \in Frame
      /\ Len(wire) >= 1 /\ wire' \in Seq(Part) /\ Len(wire') = Len(wire) - 1
      /\ \A k \in 1 .. Len(wire') : wire'[k] = wire[k + 1] /\ k + 1 \in 1 .. Len(wire)
      /\ Len(wire) \in Nat /\ Len(received) \in Nat /\ received \in Seq(Frame)
  BY <1>1, <1>y, WireTail, Types
<1>v. /\ received' \in Seq(Frame) /\ Len(received') = Len(received) + 1
      /\ received'[Len(received) + 1] = wire[1].frame
      /\ \A i \in 1 .. Len(received) : received'[i] = received[i]
  BY <1>1, <1>w
<1>c. \A i \in 1 .. Len(received') :
        \/ i \in 1 .. Len(received) /\ received'[i] = received[i]
        \/ i = Len(received) + 1 /\ received'[i] = wire[1].frame
  BY <1>w, <1>v
<1>3. TypeOK'
  <2>1. wire' \in Seq([frame : Frame, part : {"length", "payload"}])
    BY <1>w DEF Part
  <2> QED BY <1>1, <1>2, <1>v, <2>1 DEF TypeOK
<1>4. OnceInv' /\ PlaceInv' /\ (~ crossed' => SingleInv')
  BY <1>1, SendersUntouched
<1>5. ASSUME ~ crossed
      PROVE  wire[1] = [frame |-> reading[1], part |-> "payload"] /\ wire[1].part = "payload"
  <2>1. wire[1] = [frame |-> reading[1], part |-> "payload"]
    BY <1>1, <1>5 DEF StreamInv
  <2> QED BY <2>1
<1>6. ReceivedInOrder'
  <2> SUFFICES ASSUME ~ crossed
               PROVE  /\ ~ garbled'
                      /\ \A i, j \in DOMAIN received' :
                           i < j => Before(received'[i], received'[j])
    BY <1>1 DEF ReceivedInOrder, Before
  <2>1. ~ garbled'
    BY <1>1, <1>5, <1>w DEF ReceivedInOrder
  <2>2. DOMAIN received' = 1 .. Len(received') /\ DOMAIN received = 1 .. Len(received)
    BY <1>v, <1>w
  <2>3. ASSUME NEW i \in 1 .. Len(received'), NEW j \in 1 .. Len(received'), i < j
        PROVE  Before(received'[i], received'[j])
    <3>1. i \in 1 .. Len(received) /\ received'[i] = received[i]
      BY <1>c, <1>v, <1>w, <2>3
    <3>2. CASE j \in 1 .. Len(received) /\ received'[j] = received[j]
      BY <2>2, <2>3, <3>1, <3>2 DEF ReceivedInOrder, Before
    <3>3. CASE received'[j] = wire[1].frame
      <4>1. 1 \in 1 .. Len(wire)
        BY <1>w
      <4>2. Before(received[i], wire[1].frame)
        BY <1>1, <3>1, <4>1 DEF OrderInv
      <4> QED BY <3>1, <3>3, <4>2
    <3> QED BY <1>c, <3>2, <3>3
  <2> QED BY <2>1, <2>2, <2>3
<1>7. ASSUME ~ crossed PROVE StreamInv'
  <2>1. StreamInv
    BY <1>1, <1>7
  <2>2. wire[1].part = "payload"
    BY <1>5, <1>7
  <2>3. wire' # <<>> => wire'[1].part = "length"
    <3> SUFFICES ASSUME wire' # <<>> PROVE wire'[1].part = "length"
      OBVIOUS
    <3>1. Len(wire') >= 1
      BY <1>w
    <3>2. wire'[1] = wire[1 + 1] /\ 1 \in 1 .. (Len(wire) - 1)
      BY <1>w, <3>1
    <3>3. wire[1 + 1].part = "length"
      BY <2>1, <2>2, <3>2 DEF StreamInv
    <3> QED BY <3>2, <3>3
  <2>4. \A k \in 1 .. (Len(wire') - 1) :
          IF wire'[k].part = "length"
          THEN wire'[k + 1] = [frame |-> wire'[k].frame, part |-> "payload"]
          ELSE wire'[k + 1].part = "length"
    <3> SUFFICES ASSUME NEW k \in 1 .. (Len(wire') - 1)
                 PROVE  IF wire'[k].part = "length"
                        THEN wire'[k + 1] = [frame |-> wire'[k].frame, part |-> "payload"]
                        ELSE wire'[k + 1].part = "length"
      OBVIOUS
    <3>1. /\ k + 1 \in 1 .. (Len(wire) - 1) /\ k \in 1 .. Len(wire') /\ k + 1 \in 1 .. Len(wire')
      BY <1>w
    <3>2. wire'[k] = wire[k + 1] /\ wire'[k + 1] = wire[(k + 1) + 1]
      BY <1>w, <3>1
    <3> QED BY <2>1, <3>1, <3>2 DEF StreamInv
  <2>5. \A f \in Frame : EndsIn(f)' <=> EndsIn(f)
    <3> SUFFICES ASSUME NEW f \in Frame PROVE EndsIn(f)' <=> EndsIn(f)
      OBVIOUS
    <3>1. CASE wire' = <<>>
      <4>1. Len(wire) = 1
        BY <1>w, <3>1
      <4>2. <<>> # <<f>>
        OBVIOUS
      <4>3. ~ EndsIn(f)'
        BY <1>1, <3>1, <4>2 DEF EndsIn
      <4>4. ~ EndsIn(f)
        BY <1>1, <2>2, <4>1 DEF EndsIn
      <4> QED BY <4>3, <4>4
    <3>2. CASE wire' # <<>>
      <4>1. Len(wire') >= 1
        BY <1>w, <3>2
      <4>2. wire'[Len(wire')] = wire[Len(wire)]
        BY <1>w, <4>1
      <4> QED BY <1>1, <3>2, <4>2 DEF EndsIn
    <3> QED BY <3>1, <3>2
  <2>6. writes' = writes /\ \A w \in writes : w.frame \in Frame
    BY <1>1, <1>y, Types
  <2>7. \A w \in writes : w.done = 1 => EndsIn(w.frame)'
    BY <2>1, <2>5, <2>6 DEF StreamInv
  <2>8. (\A w \in writes : w.done # 1) => \A f \in Frame : ~ EndsIn(f)'
    BY <2>1, <2>5 DEF StreamInv
  <2> QED BY <1>1, <2>3, <2>4, <2>6, <2>7, <2>8 DEF StreamInv
<1>8. ASSUME ~ crossed PROVE OrderInv'
  <2>1. OrderInv
    BY <1>1, <1>8
  <2>2. \A f \in Frame : Pending(f)' <=> Pending(f)
    BY <1>1 DEF Pending, Queued, Held, BeingWritten
  <2>3. wire[1].part = "payload" /\ 1 \in 1 .. Len(wire)
    BY <1>5, <1>8, <1>w
  <2>4. \A k \in 1 .. Len(wire') : Given(wire'[k].frame)
    BY <1>w, <2>1 DEF OrderInv
  <2>5. \A i \in 1 .. Len(received') : Given(received'[i])
    BY <1>c, <2>1, <2>3 DEF OrderInv
  <2>6. ASSUME NEW i \in 1 .. Len(received'), NEW k \in 1 .. Len(wire')
        PROVE  Before(received'[i], wire'[k].frame)
    <3>1. wire'[k] = wire[k + 1] /\ k + 1 \in 1 .. Len(wire) /\ 1 < k + 1
      BY <1>w
    <3>2. CASE i \in 1 .. Len(received) /\ received'[i] = received[i]
      BY <2>1, <3>1, <3>2 DEF OrderInv
    <3>3. CASE received'[i] = wire[1].frame
      BY <2>1, <2>3, <3>1, <3>3 DEF OrderInv
    <3> QED BY <1>c, <3>2, <3>3
  <2>7. \A k, l \in 1 .. Len(wire') :
          k < l /\ wire'[k].part = "payload" => Before(wire'[k].frame, wire'[l].frame)
    <3> SUFFICES ASSUME NEW k \in 1 .. Len(wire'), NEW l \in 1 .. Len(wire'), k < l,
                        wire'[k].part = "payload"
                 PROVE  Before(wire'[k].frame, wire'[l].frame)
      OBVIOUS
    <3>1. /\ wire'[k] = wire[k + 1] /\ wire'[l] = wire[l + 1] /\ k + 1 < l + 1
          /\ k + 1 \in 1 .. Len(wire) /\ l + 1 \in 1 .. Len(wire)
      BY <1>w
    <3> QED BY <2>1, <3>1 DEF OrderInv
  <2>8. \A f \in Frame : Pending(f) =>
          \A k \in 1 .. Len(wire') : wire'[k].part = "payload" => Before(wire'[k].frame, f)
    BY <1>w, <2>1 DEF OrderInv
  <2>9. \A f \in Frame : Pending(f) => \A i \in 1 .. Len(received') : Before(received'[i], f)
    BY <1>c, <2>1, <2>3 DEF OrderInv
  <2> QED BY <1>1, <2>2, <2>4, <2>5, <2>6, <2>7, <2>8, <2>9 DEF OrderInv, Before, Given
<1> QED BY <1>1, <1>3, <1>4, <1>6, <1>7, <1>8

-----------------------------------------------------------------------------
(* The senders.                                                            *)

(* A step that puts nothing on the wire and lets no new frame be pending   *)
(* leaves the order alone; the wire ends as before if the same write is    *)
(* half done.                                                              *)
LEMMA ReaderUntouched ==
  ASSUME StreamInv, OrderInv, wire' = wire, reading' = reading, received' = received, sent' = sent,
         \A f \in Frame : Pending(f)' => Pending(f),
         \A w : w.done = 1 => (w \in writes' <=> w \in writes)
  PROVE  StreamInv' /\ OrderInv'
<1>1. StreamInv'
  <2>1. \A f : EndsIn(f)' <=> EndsIn(f)
    BY DEF EndsIn
  <2>2. \A w \in writes' : w.done = 1 => EndsIn(w.frame)'
    BY <2>1 DEF StreamInv
  <2>3. (\A w \in writes' : w.done # 1) => \A f \in Frame : ~ EndsIn(f)'
    BY <2>1 DEF StreamInv
  <2> QED BY <2>2, <2>3 DEF StreamInv
<1>2. OrderInv'
  BY DEF OrderInv, Given, Before
<1> QED BY <1>1, <1>2

(* SendBytes. *)
LEMMA SendBytesInv ==
  ASSUME ConnectionInv, NEW t \in Threads, SendBytes(t)
  PROVE  ConnectionInv'
<1> USE DEF ConnectionInv
<1>y. TypeOK
  OBVIOUS
<1> DEFINE new == <<t, sent[t] + 1>>
<1>1. /\ pc[t] = "idle" /\ sent[t] < Sends[t] /\ sent' = [sent EXCEPT ![t] = sent[t] + 1]
      /\ crossed' = (crossed \/ ~ Quiet)
      /\ outgoing_bytes' = Append(outgoing_bytes, new)
      /\ pc' = [pc EXCEPT ![t] = IF outgoing_bytes # <<>> THEN "idle" ELSE "next"]
      /\ popped' = popped /\ writes' = writes /\ written' = written
      /\ wire' = wire /\ reading' = reading /\ received' = received /\ garbled' = garbled
      /\ open' = open /\ reads' = reads /\ disconnects' = disconnects
  BY DEF SendBytes, readVars, endVars
<1>t. /\ sent \in [Threads -> Nat] /\ pc \in [Workers -> {"idle", "next", "write"}]
      /\ outgoing_bytes \in Seq(Frame) /\ Len(outgoing_bytes) \in Nat /\ t \in Workers
      /\ Sends[t] \in Nat
  BY <1>y, Types, ConnectionAssumption DEF Workers
<1>f. new \in Frame /\ new[1] = t /\ new[2] = sent[t] + 1
  BY <1>1, <1>y, NewFrame
<1> HIDE DEF new
<1>2. FlagsOK'
  BY <1>1, Zenon DEF TypeOK, FlagsOK
<1>3. /\ outgoing_bytes' \in Seq(Frame) /\ Len(outgoing_bytes') = Len(outgoing_bytes) + 1
      /\ outgoing_bytes'[Len(outgoing_bytes) + 1] = new
      /\ \A i \in 1 .. Len(outgoing_bytes) : outgoing_bytes'[i] = outgoing_bytes[i]
  BY <1>1, <1>f, <1>t
<1>q. \A i \in 1 .. Len(outgoing_bytes') :
        \/ i \in 1 .. Len(outgoing_bytes) /\ outgoing_bytes'[i] = outgoing_bytes[i]
        \/ i = Len(outgoing_bytes) + 1 /\ outgoing_bytes'[i] = new
  BY <1>3, <1>t
<1>p. /\ pc' \in [Workers -> {"idle", "next", "write"}]
      /\ \A u \in Workers : u # t => pc'[u] = pc[u]
      /\ pc'[t] \in {"idle", "next"}
  BY <1>1, <1>t
<1>s. /\ sent' \in [Threads -> Nat] /\ sent'[t] = sent[t] + 1 /\ sent'[t] <= Sends[t]
      /\ \A u \in Threads : u # t => sent'[u] = sent[u]
  BY <1>1, <1>t
<1>4. TypeOK'
  <2>1. \A u \in Threads : sent'[u] <= Sends[u]
    BY <1>s DEF TypeOK
  <2> QED BY <1>1, <1>2, <1>3, <1>p, <1>s, <2>1 DEF TypeOK, Workers
<1>g. /\ ~ Given(new)
      /\ \A f \in Frame : Given(f)' <=> Given(f) \/ f = new
  <2>1. ~ Given(new)
    BY <1>f, <1>t DEF Given
  <2>2. ASSUME NEW f \in Frame PROVE Given(f)' <=> Given(f) \/ f = new
    <3>1. f[1] \in Threads /\ f[2] \in Nat /\ f = <<f[1], f[2]>> /\ new = <<new[1], new[2]>>
      BY <1>f, FrameFacts
    <3>2. CASE f[1] # t
      BY <1>f, <1>s, <3>1, <3>2 DEF Given
    <3>3. CASE f[1] = t
      <4>1. Given(f)' <=> f[2] <= sent[t] + 1
        BY <1>s, <3>3 DEF Given
      <4>2. Given(f) <=> f[2] <= sent[t]
        BY <3>3 DEF Given
      <4>3. f = new <=> f[2] = sent[t] + 1
        BY <1>f, <3>1, <3>3
      <4> QED BY <1>t, <3>1, <4>1, <4>2, <4>3
    <3> QED BY <3>2, <3>3
  <2> QED BY <2>1, <2>2
<1>o. ~ Queued(new) /\ ~ Held(new) /\ ~ BeingWritten(new) /\ new \notin written
  BY <1>f, <1>g DEF PlaceInv
<1>u. /\ \A f : Queued(f)' <=> Queued(f) \/ f = new
      /\ \A f : Held(f)' <=> Held(f)
      /\ \A f : BeingWritten(f)' <=> BeingWritten(f)
  <2>1. \A f : Queued(f)' <=> Queued(f) \/ f = new
    <3> SUFFICES ASSUME NEW f PROVE Queued(f)' <=> Queued(f) \/ f = new
      OBVIOUS
    <3>1. ASSUME Queued(f)' PROVE Queued(f) \/ f = new
      BY <1>q, <3>1 DEF Queued
    <3>2. ASSUME Queued(f) PROVE Queued(f)'
      <4>1. PICK i \in 1 .. Len(outgoing_bytes) : outgoing_bytes[i] = f
        BY <3>2 DEF Queued
      <4>2. i \in 1 .. Len(outgoing_bytes') /\ outgoing_bytes'[i] = f
        BY <1>3, <1>t, <4>1
      <4> QED BY <4>2 DEF Queued
    <3>3. ASSUME f = new PROVE Queued(f)'
      <4>1. Len(outgoing_bytes) + 1 \in 1 .. Len(outgoing_bytes')
        BY <1>3, <1>t
      <4> QED BY <1>3, <3>3, <4>1 DEF Queued
    <3> QED BY <3>1, <3>2, <3>3
  <2>2. \A f : Held(f)' <=> Held(f)
    BY <1>1 DEF Held
  <2>3. \A f : BeingWritten(f)' <=> BeingWritten(f)
    BY <1>1 DEF BeingWritten
  <2> QED BY <2>1, <2>2, <2>3
<1>5. OnceInv'
  <2>1. \A u \in Workers : pc'[u] = "write" <=> popped'[u] # NoFrame
    BY <1>1, <1>p DEF OnceInv, Workers
  <2>2. ASSUME NEW i \in 1 .. Len(outgoing_bytes'), NEW j \in 1 .. Len(outgoing_bytes'),
               outgoing_bytes'[i] = outgoing_bytes'[j]
        PROVE  i = j
    <3>1. \A k \in 1 .. Len(outgoing_bytes) : outgoing_bytes[k] # new
      BY <1>o DEF Queued
    <3> QED BY <1>q, <2>2, <3>1 DEF OnceInv
  <2> QED BY <1>1, <2>1, <2>2 DEF OnceInv, Workers
<1>6. PlaceInv'
  BY <1>1, <1>f, <1>g, <1>o, <1>u DEF PlaceInv
<1>7. ASSUME ~ crossed' PROVE SingleInv'
  <2>1. ~ crossed /\ Quiet
    BY <1>1, <1>7
  <2>2. outgoing_bytes = <<>> /\ writes = {} /\ \A u \in Workers : pc[u] = "idle"
    BY <2>1 DEF Quiet, Workers
  <2>3. Len(outgoing_bytes') = 1
    BY <1>3, <2>2
  <2>4. \A u, v \in Workers : pc'[u] # "idle" /\ pc'[v] # "idle" => u = v
    BY <1>p, <2>2
  <2>5. \A u \in Workers : pc'[u] # "write"
    BY <1>p, <2>2
  <2> QED BY <1>1, <2>2, <2>3, <2>4, <2>5 DEF SingleInv, Workers
<1>8. ReceivedInOrder'
  BY <1>1 DEF ReceivedInOrder
<1>9. ASSUME ~ crossed', open PROVE StreamInv' /\ OrderInv'
  <2>1. ~ crossed /\ StreamInv /\ OrderInv
    BY <1>1, <1>9
  <2>2. StreamInv'
    BY <1>1, <2>1 DEF StreamInv, EndsIn
  <2>r. /\ \A i \in 1 .. Len(received) : received[i] \in Frame
        /\ \A k \in 1 .. Len(wire) : wire[k].frame \in Frame
    <3>1. /\ received \in Seq(Frame) /\ wire \in Seq(Part)
      BY <1>y, Types
    <3>2. \A k \in 1 .. Len(wire) : wire[k] \in Part
      BY <3>1
    <3> QED BY <3>1, <3>2 DEF Part
  <2>3. \A f \in Frame : Given(f) => Before(f, new)
    <3> SUFFICES ASSUME NEW f \in Frame, Given(f), f[1] = t PROVE f[2] < new[2]
      BY <1>f DEF Before
    <3> QED BY <1>f, <1>t, FrameFacts DEF Given
  <2>4. \A k \in 1 .. Len(wire) : Given(wire[k].frame) /\ Given(wire[k].frame)'
    BY <1>1, <1>g, <2>1, <2>r DEF OrderInv
  <2>5. \A i \in 1 .. Len(received) : Given(received[i]) /\ Given(received[i])'
    BY <1>1, <1>g, <2>1, <2>r DEF OrderInv
  <2>6. \A f \in Frame : Pending(f)' => Pending(f) \/ f = new
    BY <1>u DEF Pending
  <2>7. /\ \A i \in 1 .. Len(received) : Before(received[i], new)
        /\ \A k \in 1 .. Len(wire) : Before(wire[k].frame, new)
    BY <2>3, <2>4, <2>5, <2>r
  <2>8. ASSUME NEW f \in Frame, Pending(f)'
        PROVE  /\ \A i \in 1 .. Len(received) : Before(received[i], f)
               /\ \A k \in 1 .. Len(wire) : wire[k].part = "payload" => Before(wire[k].frame, f)
    <3>1. CASE f = new
      BY <2>7, <3>1
    <3>2. CASE Pending(f)
      BY <2>1, <3>2 DEF OrderInv
    <3> QED BY <2>6, <2>8, <3>1, <3>2
  <2>9. OrderInv'
    BY <1>1, <2>1, <2>4, <2>5, <2>8 DEF OrderInv, Given, Before
  <2> QED BY <2>2, <2>9
<1> QED BY <1>1, <1>4, <1>5, <1>6, <1>7, <1>8, <1>9

(* SendNext: the first frame of the queue is in one hand, the queue keeps  *)
(* the others.                                                             *)
LEMMA SendNextInv ==
  ASSUME ConnectionInv, NEW t \in Workers, SendNext(t)
  PROVE  ConnectionInv'
<1> USE DEF ConnectionInv
<1>y. TypeOK
  OBVIOUS
<1>1. /\ pc[t] = "next" /\ sent' = sent /\ crossed' = crossed /\ writes' = writes
      /\ written' = written /\ wire' = wire /\ reading' = reading /\ received' = received
      /\ garbled' = garbled /\ open' = open /\ reads' = reads /\ disconnects' = disconnects
  BY DEF SendNext, readVars, endVars
<1>t. /\ pc \in [Workers -> {"idle", "next", "write"}] /\ popped \in [Workers -> Frame \cup {NoFrame}]
      /\ outgoing_bytes \in Seq(Frame) /\ Len(outgoing_bytes) \in Nat
  BY <1>y, Types
<1>2. FlagsOK'
  BY <1>1, Zenon DEF TypeOK, FlagsOK
<1>3. ReceivedInOrder'
  BY <1>1 DEF ReceivedInOrder
<1>4. CASE /\ outgoing_bytes = <<>> /\ pc' = [pc EXCEPT ![t] = "idle"]
           /\ popped' = popped /\ outgoing_bytes' = outgoing_bytes
  <2>1. /\ pc' \in [Workers -> {"idle", "next", "write"}] /\ pc'[t] = "idle"
        /\ \A u \in Workers : u # t => pc'[u] = pc[u]
    BY <1>4, <1>t
  <2>2. TypeOK'
    BY <1>1, <1>2, <1>4, <2>1 DEF TypeOK, Workers
  <2>3. OnceInv'
    <3>1. \A u \in Workers : pc'[u] = "write" <=> pc[u] = "write"
      BY <1>1, <2>1
    <3> QED BY <1>1, <1>4, <3>1 DEF OnceInv, Workers
  <2>4. PlaceInv'
    BY <1>1, <1>4 DEF PlaceInv, Queued, Held, BeingWritten, Given
  <2>5. ASSUME ~ crossed PROVE SingleInv'
    BY <1>1, <1>4, <2>1, <2>5 DEF SingleInv, Workers
  <2>6. ASSUME ~ crossed, open PROVE StreamInv' /\ OrderInv'
    <3>1. \A f \in Frame : Pending(f)' => Pending(f)
      BY <1>1, <1>4 DEF Pending, Queued, Held, BeingWritten
    <3> QED BY <1>1, <2>6, <3>1, ReaderUntouched
  <2> QED BY <1>1, <1>3, <2>2, <2>3, <2>4, <2>5, <2>6
<1>5. CASE /\ outgoing_bytes # <<>>
           /\ popped' = [popped EXCEPT ![t] = Head(outgoing_bytes)]
           /\ outgoing_bytes' = Tail(outgoing_bytes)
           /\ pc' = [pc EXCEPT ![t] = "write"]
  <2> DEFINE h == outgoing_bytes[1]
  <2>1. /\ Head(outgoing_bytes) = h /\ Len(outgoing_bytes) >= 1 /\ h \in Frame
        /\ outgoing_bytes' \in Seq(Frame) /\ Len(outgoing_bytes') = Len(outgoing_bytes) - 1
        /\ \A i \in 1 .. Len(outgoing_bytes') :
             outgoing_bytes'[i] = outgoing_bytes[i + 1] /\ i + 1 \in 1 .. Len(outgoing_bytes)
    BY <1>5, <1>t
  <2>h. Queued(h)
    <3>1. 1 \in 1 .. Len(outgoing_bytes)
      BY <1>t, <2>1
    <3> QED BY <3>1 DEF Queued
  <2> HIDE DEF h
  <2>2. /\ pc' \in [Workers -> {"idle", "next", "write"}] /\ pc'[t] = "write"
        /\ \A u \in Workers : u # t => pc'[u] = pc[u]
        /\ popped' \in [Workers -> Frame \cup {NoFrame}] /\ popped'[t] = h
        /\ \A u \in Workers : u # t => popped'[u] = popped[u]
    BY <1>5, <1>t, <2>1
  <2>3. popped[t] = NoFrame /\ h # NoFrame
    BY <1>1, <2>1, FrameFacts DEF OnceInv, Workers
  <2>4. TypeOK'
    BY <1>1, <1>2, <2>1, <2>2 DEF TypeOK, Workers
  <2>5. /\ \A f : Queued(f)' <=> Queued(f) /\ f # h
        /\ \A f \in Frame : Held(f)' <=> Held(f) \/ f = h
        /\ \A f : BeingWritten(f)' <=> BeingWritten(f)
    <3>1. ASSUME NEW f PROVE Queued(f)' <=> Queued(f) /\ f # h
      <4>1. ASSUME Queued(f)' PROVE Queued(f) /\ f # h
        <5>1. PICK i \in 1 .. Len(outgoing_bytes') : outgoing_bytes'[i] = f
          BY <4>1 DEF Queued
        <5>2. outgoing_bytes[i + 1] = f /\ i + 1 \in 1 .. Len(outgoing_bytes) /\ i + 1 # 1
              /\ 1 \in 1 .. Len(outgoing_bytes)
          BY <1>t, <2>1, <5>1
        <5>3. f # h
          BY <5>2 DEF OnceInv, h
        <5> QED BY <5>2, <5>3 DEF Queued
      <4>2. ASSUME Queued(f), f # h PROVE Queued(f)'
        <5>1. PICK i \in 1 .. Len(outgoing_bytes) : outgoing_bytes[i] = f
          BY <4>2 DEF Queued
        <5>2. i # 1
          BY <4>2, <5>1 DEF h
        <5>3. i - 1 \in 1 .. Len(outgoing_bytes') /\ (i - 1) + 1 = i
          BY <1>t, <2>1, <5>1, <5>2
        <5>4. outgoing_bytes'[i - 1] = f
          BY <2>1, <5>1, <5>3
        <5> QED BY <5>3, <5>4 DEF Queued
      <4> QED BY <4>1, <4>2
    <3>2. ASSUME NEW f \in Frame PROVE Held(f)' <=> Held(f) \/ f = h
      <4>1. f # NoFrame
        BY FrameFacts
      <4>2. ASSUME Held(f)' PROVE Held(f) \/ f = h
        BY <2>2, <4>2 DEF Held, Workers
      <4>3. ASSUME Held(f) PROVE Held(f)'
        BY <2>2, <2>3, <4>1, <4>3 DEF Held, Workers
      <4>4. ASSUME f = h PROVE Held(f)'
        BY <2>2, <4>4 DEF Held, Workers
      <4> QED BY <4>2, <4>3, <4>4
    <3>3. \A f : BeingWritten(f)' <=> BeingWritten(f)
      BY <1>1 DEF BeingWritten
    <3> QED BY <3>1, <3>2, <3>3
  <2>6. OnceInv'
    <3>1. \A u \in Workers : pc'[u] = "write" <=> popped'[u] # NoFrame
      BY <2>2, <2>3 DEF OnceInv, Workers
    <3>2. ~ Held(h)
      BY <2>1, <2>h DEF PlaceInv
    <3>3. \A u, v \in Workers : popped'[u] = popped'[v] /\ popped'[u] # NoFrame => u = v
      BY <2>2, <3>2 DEF OnceInv, Held, Workers
    <3>4. ASSUME NEW i \in 1 .. Len(outgoing_bytes'), NEW j \in 1 .. Len(outgoing_bytes'),
                 outgoing_bytes'[i] = outgoing_bytes'[j]
          PROVE  i = j
      <4>1. /\ i + 1 \in 1 .. Len(outgoing_bytes) /\ j + 1 \in 1 .. Len(outgoing_bytes)
            /\ outgoing_bytes[i + 1] = outgoing_bytes[j + 1]
        BY <1>t, <2>1, <3>4
      <4>2. i + 1 = j + 1
        BY <4>1 DEF OnceInv
      <4> QED BY <4>2
    <3> QED BY <1>1, <3>1, <3>3, <3>4 DEF OnceInv, Workers
  <2>7. PlaceInv'
    <3>1. \A f : Given(f)' <=> Given(f)
      BY <1>1 DEF Given
    <3> QED BY <1>1, <2>1, <2>5, <2>h, <3>1 DEF PlaceInv
  <2>8. ASSUME ~ crossed PROVE SingleInv'
    <3>1. SingleInv
      BY <2>8
    <3>2. Len(outgoing_bytes) = 1 /\ Len(outgoing_bytes') = 0 /\ writes = {}
      BY <1>5, <1>t, <2>1, <3>1 DEF SingleInv
    <3>3. outgoing_bytes' = <<>>
      BY <2>1, <3>2
    <3> QED BY <1>1, <2>2, <3>1, <3>2, <3>3 DEF SingleInv, Workers
  <2>9. ASSUME ~ crossed, open PROVE StreamInv' /\ OrderInv'
    <3>1. \A f \in Frame : Pending(f)' => Pending(f)
      BY <2>5, <2>h DEF Pending
    <3> QED BY <1>1, <2>9, <3>1, ReaderUntouched
  <2> QED BY <1>1, <1>3, <2>4, <2>6, <2>7, <2>8, <2>9
<1> QED BY <1>4, <1>5 DEF SendNext

(* async_write: the frame goes from the hand to the socket. *)
LEMMA StartWriteInv ==
  ASSUME ConnectionInv, NEW t \in Workers, StartWrite(t)
  PROVE  ConnectionInv'
<1> USE DEF ConnectionInv
<1>y. TypeOK
  OBVIOUS
<1> DEFINE h == popped[t]
           new == [frame |-> h, done |-> 0]
<1>1. /\ pc[t] = "write" /\ writes' = writes \cup {new}
      /\ popped' = [popped EXCEPT ![t] = NoFrame] /\ pc' = [pc EXCEPT ![t] = "idle"]
      /\ sent' = sent /\ crossed' = crossed /\ outgoing_bytes' = outgoing_bytes
      /\ written' = written /\ wire' = wire /\ reading' = reading /\ received' = received
      /\ garbled' = garbled /\ open' = open /\ reads' = reads /\ disconnects' = disconnects
  BY DEF StartWrite, readVars, endVars
<1>t. /\ pc \in [Workers -> {"idle", "next", "write"}] /\ popped \in [Workers -> Frame \cup {NoFrame}]
      /\ writes \subseteq [frame : Frame, done : 0 .. 2]
      /\ \A w \in writes : w.frame \in Frame /\ w.done \in 0 .. 2
  BY <1>y, Types
<1>2. FlagsOK'
  BY <1>1, Zenon DEF TypeOK, FlagsOK
<1>3. ReceivedInOrder'
  BY <1>1 DEF ReceivedInOrder
<1>h. h \in Frame /\ h # NoFrame /\ Held(h)
  <2>1. h # NoFrame
    BY <1>1 DEF OnceInv, Workers
  <2> QED BY <1>t, <2>1 DEF Held, Workers
<1>n. new.frame = h /\ new.done = 0 /\ new \in [frame : Frame, done : 0 .. 2]
  BY <1>h
<1> HIDE DEF h, new
<1>4. /\ pc' \in [Workers -> {"idle", "next", "write"}] /\ pc'[t] = "idle"
      /\ \A u \in Workers : u # t => pc'[u] = pc[u]
      /\ popped' \in [Workers -> Frame \cup {NoFrame}] /\ popped'[t] = NoFrame
      /\ \A u \in Workers : u # t => popped'[u] = popped[u]
  BY <1>1, <1>t
<1>5. TypeOK'
  BY <1>1, <1>2, <1>4, <1>n DEF TypeOK, Workers
<1>o. h \notin written /\ ~ BeingWritten(h) /\ ~ Queued(h)
  BY <1>h DEF PlaceInv
<1>w. \A w \in writes : w.frame # h
  <2>1. \A w \in writes : w.done < 2 => w.frame # h
    BY <1>o DEF BeingWritten
  <2>2. \A w \in writes : w.done = 2 => w.frame # h
    BY <1>o DEF OnceInv
  <2> QED BY <1>t, <2>1, <2>2
<1>6. /\ \A f : Queued(f)' <=> Queued(f)
      /\ \A f \in Frame : Held(f)' <=> Held(f) /\ f # h
      /\ \A f : BeingWritten(f)' <=> BeingWritten(f) \/ f = h
  <2>1. \A f : Queued(f)' <=> Queued(f)
    BY <1>1 DEF Queued
  <2>2. ASSUME NEW f \in Frame PROVE Held(f)' <=> Held(f) /\ f # h
    <3>1. f # NoFrame
      BY FrameFacts
    <3>2. \A u \in Workers : u # t => popped[u] # h
      BY <1>h DEF OnceInv, Workers, h
    <3>3. ASSUME Held(f)' PROVE Held(f) /\ f # h
      BY <1>4, <3>1, <3>2, <3>3 DEF Held, Workers
    <3>4. ASSUME Held(f), f # h PROVE Held(f)'
      <4>1. PICK u \in Workers : popped[u] = f
        BY <3>4 DEF Held, Workers
      <4>2. u # t
        BY <3>4, <4>1 DEF h
      <4> QED BY <1>4, <4>1, <4>2 DEF Held, Workers
    <3> QED BY <3>3, <3>4
  <2>3. \A f : BeingWritten(f)' <=> BeingWritten(f) \/ f = h
    BY <1>1, <1>n DEF BeingWritten
  <2> QED BY <2>1, <2>2, <2>3
<1>7. OnceInv'
  <2>1. \A u \in Workers : pc'[u] = "write" <=> popped'[u] # NoFrame
    BY <1>4 DEF OnceInv, Workers
  <2>2. \A u, v \in Workers : popped'[u] = popped'[v] /\ popped'[u] # NoFrame => u = v
    BY <1>4 DEF OnceInv, Workers
  <2>3. \A w, v \in writes' : w.frame = v.frame => w = v
    BY <1>1, <1>n, <1>w DEF OnceInv
  <2>4. \A w \in writes' : w.done = 2 <=> w.frame \in written
    BY <1>1, <1>n, <1>o DEF OnceInv
  <2> QED BY <1>1, <2>1, <2>2, <2>3, <2>4 DEF OnceInv, Workers
<1>8. PlaceInv'
  <2>1. \A f : Given(f)' <=> Given(f)
    BY <1>1 DEF Given
  <2> QED BY <1>1, <1>6, <1>h, <1>o, <2>1 DEF PlaceInv
<1>9. ASSUME ~ crossed PROVE SingleInv'
  <2>1. SingleInv
    BY <1>9
  <2>2. outgoing_bytes = <<>> /\ writes = {} /\ \A u \in Workers : u # t => pc[u] = "idle"
    BY <1>1, <2>1 DEF SingleInv, Workers
  <2>3. \A u \in Workers : pc'[u] = "idle"
    BY <1>4, <2>2
  <2> QED BY <1>1, <2>1, <2>2, <2>3 DEF SingleInv, Workers
<1>10. ASSUME ~ crossed, open PROVE StreamInv' /\ OrderInv'
  <2>1. \A f \in Frame : Pending(f)' => Pending(f)
    BY <1>6, <1>h DEF Pending
  <2>2. \A w : w.done = 1 => (w \in writes' <=> w \in writes)
    BY <1>1, <1>n
  <2> QED BY <1>1, <1>10, <2>1, <2>2, ReaderUntouched
<1> QED BY <1>1, <1>3, <1>5, <1>7, <1>8, <1>9, <1>10

(* The socket takes the next part of a write. *)
LEMMA WritePartInv ==
  ASSUME ConnectionInv, NEW w \in writes, WritePart(w)
  PROVE  ConnectionInv'
<1> USE DEF ConnectionInv
<1>y. TypeOK
  OBVIOUS
<1> DEFINE new == [frame |-> w.frame, done |-> w.done + 1]
           part == [frame |-> w.frame, part |-> Parts[w.done + 1]]
<1>t. /\ w \in [frame : Frame, done : 0 .. 2] /\ w.frame \in Frame /\ w.done \in 0 .. 2
      /\ \A v \in writes : v.frame \in Frame /\ v.done \in 0 .. 2
      /\ writes \subseteq [frame : Frame, done : 0 .. 2]
      /\ wire \in Seq(Part) /\ Len(wire) \in Nat
  BY <1>y, Types
<1>r. [w EXCEPT !.done = w.done + 1] = new
  BY <1>t
<1>1. /\ open /\ w.done < 2 /\ wire' = Append(wire, part)
      /\ writes' = (writes \ {w}) \cup {new}
      /\ written' = IF w.done + 1 = 2 THEN written \cup {w.frame} ELSE written
      /\ sent' = sent /\ crossed' = crossed /\ pc' = pc /\ popped' = popped
      /\ outgoing_bytes' = outgoing_bytes /\ reading' = reading /\ received' = received
      /\ garbled' = garbled /\ open' = open /\ reads' = reads /\ disconnects' = disconnects
  BY <1>r, PartsFacts DEF WritePart, endVars
<1>d. w.done = 0 \/ w.done = 1
  BY <1>1, <1>t
<1>n. new.frame = w.frame /\ new.done = w.done + 1 /\ new \in [frame : Frame, done : 0 .. 2]
  BY <1>d, <1>t
<1>p. /\ part.frame = w.frame /\ part \in Part
      /\ w.done = 0 => part.part = "length" /\ part = [frame |-> w.frame, part |-> "length"]
      /\ w.done = 1 => part.part = "payload" /\ part = [frame |-> w.frame, part |-> "payload"]
  BY <1>d, <1>t, PartsFacts DEF Part
<1> HIDE DEF new, part
<1>2. FlagsOK'
  BY <1>1, Zenon DEF TypeOK, FlagsOK
<1>w. /\ wire' \in Seq(Part) /\ Len(wire') = Len(wire) + 1 /\ wire'[Len(wire) + 1] = part
      /\ \A k \in 1 .. Len(wire) : wire'[k] = wire[k]
      /\ wire' # <<>>
  BY <1>1, <1>p, <1>t
<1>3. TypeOK'
  <2>1. wire' \in Seq([frame : Frame, part : {"length", "payload"}])
    BY <1>w DEF Part
  <2>2. writes' \subseteq [frame : Frame, done : 0 .. 2] /\ written' \subseteq Frame
    BY <1>1, <1>n, <1>t DEF TypeOK
  <2> QED BY <1>1, <1>2, <2>1, <2>2 DEF TypeOK
<1>o. /\ BeingWritten(w.frame) /\ w.frame \notin written
      /\ \A v \in writes : v # w => v.frame # w.frame
  BY <1>1, <1>t DEF BeingWritten, OnceInv
<1>4. /\ \A f : Queued(f)' <=> Queued(f)
      /\ \A f : Held(f)' <=> Held(f)
      /\ \A f : BeingWritten(f)' <=> BeingWritten(f) /\ (w.done = 1 => f # w.frame)
  <2>1. \A f : (Queued(f)' <=> Queued(f)) /\ (Held(f)' <=> Held(f))
    BY <1>1 DEF Queued, Held
  <2>2. ASSUME NEW f PROVE BeingWritten(f)' <=> BeingWritten(f) /\ (w.done = 1 => f # w.frame)
    <3>1. CASE f = w.frame
      <4>1. BeingWritten(f)' <=> w.done = 0
        BY <1>1, <1>d, <1>n, <1>o, <3>1 DEF BeingWritten
      <4> QED BY <1>d, <1>o, <3>1, <4>1
    <3>2. CASE f # w.frame
      BY <1>1, <1>n, <3>2 DEF BeingWritten
    <3> QED BY <3>1, <3>2
  <2> QED BY <2>1, <2>2
<1>5. OnceInv'
  <2>1. \A u, v \in writes' : u.frame = v.frame => u = v
    BY <1>1, <1>n, <1>o DEF OnceInv
  <2>2. \A v \in writes' : v.done = 2 <=> v.frame \in written'
    <3> SUFFICES ASSUME NEW v \in writes' PROVE v.done = 2 <=> v.frame \in written'
      OBVIOUS
    <3>1. CASE v = new
      BY <1>1, <1>d, <1>n, <1>o, <3>1
    <3>2. CASE v \in writes /\ v # w
      BY <1>1, <1>o, <3>2 DEF OnceInv
    <3> QED BY <1>1, <3>1, <3>2
  <2> QED BY <1>1, <2>1, <2>2 DEF OnceInv
<1>6. PlaceInv'
  <2>1. \A f : Given(f)' <=> Given(f)
    BY <1>1 DEF Given
  <2>2. \A f : f \in written' <=> f \in written \/ (w.done = 1 /\ f = w.frame)
    BY <1>1, <1>d
  <2> QED BY <1>1, <1>4, <1>o, <1>t, <2>1, <2>2 DEF PlaceInv
<1>7. ReceivedInOrder'
  BY <1>1 DEF ReceivedInOrder
<1>8. ASSUME ~ crossed PROVE SingleInv'
  <2>1. SingleInv
    BY <1>8
  <2>2. writes = {w}
    BY <2>1 DEF SingleInv
  <2>3. writes' = {new}
    BY <1>1, <2>2
  <2> QED BY <1>1, <2>1, <2>2, <2>3 DEF SingleInv
<1>9. ASSUME ~ crossed PROVE StreamInv'
  <2>1. StreamInv /\ SingleInv
    BY <1>1, <1>9
  <2>2. writes = {w} /\ writes' = {new}
    BY <1>1, <2>1 DEF SingleInv
  <2>3. /\ w.done = 0 => \A f \in Frame : ~ EndsIn(f)
        /\ w.done = 1 => EndsIn(w.frame)
    BY <2>1, <2>2 DEF StreamInv
  <2>l. Len(wire) > 0 => wire[Len(wire)] \in Part
    BY <1>t
  <2>4. CASE wire = <<>>
    <3>0. Len(wire) = 0 /\ wire'[1] = part /\ Len(wire') = 1
      BY <1>w, <2>4
    <3>1. w.done = 0 => reading = <<>>
      BY <1>y, <2>3, <2>4 DEF EndsIn, TypeOK
    <3>2. w.done = 1 => reading = <<w.frame>>
      BY <2>3, <2>4 DEF EndsIn
    <3>3. w.done = 1 => reading # <<>> /\ reading[1] = w.frame
      BY <3>2
    <3>4. IF reading' = <<>> THEN wire'[1].part = "length"
          ELSE wire'[1] = [frame |-> reading'[1], part |-> "payload"]
      BY <1>1, <1>d, <1>p, <3>0, <3>1, <3>3
    <3>5. w.done = 0 => EndsIn(w.frame)'
      BY <1>p, <1>w, <3>0 DEF EndsIn
    <3>6. w.done = 1 => \A f \in Frame : ~ EndsIn(f)'
      BY <1>p, <1>w, <3>0 DEF EndsIn
    <3> QED BY <1>d, <1>n, <2>2, <3>0, <3>4, <3>5, <3>6 DEF StreamInv
  <2>5. CASE wire # <<>>
    <3>0. Len(wire) >= 1 /\ wire'[1] = wire[1] /\ wire'[Len(wire')] = part
          /\ wire'[Len(wire)] = wire[Len(wire)] /\ wire'[Len(wire) + 1] = part
      BY <1>t, <1>w, <2>5
    <3>1. w.done = 0 => wire[Len(wire)].part # "length"
      <4> SUFFICES ASSUME w.done = 0, wire[Len(wire)].part = "length" PROVE FALSE
        OBVIOUS
      <4>1. /\ wire[Len(wire)].frame \in Frame
            /\ wire[Len(wire)] = [frame |-> wire[Len(wire)].frame, part |-> "length"]
        BY <2>l, <3>0 DEF Part
      <4>2. EndsIn(wire[Len(wire)].frame)
        BY <2>5, <4>1 DEF EndsIn
      <4> QED BY <2>3, <4>1, <4>2
    <3>2. w.done = 1 => wire[Len(wire)] = [frame |-> w.frame, part |-> "length"]
      BY <2>3, <2>5 DEF EndsIn
    <3>3. IF wire'[Len(wire)].part = "length"
          THEN wire'[Len(wire) + 1] = [frame |-> wire'[Len(wire)].frame, part |-> "payload"]
          ELSE wire'[Len(wire) + 1].part = "length"
      BY <1>d, <1>p, <3>0, <3>1, <3>2
    <3>4. \A k \in 1 .. (Len(wire') - 1) :
            IF wire'[k].part = "length"
            THEN wire'[k + 1] = [frame |-> wire'[k].frame, part |-> "payload"]
            ELSE wire'[k + 1].part = "length"
      <4> SUFFICES ASSUME NEW k \in 1 .. (Len(wire') - 1)
                   PROVE  IF wire'[k].part = "length"
                          THEN wire'[k + 1] = [frame |-> wire'[k].frame, part |-> "payload"]
                          ELSE wire'[k + 1].part = "length"
        OBVIOUS
      <4>1. CASE k = Len(wire)
        BY <3>3, <4>1
      <4>2. CASE k # Len(wire)
        <5>1. k \in 1 .. (Len(wire) - 1) /\ wire'[k] = wire[k] /\ wire'[k + 1] = wire[k + 1]
          BY <1>t, <1>w, <4>2
        <5> QED BY <2>1, <5>1 DEF StreamInv
      <4> QED BY <4>1, <4>2
    <3>5. w.done = 0 => EndsIn(w.frame)'
      BY <1>p, <1>w, <3>0 DEF EndsIn
    <3>6. w.done = 1 => \A f \in Frame : ~ EndsIn(f)'
      BY <1>p, <1>w, <3>0 DEF EndsIn
    <3>7. IF reading' = <<>> THEN wire'[1].part = "length"
          ELSE wire'[1] = [frame |-> reading'[1], part |-> "payload"]
      BY <1>1, <2>1, <2>5, <3>0 DEF StreamInv
    <3>8. /\ \A v \in writes' : v.done = 1 => EndsIn(v.frame)'
          /\ (\A v \in writes' : v.done # 1) => \A f \in Frame : ~ EndsIn(f)'
      BY <1>d, <1>n, <2>2, <3>5, <3>6
    <3> QED BY <3>4, <3>7, <3>8 DEF StreamInv
  <2> QED BY <2>4, <2>5
<1>10. ASSUME ~ crossed PROVE OrderInv'
  <2>1. OrderInv
    BY <1>1, <1>10
  <2>2. \A f \in Frame : Pending(f)' => Pending(f)
    BY <1>4 DEF Pending
  <2>3. Pending(w.frame) /\ Given(w.frame)
    BY <1>o, <1>t DEF Pending, PlaceInv
  <2>4. \A k \in 1 .. Len(wire') :
          \/ k \in 1 .. Len(wire) /\ wire'[k] = wire[k]
          \/ k = Len(wire) + 1 /\ wire'[k] = part
    BY <1>t, <1>w
  <2>5. \A k \in 1 .. Len(wire') : Given(wire'[k].frame)
    BY <1>p, <2>1, <2>3, <2>4 DEF OrderInv
  <2>6. \A i \in 1 .. Len(received), k \in 1 .. Len(wire') : Before(received[i], wire'[k].frame)
    BY <1>p, <1>t, <2>1, <2>3, <2>4 DEF OrderInv
  <2>7. ASSUME NEW k \in 1 .. Len(wire'), NEW l \in 1 .. Len(wire'), k < l, wire'[k].part = "payload"
        PROVE  Before(wire'[k].frame, wire'[l].frame)
    <3>1. k \in 1 .. Len(wire) /\ wire'[k] = wire[k]
      BY <1>t, <1>w, <2>4, <2>7
    <3>2. CASE l \in 1 .. Len(wire) /\ wire'[l] = wire[l]
      BY <2>1, <2>7, <3>1, <3>2 DEF OrderInv
    <3>3. CASE wire'[l] = part
      BY <1>p, <1>t, <2>1, <2>3, <2>7, <3>1, <3>3 DEF OrderInv
    <3> QED BY <2>4, <3>2, <3>3
  <2>8. ASSUME NEW f \in Frame, Pending(f)', NEW k \in 1 .. Len(wire'), wire'[k].part = "payload"
        PROVE  Before(wire'[k].frame, f)
    <3>1. CASE k \in 1 .. Len(wire) /\ wire'[k] = wire[k]
      BY <2>1, <2>2, <2>8, <3>1 DEF OrderInv
    <3>2. CASE wire'[k] = part
      <4>1. w.done = 1 /\ wire'[k].frame = w.frame
        BY <1>d, <1>p, <2>8, <3>2
      <4>2. crossed = FALSE /\ SingleInv /\ writes = {w}
        BY <1>10 DEF SingleInv, TypeOK, FlagsOK
      <4>3. outgoing_bytes = <<>> /\ \A u \in Workers : pc[u] = "idle"
        BY <4>2 DEF SingleInv, Workers
      <4>4. Len(outgoing_bytes) = 0
        BY <4>3
      <4>5. ~ Queued(f) /\ ~ Held(f)
        <5>1. ~ Queued(f)
          BY <4>4 DEF Queued
        <5>2. \A u \in Workers : popped[u] = NoFrame
          BY <4>3 DEF OnceInv, Workers
        <5>3. f # NoFrame
          BY FrameFacts
        <5> QED BY <5>1, <5>2, <5>3 DEF Held, Workers
      <4>6. BeingWritten(f)'
        BY <1>4, <2>8, <4>5 DEF Pending
      <4>7. BeingWritten(f) /\ f # w.frame
        BY <1>4, <4>1, <4>6
      <4> QED BY <4>2, <4>7 DEF BeingWritten
    <3> QED BY <2>4, <3>1, <3>2
  <2> QED BY <1>1, <2>1, <2>2, <2>5, <2>6, <2>7, <2>8 DEF OrderInv, Before, Given
<1> QED BY <1>1, <1>3, <1>5, <1>6, <1>7, <1>8, <1>9, <1>10

(* The completion handler of a write. *)
LEMMA WriteDoneInv ==
  ASSUME ConnectionInv, NEW w \in writes, WriteDone(w)
  PROVE  ConnectionInv'
<1> USE DEF ConnectionInv
<1>y. TypeOK
  OBVIOUS
<1>1. /\ pc[IO] = "idle" /\ writes' = writes \ {w}
      /\ \/ w.done = 2 /\ pc' = [pc EXCEPT ![IO] = "next"] /\ disconnects' = disconnects
         \/ w.done < 2 /\ ~ open /\ disconnects' = Reported /\ pc' = pc
      /\ sent' = sent /\ crossed' = crossed /\ popped' = popped
      /\ outgoing_bytes' = outgoing_bytes /\ written' = written
      /\ wire' = wire /\ reading' = reading /\ received' = received
      /\ garbled' = garbled /\ open' = open /\ reads' = reads
  BY PartsFacts DEF WriteDone, readVars
<1>t. /\ w.frame \in Frame /\ w.done \in 0 .. 2 /\ pc \in [Workers -> {"idle", "next", "write"}]
      /\ IO \in Workers
  BY <1>y, Types DEF Workers
<1>2. FlagsOK'
  BY <1>1, Zenon DEF TypeOK, FlagsOK
<1>p. /\ pc' \in [Workers -> {"idle", "next", "write"}]
      /\ \A u \in Workers : u # IO => pc'[u] = pc[u]
      /\ pc'[IO] \in {"idle", "next"}
  BY <1>1, <1>t
<1>3. TypeOK'
  <2>1. disconnects' \in 0 .. 2
    BY <1>1 DEF TypeOK, Reported
  <2> QED BY <1>1, <1>2, <1>p, <2>1 DEF TypeOK, Workers
<1>4. /\ \A f : Queued(f)' <=> Queued(f)
      /\ \A f : Held(f)' <=> Held(f)
      /\ \A f : BeingWritten(f)' => BeingWritten(f)
      /\ open => \A f : BeingWritten(f)' <=> BeingWritten(f)
  <2>1. \A f : (Queued(f)' <=> Queued(f)) /\ (Held(f)' <=> Held(f))
    BY <1>1 DEF Queued, Held
  <2>2. \A f : BeingWritten(f)' => BeingWritten(f)
    BY <1>1 DEF BeingWritten
  <2>3. open => \A f : BeingWritten(f) => BeingWritten(f)'
    BY <1>1 DEF BeingWritten
  <2> QED BY <2>1, <2>2, <2>3
<1>5. OnceInv'
  <2>1. \A u \in Workers : pc'[u] = "write" <=> popped'[u] # NoFrame
    BY <1>1, <1>p DEF OnceInv, Workers
  <2> QED BY <1>1, <2>1 DEF OnceInv, Workers
<1>6. PlaceInv'
  <2>1. \A f : Given(f)' <=> Given(f)
    BY <1>1 DEF Given
  <2> QED BY <1>1, <1>4, <2>1 DEF PlaceInv
<1>7. ReceivedInOrder'
  BY <1>1 DEF ReceivedInOrder
<1>8. ASSUME ~ crossed PROVE SingleInv'
  <2>1. SingleInv
    BY <1>8
  <2>2. writes' = {} /\ outgoing_bytes = <<>> /\ \A u \in Workers : pc[u] = "idle"
    BY <1>1, <2>1 DEF SingleInv, Workers
  <2>3. \A u, v \in Workers : pc'[u] # "idle" /\ pc'[v] # "idle" => u = v
    BY <1>p, <2>2
  <2> QED BY <1>1, <2>1, <2>2, <2>3 DEF SingleInv, Workers
<1>9. ASSUME ~ crossed, open PROVE StreamInv' /\ OrderInv'
  <2>1. \A f \in Frame : Pending(f)' => Pending(f)
    BY <1>4 DEF Pending
  <2>2. \A v : v.done = 1 => (v \in writes' <=> v \in writes)
    BY <1>1, <1>9
  <2> QED BY <1>1, <1>9, <2>1, <2>2, ReaderUntouched
<1> QED BY <1>1, <1>3, <1>5, <1>6, <1>7, <1>8, <1>9

-----------------------------------------------------------------------------

LEMMA NextConnectionInv == ConnectionInv /\ [Next]_vars => ConnectionInv'
<1> SUFFICES ASSUME ConnectionInv, [Next]_vars PROVE ConnectionInv'
  OBVIOUS
<1>1. CASE \E t \in Threads : SendBytes(t)
  BY <1>1, SendBytesInv
<1>2. CASE SendSteps
  BY <1>2, SendNextInv, StartWriteInv, WritePartInv, WriteDoneInv DEF SendSteps, Workers
<1>3. CASE ReadSteps \/ Close \/ ReadFails
  BY <1>3, ReadLengthInv, ReadPayloadInv, CloseInv, ReadFailsInv DEF ReadSteps
<1>4. CASE UNCHANGED vars
  <2> USE DEF ConnectionInv
  <2>1. /\ sent' = sent /\ pc' = pc /\ popped' = popped /\ outgoing_bytes' = outgoing_bytes
        /\ writes' = writes /\ written' = written /\ crossed' = crossed
        /\ wire' = wire /\ reading' = reading /\ received' = received /\ garbled' = garbled
        /\ reads' = reads /\ disconnects' = disconnects /\ open' = open
    BY <1>4 DEF vars, readVars, endVars
  <2>2. FlagsOK'
    BY <2>1, Zenon DEF TypeOK, FlagsOK
  <2>3. TypeOK'
    BY <2>1, <2>2 DEF TypeOK
  <2>4. OnceInv' /\ PlaceInv' /\ (~ crossed' => SingleInv')
    BY <2>1, SendersUntouched
  <2>5. ReceivedInOrder'
    BY <2>1 DEF ReceivedInOrder
  <2>6. ASSUME ~ crossed, open PROVE StreamInv' /\ OrderInv'
    <3>1. \A f \in Frame : Pending(f)' => Pending(f)
      BY <2>1 DEF Pending, Queued, Held, BeingWritten
    <3> QED BY <2>1, <2>6, <3>1, ReaderUntouched
  <2> QED BY <2>1, <2>3, <2>4, <2>5, <2>6
<1> QED BY <1>1, <1>2, <1>3, <1>4 DEF Next

(* In every reachable state: no frame is twice in the queue, in the hands  *)
(* of the threads, in the writes or in two of these; and without crossing  *)
(* SendBytes calls the wire carries whole frames, each thread's in order.  *)
THEOREM ConnectionInvariant == Spec => []ConnectionInv
BY InitConnectionInv, NextConnectionInv, PTL DEF Spec

(* A frame given to SendBytes is in exactly one place while the socket is  *)
(* open: SendBytes, SendNext and the completion handlers neither lose a    *)
(* frame nor send one twice, also when two of them start a write.          *)
THEOREM FramesAreInOnePlace == Spec => []InOnePlace
<1>1. ConnectionInv => InOnePlace
  <2> SUFFICES ASSUME ConnectionInv, open, NEW f \in Frame
               PROVE  LET inQueue == {i \in DOMAIN outgoing_bytes : outgoing_bytes[i] = f}
                          inHand  == {t \in DOMAIN popped : popped[t] = f}
                          inWrite == {w \in writes : w.frame = f /\ w.done < Len(Parts)}
                      IN  Cardinality(inQueue) + Cardinality(inHand) + Cardinality(inWrite)
                            + Cardinality(written \cap {f}) = IF f[2] <= sent[f[1]] THEN 1 ELSE 0
    BY DEF InOnePlace
  <2> DEFINE inQueue == {i \in DOMAIN outgoing_bytes : outgoing_bytes[i] = f}
             inHand  == {t \in DOMAIN popped : popped[t] = f}
             inWrite == {w \in writes : w.frame = f /\ w.done < Len(Parts)}
             inSocket == written \cap {f}
  <2>t. /\ DOMAIN outgoing_bytes = 1 .. Len(outgoing_bytes) /\ DOMAIN popped = Workers
        /\ Len(Parts) = 2 /\ f # NoFrame
    BY Types, PartsFacts, FrameFacts DEF ConnectionInv
  <2>o. OnceInv /\ PlaceInv
    BY DEF ConnectionInv
  <2>1. /\ inQueue # {} <=> Queued(f)
        /\ \A i, j \in inQueue : i = j
    BY <2>t, <2>o DEF Queued, OnceInv
  <2>2. /\ inHand # {} <=> Held(f)
        /\ \A i, j \in inHand : i = j
    BY <2>t, <2>o DEF Held, OnceInv, Workers
  <2>3. /\ inWrite # {} <=> BeingWritten(f)
        /\ \A i, j \in inWrite : i = j
    BY <2>t, <2>o DEF BeingWritten, OnceInv
  <2>4. /\ inSocket # {} <=> f \in written
        /\ \A i, j \in inSocket : i = j
    OBVIOUS
  <2>5. BeingWritten(f) => f \notin written
    BY <2>o DEF BeingWritten, OnceInv
  <2> HIDE DEF inQueue, inHand, inWrite, inSocket
  <2>6. ASSUME NEW S, \A i, j \in S : i = j
        PROVE  Cardinality(S) = IF S = {} THEN 0 ELSE 1
    <3>1. CASE S = {}
      BY <3>1, FS_EmptySet
    <3>2. CASE S # {}
      <4>1. PICK x \in S : TRUE
        BY <3>2
      <4>2. S = {x}
        BY <2>6, <4>1
      <4>3. Cardinality({x}) = 1
        BY FS_Singleton
      <4> QED BY <3>2, <4>2, <4>3
    <3> QED BY <3>1, <3>2
  <2>7. /\ Cardinality(inQueue) = IF Queued(f) THEN 1 ELSE 0
        /\ Cardinality(inHand) = IF Held(f) THEN 1 ELSE 0
        /\ Cardinality(inWrite) = IF BeingWritten(f) THEN 1 ELSE 0
        /\ Cardinality(inSocket) = IF f \in written THEN 1 ELSE 0
    BY <2>1, <2>2, <2>3, <2>4, <2>6
  <2>8. /\ Queued(f) => ~ Held(f) /\ ~ BeingWritten(f) /\ f \notin written
        /\ Held(f) => ~ BeingWritten(f) /\ f \notin written
        /\ Given(f) <=> Queued(f) \/ Held(f) \/ BeingWritten(f) \/ f \in written
    BY <2>o DEF PlaceInv
  <2>9. Cardinality(inQueue) + Cardinality(inHand) + Cardinality(inWrite) + Cardinality(inSocket)
          = IF Given(f) THEN 1 ELSE 0
    BY <2>5, <2>7, <2>8
  <2> QED BY <2>9 DEF inQueue, inHand, inWrite, inSocket, Given
<1> QED BY <1>1, ConnectionInvariant, PTL

(* As long as nobody calls SendBytes while a frame is on its way, the      *)
(* reader takes nothing else for a prefix or a payload, and the frames of  *)
(* a thread arrive in the order of its calls.                              *)
THEOREM FramesArriveInOrder == Spec => []ReceivedInOrder
<1>1. ConnectionInv => ReceivedInOrder
  BY DEF ConnectionInv
<1> QED BY <1>1, ConnectionInvariant, PTL

=============================================================================
