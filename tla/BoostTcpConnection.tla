-------------------------- MODULE BoostTcpConnection --------------------------
(***************************************************************************)
(* BoostTcpConnection: one end sends, the other end reads.  SendBytes may  *)
(* be called by any thread; it queues the frame and, if the queue was      *)
(* empty, starts a write.  SendNext takes the frame OUT of the queue and   *)
(* releases the mutex before it starts async_write, so the queue does not  *)
(* show a write under way, and a second one may be started next to it.     *)
(*                                                                         *)
(* A frame is its length prefix and its payload; asio sends it in pieces,  *)
(* here the two parts, and pieces of writes that run at the same time mix  *)
(* (asio leaves the outcome open).  The reader reads a prefix and then as  *)
(* many bytes.                                                             *)
(*                                                                         *)
(* An operator named X_Y is a mutant of X: the code with the mistake Y,    *)
(* used to show that a property can fail.                                  *)
(***************************************************************************)
EXTENDS Integers, Sequences, FiniteSets

CONSTANTS
  Threads,    \* threads that call SendBytes on this connection
  Sends       \* bound: messages each of them sends

ASSUME ConnectionAssumption == Sends \in [Threads -> Nat]

VARIABLES
  sent,       \* per thread, how many messages it has given to SendBytes
  pc,         \* per thread and for the I/O thread, where it is in SendNext
  popped,     \* the frame each of them has taken from the queue
  outgoing_bytes,
  writes,     \* the async_writes under way: frame and parts already sent
  wire,       \* parts sent and not yet read
  reading,    \* the prefix the reader has read, or <<>>
  received,   \* history: frames given to OnReceive
  written,    \* history: frames the socket has taken completely
  open,       \* the socket is open
  garbled,    \* the reader took something else for a prefix or a payload
  reads,      \* the sending end has its own read pending
  crossed,    \* history: SendBytes was called while a frame was on its way
  disconnects \* OnDisconnect calls of the sending end (0, 1, or more: 2)

readVars == <<wire, reading, received, garbled>>
endVars  == <<open, reads, disconnects>>
vars == <<sent, crossed, pc, popped, outgoing_bytes, writes, written, readVars, endVars>>

IO == "io"

Frame == UNION {{t} \X (1 .. Sends[t]) : t \in Threads}

NoFrame == <<>>

Parts_PayloadFirst == <<"payload", "length">>

(* What SendBytes puts into the buffer, in this order. *)
Parts == <<"length", "payload">>

(* HandleError calls OnDisconnect. *)
Reported == IF disconnects = 2 THEN 2 ELSE disconnects + 1

(* No frame is queued, taken from the queue or being written. *)
Quiet ==
  /\ outgoing_bytes = <<>> /\ writes = {}
  /\ \A t \in Threads \cup {IO} : pc[t] = "idle"

Init ==
  /\ crossed = FALSE
  /\ sent = [t \in Threads |-> 0]
  /\ pc = [t \in Threads \cup {IO} |-> "idle"]
  /\ popped = [t \in Threads \cup {IO} |-> NoFrame]
  /\ outgoing_bytes = <<>>
  /\ writes = {} /\ written = {}
  /\ wire = <<>> /\ reading = <<>> /\ received = <<>>
  /\ open = TRUE /\ garbled = FALSE /\ reads = TRUE
  /\ disconnects = 0

-----------------------------------------------------------------------------
(* Sending.                                                                *)

(* SendBytes: queue the frame; go on to SendNext if it is the only one. *)
SendBytes(t) ==
  /\ pc[t] = "idle"
  /\ sent[t] < Sends[t]
  /\ sent' = [sent EXCEPT ![t] = @ + 1]
  /\ crossed' = (crossed \/ ~ Quiet)
  /\ outgoing_bytes' = Append(outgoing_bytes, <<t, sent[t] + 1>>)
  /\ pc' = [pc EXCEPT ![t] = IF outgoing_bytes # <<>> THEN "idle" ELSE "next"]
  /\ UNCHANGED <<popped, writes, written, readVars, endVars>>

(* SendNext, its critical section. *)
SendNext(t) ==
  /\ pc[t] = "next"
  /\ \/ /\ outgoing_bytes = <<>>
        /\ pc' = [pc EXCEPT ![t] = "idle"]
        /\ UNCHANGED <<popped, outgoing_bytes>>
     \/ /\ outgoing_bytes # <<>>
        /\ popped' = [popped EXCEPT ![t] = Head(outgoing_bytes)]
        /\ outgoing_bytes' = Tail(outgoing_bytes)
        /\ pc' = [pc EXCEPT ![t] = "write"]
  /\ UNCHANGED <<sent, crossed, writes, written, readVars, endVars>>

StartWrite_Drops(t) ==
  /\ pc[t] = "write"
  /\ writes' = IF writes = {} THEN {[frame |-> popped[t], done |-> 0]} ELSE writes
  /\ popped' = [popped EXCEPT ![t] = NoFrame]
  /\ pc' = [pc EXCEPT ![t] = "idle"]
  /\ UNCHANGED <<sent, crossed, outgoing_bytes, written, readVars, endVars>>

(* async_write is started. *)
StartWrite(t) ==
  /\ pc[t] = "write"
  /\ writes' = writes \cup {[frame |-> popped[t], done |-> 0]}
  /\ popped' = [popped EXCEPT ![t] = NoFrame]
  /\ pc' = [pc EXCEPT ![t] = "idle"]
  /\ UNCHANGED <<sent, crossed, outgoing_bytes, written, readVars, endVars>>

(* The socket takes the next part of a write (asio, external). *)
WritePart(w) ==
  /\ open
  /\ w \in writes
  /\ w.done < Len(Parts)
  /\ wire' = Append(wire, [frame |-> w.frame, part |-> Parts[w.done + 1]])
  /\ writes' = (writes \ {w}) \cup {[w EXCEPT !.done = @ + 1]}
  /\ written' = IF w.done + 1 = Len(Parts) THEN written \cup {w.frame} ELSE written
  /\ UNCHANGED <<sent, crossed, pc, popped, outgoing_bytes, reading, received, garbled, endVars>>

WriteDone_Stops(w) ==
  /\ pc[IO] = "idle"
  /\ w \in writes
  /\ \/ w.done = Len(Parts) /\ UNCHANGED disconnects
     \/ w.done < Len(Parts) /\ ~ open /\ disconnects' = Reported
  /\ writes' = writes \ {w}
  /\ UNCHANGED <<sent, crossed, pc, popped, outgoing_bytes, written, readVars, open, reads>>

(* The completion handler, on the I/O thread: after an error it reports    *)
(* the disconnect and leaves the queue alone, otherwise SendNext follows.  *)
WriteDone(w) ==
  /\ pc[IO] = "idle"
  /\ w \in writes
  /\ \/ /\ w.done = Len(Parts)
        /\ pc' = [pc EXCEPT ![IO] = "next"]
        /\ UNCHANGED disconnects
     \/ /\ w.done < Len(Parts)
        /\ ~ open
        /\ disconnects' = Reported
        /\ UNCHANGED pc
  /\ writes' = writes \ {w}
  /\ UNCHANGED <<sent, crossed, popped, outgoing_bytes, written, readVars, open, reads>>

-----------------------------------------------------------------------------
(* Reading, at the other end, and the end of the connection.               *)

(* The prefix.  If it is no prefix the length is arbitrary: above          *)
(* MaxMessageBytes, which ends the connection, or the length of something. *)
ReadLength ==
  /\ open
  /\ reading = <<>>
  /\ wire # <<>>
  /\ wire' = Tail(wire)
  /\ garbled' = (garbled \/ Head(wire).part # "length")
  /\ \/ reading' = <<Head(wire).frame>> /\ UNCHANGED open
     \/ Head(wire).part # "length" /\ open' = FALSE /\ UNCHANGED reading
  /\ UNCHANGED <<sent, crossed, pc, popped, outgoing_bytes, writes, written, received, reads,
                 disconnects>>

(* The payload, and OnReceive. *)
ReadPayload ==
  /\ open
  /\ reading # <<>>
  /\ wire # <<>>
  /\ wire' = Tail(wire)
  /\ received' = Append(received, Head(wire).frame)
  /\ garbled' = (garbled \/ Head(wire) # [frame |-> reading[1], part |-> "payload"])
  /\ reading' = <<>>
  /\ UNCHANGED <<sent, crossed, pc, popped, outgoing_bytes, writes, written, endVars>>

(* The peer goes away, or Disconnect closes the socket. *)
Close ==
  /\ open
  /\ open' = FALSE
  /\ UNCHANGED <<sent, crossed, pc, popped, outgoing_bytes, writes, written, readVars, reads,
                 disconnects>>

ReadFails_Silent ==
  /\ ~ open
  /\ pc[IO] = "idle"
  /\ reads
  /\ reads' = FALSE
  /\ UNCHANGED <<sent, crossed, pc, popped, outgoing_bytes, writes, written, readVars, open,
                 disconnects>>

(* The read the sending end always has pending fails: HandleError. *)
ReadFails ==
  /\ ~ open
  /\ pc[IO] = "idle"
  /\ reads
  /\ reads' = FALSE
  /\ disconnects' = Reported
  /\ UNCHANGED <<sent, crossed, pc, popped, outgoing_bytes, writes, written, readVars, open>>

-----------------------------------------------------------------------------

SendSteps ==
  \/ \E t \in Threads \cup {IO} : SendNext(t) \/ StartWrite(t)
  \/ \E w \in writes : WritePart(w) \/ WriteDone(w)

ReadSteps == ReadLength \/ ReadPayload

Next ==
  \/ \E t \in Threads : SendBytes(t)
  \/ SendSteps
  \/ ReadSteps
  \/ Close
  \/ ReadFails

Spec == Init /\ [][Next]_vars

(* Every thread goes on, every write that can proceed does, the peer reads.*)
FairSpec ==
  /\ Spec
  /\ \A t \in Threads \cup {IO} : WF_vars(SendNext(t) \/ StartWrite(t))
  /\ WF_vars(\E w \in writes : WritePart(w) \/ WriteDone(w))
  /\ WF_vars(ReadSteps) /\ WF_vars(ReadFails)

-----------------------------------------------------------------------------

FlagsOK ==
  open \in BOOLEAN /\ garbled \in BOOLEAN /\ reads \in BOOLEAN /\ crossed \in BOOLEAN

(* What is queued, being written and on the wire are frames. *)
TypeOK ==
  /\ sent \in [Threads -> Nat] /\ \A t \in Threads : sent[t] <= Sends[t]
  /\ pc \in [Threads \cup {IO} -> {"idle", "next", "write"}]
  /\ popped \in [Threads \cup {IO} -> Frame \cup {NoFrame}]
  /\ outgoing_bytes \in Seq(Frame)
  /\ writes \subseteq [frame : Frame, done : 0 .. 2] /\ written \subseteq Frame
  /\ wire \in Seq([frame : Frame, part : {"length", "payload"}])
  /\ reading = <<>> \/ \E f \in Frame : reading = <<f>>
  /\ received \in Seq(Frame)
  /\ disconnects \in 0 .. 2
  /\ FlagsOK

(* While the socket is open a frame that was sent is in exactly one place: *)
(* no interleaving of SendBytes, SendNext and the completion handler takes *)
(* it from the queue twice or loses it.                                    *)
InOnePlace ==
  open =>
    \A f \in Frame :
      LET inQueue == {i \in DOMAIN outgoing_bytes : outgoing_bytes[i] = f}
          inHand  == {t \in DOMAIN popped : popped[t] = f}
          inWrite == {w \in writes : w.frame = f /\ w.done < Len(Parts)}
      IN  Cardinality(inQueue) + Cardinality(inHand) + Cardinality(inWrite)
            + Cardinality(written \cap {f}) = IF f[2] <= sent[f[1]] THEN 1 ELSE 0

(* A frame given to SendBytes is written to the socket, unless the         *)
(* connection ends.                                                        *)
EveryFrameWritten ==
  \A f \in Frame : (sent[f[1]] >= f[2]) ~> (f \in written \/ ~ open)

(* When the socket has failed or was closed, OnDisconnect is called, even  *)
(* if nothing is being sent.                                               *)
DisconnectReported == ~ open ~> (disconnects > 0)

(* README, Networking: the first 4 bytes are the payload length and the    *)
(* remaining bytes the payload: the reader never takes anything else for   *)
(* a prefix or a payload.  Violated: the parts of two writes mix.          *)
FramingIntact == ~ garbled

(* As long as nobody calls SendBytes while a frame is on its way, frames   *)
(* arrive whole, and none overtakes another of its thread.                 *)
ReceivedInOrder ==
  ~ crossed =>
    /\ ~ garbled
    /\ \A i, j \in DOMAIN received :
         i < j /\ received[i][1] = received[j][1] => received[i][2] < received[j][2]

-----------------------------------------------------------------------------
(* The inductive invariant behind the safety properties.                   *)

Queued(f) == \E i \in 1 .. Len(outgoing_bytes) : outgoing_bytes[i] = f
Held(f) == \E t \in Threads \cup {IO} : popped[t] = f
BeingWritten(f) == \E w \in writes : w.frame = f /\ w.done < 2
Given(f) == f[2] <= sent[f[1]]

(* No place has a frame twice. *)
OnceInv ==
  /\ \A t \in Threads \cup {IO} : pc[t] = "write" <=> popped[t] # NoFrame
  /\ \A t, u \in Threads \cup {IO} : popped[t] = popped[u] /\ popped[t] # NoFrame => t = u
  /\ \A i, j \in 1 .. Len(outgoing_bytes) : outgoing_bytes[i] = outgoing_bytes[j] => i = j
  /\ \A w, v \in writes : w.frame = v.frame => w = v
  /\ \A w \in writes : w.done = 2 <=> w.frame \in written

(* No two places have the same frame, and while the socket is open one has *)
(* each frame that was given to SendBytes.                                 *)
PlaceInv ==
  \A f \in Frame :
    /\ Queued(f) => ~ Held(f) /\ ~ BeingWritten(f) /\ f \notin written
    /\ Held(f) => ~ BeingWritten(f) /\ f \notin written
    /\ Queued(f) \/ Held(f) \/ BeingWritten(f) \/ f \in written => Given(f)
    /\ open /\ Given(f) => Queued(f) \/ Held(f) \/ BeingWritten(f) \/ f \in written

(* When SendBytes is called only in between, there is one frame on its way *)
(* and one thread in SendNext at most.                                     *)
SingleInv ==
  /\ Len(outgoing_bytes) <= 1
  /\ \A t, u \in Threads \cup {IO} : pc[t] # "idle" /\ pc[u] # "idle" => t = u
  /\ \A w, v \in writes : w = v
  /\ outgoing_bytes # <<>> => writes = {} /\ \A t \in Threads \cup {IO} : pc[t] # "write"
  /\ writes # {} => \A t \in Threads \cup {IO} : pc[t] = "idle"

(* What is on the wire are then whole frames, up to the one being written. *)
EndsIn(f) ==
  IF wire = <<>> THEN reading = <<f>> ELSE wire[Len(wire)] = [frame |-> f, part |-> "length"]
StreamInv ==
  /\ wire # <<>> =>
       IF reading = <<>> THEN wire[1].part = "length"
       ELSE wire[1] = [frame |-> reading[1], part |-> "payload"]
  /\ \A k \in 1 .. (Len(wire) - 1) :
       IF wire[k].part = "length"
       THEN wire[k + 1] = [frame |-> wire[k].frame, part |-> "payload"]
       ELSE wire[k + 1].part = "length"
  /\ \A w \in writes : w.done = 1 => EndsIn(w.frame)
  /\ (\A w \in writes : w.done # 1) => \A f \in Frame : ~ EndsIn(f)

(* Frames of one thread stay in the order of their SendBytes calls. *)
Before(f, g) == f[1] = g[1] => f[2] < g[2]
Pending(f) == Queued(f) \/ Held(f) \/ BeingWritten(f)

OrderInv ==
  /\ \A k \in 1 .. Len(wire) : Given(wire[k].frame)
  /\ \A i \in 1 .. Len(received) : Given(received[i])
  /\ \A i \in 1 .. Len(received), k \in 1 .. Len(wire) : Before(received[i], wire[k].frame)
  /\ \A k, l \in 1 .. Len(wire) :
       k < l /\ wire[k].part = "payload" => Before(wire[k].frame, wire[l].frame)
  /\ \A f \in Frame : Pending(f) =>
       /\ \A i \in 1 .. Len(received) : Before(received[i], f)
       /\ \A k \in 1 .. Len(wire) : wire[k].part = "payload" => Before(wire[k].frame, f)

ConnectionInv ==
  /\ TypeOK /\ OnceInv /\ PlaceInv
  /\ ~ crossed => SingleInv
  /\ ReceivedInOrder
  /\ ~ crossed /\ open => StreamInv /\ OrderInv

=============================================================================
