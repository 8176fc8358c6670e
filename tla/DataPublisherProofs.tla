------------------------ MODULE DataPublisherProofs ------------------------
(***************************************************************************)
(* Proofs about DataPublisher, for every set of messages and every number  *)
(* of calls.                                                               *)
(***************************************************************************)
EXTENDS DataPublisher, TLAPS

USE MessagesAssumption, BoundAssumption

(* A call has a connection of its own and a message.                       *)
CallInv ==
    /\ call # "idle" => calls >= 1
    /\ \A c \in 1 .. calls : message[c] \in Messages

TypeInv == PublisherTypeOK /\ CallInv

(* The three units of a frame.                                             *)
LEMMA FrameTyped ==
    ASSUME NEW m \in Messages
    PROVE  /\ StreamStart \in Units /\ Length(m) \in Units /\ Content(m) \in Units
           /\ Len(Frame(m)) = 3 /\ Frame(m) \in Seq(Units)
           /\ Frame(m)[1] = StreamStart /\ Frame(m)[2] = Length(m) /\ Frame(m)[3] = Content(m)
  BY DEF Frame, Units

(* The types hold at the beginning.                                        *)
LEMMA InitTyped == Init => TypeInv
  BY DEF Init, TypeInv, PublisherTypeOK, CallInv, Calls, Connections

(* The connection of the call that is under way.                           *)
LEMMA CallTyped ==
    ASSUME TypeInv, call # "idle"
    PROVE  calls \in Connections /\ message[calls] \in Messages /\ calls \in 1 .. calls
  BY DEF TypeInv, PublisherTypeOK, CallInv, Connections

(* What send does to them, whichever unit it sends.                        *)
LEMMA SendTyped ==
    ASSUME TypeInv, call # "idle", NEW unit \in Units, NEW next \in Calls \ {"idle"},
           Send(unit, next)
    PROVE  TypeInv'
  <1>1. calls \in Connections /\ Append(sent[calls], unit) \in Seq(Units)
    BY CallTyped DEF TypeInv, PublisherTypeOK
  <1>2. sent' \in [Connections -> Seq(Units)]
    BY <1>1 DEF Send, TypeInv, PublisherTypeOK
  <1>3. call' \in Calls
    BY DEF Send, Calls
  <1>4. PublisherTypeOK'
    BY <1>2, <1>3 DEF Send, TypeInv, PublisherTypeOK, workerSide
  <1>5. CallInv'
    BY DEF Send, TypeInv, CallInv
  <1> QED
    BY <1>4, <1>5 DEF TypeInv

(* What recv does to them.                                                 *)
LEMMA ReceiveTyped ==
    ASSUME TypeInv, call # "idle", NEW next \in Calls \ {"idle"}, Receive(next)
    PROVE  TypeInv'
  <1>1. answers' \in [Connections -> Nat]
    <2>1. calls \in Connections /\ answers[calls] \in Nat
      BY CallTyped DEF TypeInv, PublisherTypeOK
    <2>2. \A n \in 1 .. answers[calls] : answers[calls] - n \in Nat
      BY <2>1
    <2> QED
      BY <2>1, <2>2 DEF Receive, TypeInv, PublisherTypeOK
  <1>2. PublisherTypeOK'
    BY <1>1 DEF Receive, TypeInv, PublisherTypeOK, workerSide
  <1>3. CallInv'
    BY DEF Receive, TypeInv, CallInv
  <1> QED
    BY <1>2, <1>3 DEF TypeInv

(* A call begins.                                                          *)
LEMMA PublishTyped ==
    ASSUME TypeInv, NEW m \in Messages, Publish(m)
    PROVE  TypeInv'
  <1>1. calls' = calls + 1 /\ calls' \in Connections /\ calls' \in 0 .. MaxPublishes /\ calls \in Nat
    BY DEF Publish, TypeInv, PublisherTypeOK, Connections
  <1>2. message' = [message EXCEPT ![calls'] = m]
    BY <1>1 DEF Publish
  <1>3. PublisherTypeOK'
    BY <1>1, <1>2 DEF Publish, TypeInv, PublisherTypeOK, Calls, connection, workerSide
  <1>4. CallInv'
    BY <1>1, <1>2 DEF Publish, TypeInv, CallInv, PublisherTypeOK
  <1> QED
    BY <1>3, <1>4 DEF TypeInv

(* Its socket is made, or not.                                             *)
LEMMA ConnectTyped ==
    ASSUME TypeInv, Connect
    PROVE  TypeInv'
  <1>1. calls \in Connections /\ calls \in 1 .. calls
    BY CallTyped DEF Connect
  <1>2. sock' \in [Connections -> {"closed", "connected", "refused", "invalid"}]
    BY <1>1 DEF Connect, TypeInv, PublisherTypeOK
  <1>3. faults' \in [Connections -> SUBSET {"connect", "split", "left"}]
    BY <1>1 DEF Connect, TypeInv, PublisherTypeOK
  <1>4. serving' \subseteq 1 .. calls
    BY <1>1 DEF Connect, TypeInv, PublisherTypeOK
  <1>5. PublisherTypeOK'
    BY <1>2, <1>3, <1>4 DEF Connect, TypeInv, PublisherTypeOK, Calls, connection
  <1>6. CallInv'
    BY DEF Connect, TypeInv, CallInv
  <1> QED
    BY <1>5, <1>6 DEF TypeInv

(* Its socket is closed; what a reset leaves are units still.              *)
LEMMA CloseTyped ==
    ASSUME TypeInv, Close
    PROVE  TypeInv'
  <1>1. calls \in Connections
    BY CallTyped DEF Close
  <1>2. sent' \in [Connections -> Seq(Units)]
    <2>1. sent[calls] \in Seq(Units) /\ <<>> \in Seq(Units)
      BY <1>1 DEF TypeInv, PublisherTypeOK
    <2>2. PICK units \in {sent[calls], <<>>} : sent' = [sent EXCEPT ![calls] = units]
      BY DEF Close, AfterReset
    <2> QED
      BY <2>1, <2>2 DEF TypeInv, PublisherTypeOK
  <1>3. PublisherTypeOK'
    BY <1>1, <1>2 DEF Close, TypeInv, PublisherTypeOK, Calls, workerSide
  <1>4. CallInv'
    BY DEF Close, TypeInv, CallInv
  <1> QED
    BY <1>3, <1>4 DEF TypeInv

(* The worker's steps.                                                     *)
LEMMA WorkerTyped ==
    ASSUME TypeInv, NEW c \in Connections, Take(c) \/ Answer(c) \/ Leave(c)
    PROVE  TypeInv'
  <1>1. UNCHANGED <<call, calls, message, sock>> /\ serving' \subseteq serving
    BY DEF Take, Answer, Leave
  <1>2. /\ sent[c] \in Seq(Units) /\ taken[c] \in Seq(Units) /\ answers[c] \in Nat
        /\ unanswered[c] \in 0 .. 2
    BY DEF TypeInv, PublisherTypeOK
  <1>3. CASE Take(c)
    <2>1. /\ Tail(sent[c]) \in Seq(Units) /\ Append(taken[c], Head(sent[c])) \in Seq(Units)
      BY <1>2, <1>3 DEF Take
    <2>2. taken' \in [Connections -> Seq(Units)] /\ sent' \in [Connections -> Seq(Units)]
      BY <1>3, <2>1 DEF Take, TypeInv, PublisherTypeOK
    <2>3. unanswered' \in [Connections -> 0 .. 2]
      BY <1>3 DEF Take, TypeInv, PublisherTypeOK
    <2>4. faults' \in [Connections -> SUBSET {"connect", "split", "left"}]
      <3>1. faults' = faults \/ faults' = [faults EXCEPT ![c] = @ \cup {"split"}]
        BY <1>3 DEF Take
      <3>2. faults[c] \cup {"split"} \in SUBSET {"connect", "split", "left"}
        BY DEF TypeInv, PublisherTypeOK
      <3> QED
        BY <3>1, <3>2 DEF TypeInv, PublisherTypeOK
    <2>5. PublisherTypeOK'
      BY <1>1, <1>3, <2>2, <2>3, <2>4 DEF Take, TypeInv, PublisherTypeOK
    <2> QED
      BY <1>1, <2>5 DEF TypeInv, CallInv
  <1>4. CASE Answer(c)
    <2>1. unanswered[c] - 1 \in 0 .. 2 /\ answers[c] + 1 \in Nat
      BY <1>2, <1>4 DEF Answer
    <2>2. \E units \in {sent[c], <<>>} : sent' = [sent EXCEPT ![c] = units]
      BY <1>4 DEF Answer, AfterReset, TypeInv, PublisherTypeOK
    <2>3. sent' \in [Connections -> Seq(Units)]
      <3>1. PICK units \in {sent[c], <<>>} : sent' = [sent EXCEPT ![c] = units]
        BY <2>2
      <3>2. sent[c] \in Seq(Units) /\ <<>> \in Seq(Units)
        BY <1>2
      <3> QED
        BY <3>1, <3>2 DEF TypeInv, PublisherTypeOK
    <2>4. answers' \in [Connections -> Nat] /\ unanswered' \in [Connections -> 0 .. 2]
      BY <1>4, <2>1 DEF Answer, TypeInv, PublisherTypeOK
    <2>5. PublisherTypeOK'
      BY <1>1, <1>4, <2>3, <2>4 DEF Answer, TypeInv, PublisherTypeOK
    <2> QED
      BY <1>1, <2>5 DEF TypeInv, CallInv
  <1>5. CASE Leave(c)
    <2>1. PublisherTypeOK'
      BY <1>1, <1>5 DEF Leave, TypeInv, PublisherTypeOK
    <2> QED
      BY <1>1, <2>1 DEF TypeInv, CallInv
  <1> QED
    BY <1>3, <1>4, <1>5

(* Every step keeps the types.                                             *)
LEMMA NextTyped ==
    ASSUME TypeInv, [Next]_vars
    PROVE  TypeInv'
  <1>1. CASE \E m \in Messages : Publish(m)
    BY <1>1, PublishTyped
  <1>2. CASE Connect
    BY <1>2, ConnectTyped
  <1>3. CASE SendStart \/ SendLength \/ SendData
    <2>1. call # "idle"
      BY <1>3 DEF SendStart, SendLength, SendData
    <2>2. StreamStart \in Units /\ Length(message[calls]) \in Units /\ Content(message[calls]) \in Units
      BY <2>1, CallTyped, FrameTyped
    <2> QED
      BY <1>3, <2>1, <2>2, SendTyped DEF SendStart, SendLength, SendData, Calls
  <1>4. CASE ReceiveStartAck \/ ReceiveLengthAck
    BY <1>4, ReceiveTyped DEF ReceiveStartAck, ReceiveLengthAck, Calls
  <1>5. CASE Close
    BY <1>5, CloseTyped
  <1>6. CASE \E c \in Connections : Take(c) \/ Answer(c) \/ Leave(c)
    BY <1>6, WorkerTyped
  <1>7. CASE UNCHANGED vars
    BY <1>7 DEF vars, TypeInv, PublisherTypeOK, CallInv
  <1> QED
    BY <1>1, <1>2, <1>3, <1>4, <1>5, <1>6, <1>7 DEF Next, PublisherStep

(* The state of both ends keeps its types.                                 *)
THEOREM PublisherTypeCorrect == Spec => []PublisherTypeOK
  <1>1. TypeInv => PublisherTypeOK
    BY DEF TypeInv
  <1> QED
    BY <1>1, InitTyped, NextTyped, PTL DEF Spec

-----------------------------------------------------------------------------
(* The units of a connection.                                              *)

Taken(c)    == Len(taken[c])
OnTheWay(c) == Len(sent[c])
Given(c)    == Taken(c) + OnTheWay(c)

(* Units sent and answers received by the present call, if it has a peer.   *)
SentSoFar ==
    IF call \in {"connect", "start"} THEN 0
    ELSE IF call \in {"start_ack", "length"} THEN 1
    ELSE IF call \in {"length_ack", "data"} THEN 2
    ELSE 3

Received ==
    IF call \in {"connect", "start", "start_ack"} THEN 0
    ELSE IF call \in {"length", "length_ack"} THEN 1
    ELSE 2

(* What was taken and what is on its way continue one frame.               *)
Framed(c) ==
    /\ Given(c) <= 3
    /\ \A i \in 1 .. Taken(c) : taken[c][i] = Frame(message[c])[i]
    /\ \A i \in 1 .. OnTheWay(c) : sent[c][i] = Frame(message[c])[Taken(c) + i]

Fresh(c) ==
    /\ c \notin serving /\ sent[c] = <<>> /\ taken[c] = <<>>
    /\ answers[c] = 0 /\ unanswered[c] = 0 /\ faults[c] = {}

UnderWay == call \notin {"idle", "connect", "killed"}

OrderInv ==
    /\ \A c \in 1 .. calls : Framed(c)
    /\ \A c \in Connections : (c > calls \/ (c = calls /\ call = "connect")) => Fresh(c)
    /\ UnderWay /\ calls \in serving => Given(calls) = SentSoFar /\ sock[calls] = "connected"

(* Without a fault, the answers are those to the units taken, one each.    *)
Acknowledged(c) == IF Taken(c) >= 2 THEN 2 ELSE Taken(c)

(* A call that returned has left its message with the worker, and both      *)
(* answers have been received; one that is under way is in step with it.   *)
Settled(c) ==
    Given(c) = 3 /\ answers[c] = 0 /\ unanswered[c] = 0 /\ Taken(c) >= 2

InStep(c) ==
    /\ sock[c] = "connected"
    /\ c \in serving \/ (call = "close" /\ Taken(c) = 3)
    /\ Given(c) = SentSoFar
    /\ answers[c] + unanswered[c] + Received = Acknowledged(c)

FaultFreeInv ==
    \A c \in 1 .. calls : faults[c] = {} =>
        /\ c < calls \/ call = "idle" => Settled(c)
        /\ c = calls /\ UnderWay => InStep(c)

UnitInv == OrderInv /\ FaultFreeInv

(* What is counted of a connection are numbers.                            *)
LEMMA UnitsTyped ==
    ASSUME TypeInv, NEW c \in Connections
    PROVE  /\ sent[c] \in Seq(Units) /\ taken[c] \in Seq(Units)
           /\ OnTheWay(c) \in Nat /\ Taken(c) \in Nat /\ Given(c) \in Nat
           /\ answers[c] \in Nat /\ unanswered[c] \in 0 .. 2
  BY DEF TypeInv, PublisherTypeOK, Given, Taken, OnTheWay

(* The connections in use are those of the calls so far.                   *)
LEMMA CallsTyped ==
    ASSUME TypeInv
    PROVE  calls \in Nat /\ (\A c \in 1 .. calls : c \in Connections) /\ serving \subseteq 1 .. calls
  BY DEF TypeInv, PublisherTypeOK, Connections

(* A connection on which nothing changes.                                  *)
LEMMA SameUnits ==
    ASSUME NEW c, sent'[c] = sent[c], taken'[c] = taken[c]
    PROVE  /\ Given(c)' = Given(c) /\ Acknowledged(c)' = Acknowledged(c)
           /\ message'[c] = message[c] => (Framed(c)' <=> Framed(c))
           /\ answers'[c] = answers[c] /\ unanswered'[c] = unanswered[c] =>
                 (Settled(c)' <=> Settled(c))
  <1>1. Given(c)' = Given(c)
    BY DEF Given, Taken, OnTheWay
  <1>2. message'[c] = message[c] => (Framed(c)' <=> Framed(c))
    BY <1>1 DEF Framed, Frame, Taken, OnTheWay
  <1> QED
    BY <1>1, <1>2 DEF Acknowledged, Settled, Taken, OnTheWay

(* Before the first call every connection is fresh.                        *)
LEMMA InitUnits == Init => UnitInv
  BY DEF Init, UnitInv, OrderInv, FaultFreeInv, Fresh, UnderWay

(* A new call has a fresh connection, and leaves its predecessor's         *)
(* settled.                                                                *)
LEMMA PublishUnits ==
    ASSUME TypeInv, UnitInv, NEW m \in Messages, Publish(m)
    PROVE  UnitInv'
  <1>1. /\ call = "idle" /\ call' = "connect" /\ calls' = calls + 1 /\ calls \in Nat
        /\ calls' \in Connections
        /\ UNCHANGED <<sock, sent, answers, serving, taken, unanswered, faults>>
    BY CallsTyped DEF Publish, connection, workerSide, TypeInv, PublisherTypeOK, Connections
  <1>2. \A c \in 1 .. calls : message'[c] = message[c]
    BY <1>1 DEF Publish, TypeInv, PublisherTypeOK, Connections
  <1>3. \A c \in Connections : c > calls => Fresh(c)
    BY DEF UnitInv, OrderInv
  <1>4. ASSUME NEW c \in 1 .. calls'
        PROVE  Framed(c)'
    <2>1. CASE c \in 1 .. calls
      BY <1>1, <1>2, <2>1, SameUnits DEF UnitInv, OrderInv
    <2>2. CASE c = calls'
      <3>1. sent'[c] = <<>> /\ taken'[c] = <<>>
        BY <1>1, <1>3, <2>2 DEF Fresh
      <3> QED
        BY <3>1 DEF Framed, Given, Taken, OnTheWay
    <2> QED
      BY <1>1, <2>1, <2>2
  <1>5. \A c \in Connections : Fresh(c)' <=> Fresh(c)
    BY <1>1 DEF Fresh
  <1>6. OrderInv'
    BY <1>1, <1>3, <1>4, <1>5 DEF OrderInv, UnderWay, Connections
  <1>7. ASSUME NEW c \in 1 .. calls', faults'[c] = {}, c < calls'
        PROVE  Settled(c)'
    <2>1. c \in 1 .. calls
      BY <1>1, <1>7
    <2>2. Settled(c)
      BY <1>1, <1>7, <2>1 DEF UnitInv, FaultFreeInv
    <2> QED
      BY <1>1, <2>2, SameUnits
  <1>8. FaultFreeInv'
    BY <1>1, <1>7 DEF FaultFreeInv, UnderWay
  <1> QED
    BY <1>6, <1>8 DEF UnitInv

(* What a step of a call shows of its own connection; the calls before it  *)
(* are as they were.                                                       *)
LEMMA CallUnits ==
    ASSUME TypeInv, UnitInv, call # "idle", UNCHANGED <<calls, message, taken, unanswered>>,
           \A c \in Connections \ {calls} :
               /\ sent'[c] = sent[c] /\ answers'[c] = answers[c] /\ faults'[c] = faults[c]
               /\ c \in serving' <=> c \in serving,
           call' # "connect",
           Framed(calls)',
           UnderWay' /\ calls \in serving' => Given(calls)' = SentSoFar' /\ sock'[calls] = "connected",
           faults'[calls] = {} => /\ call' = "idle" => Settled(calls)'
                                  /\ UnderWay' => InStep(calls)'
    PROVE  UnitInv'
  <1>1. /\ calls \in Nat /\ calls \in Connections
        /\ \A c \in 1 .. calls : c \in Connections
        /\ \A c \in 1 .. calls : c < calls <=> c # calls
    BY CallsTyped, CallTyped
  <1>2. ASSUME NEW c \in 1 .. calls
        PROVE  Framed(c)'
    <2>1. CASE c # calls
      BY <1>1, <2>1, SameUnits DEF UnitInv, OrderInv
    <2> QED
      BY <2>1
  <1>3. \A c \in Connections : c > calls => Fresh(c)'
    <2>1. ASSUME NEW c \in Connections, c > calls
          PROVE  Fresh(c)'
      <3>1. Fresh(c) /\ c # calls
        BY <1>1, <2>1 DEF UnitInv, OrderInv, Connections
      <3> QED
        BY <3>1 DEF Fresh
    <2> QED
      BY <2>1
  <1>4. OrderInv'
    BY <1>2, <1>3 DEF OrderInv
  <1>5. ASSUME NEW c \in 1 .. calls, faults'[c] = {}, c # calls
        PROVE  Settled(c)'
    <2>1. Settled(c)
      BY <1>1, <1>5 DEF UnitInv, FaultFreeInv
    <2> QED
      BY <1>1, <1>5, <2>1, SameUnits
  <1>6. FaultFreeInv'
    <2>1. ASSUME NEW c \in 1 .. calls, faults'[c] = {}
          PROVE  /\ c < calls \/ call' = "idle" => Settled(c)'
                 /\ c = calls /\ UnderWay' => InStep(c)'
      BY <1>1, <1>5, <2>1
    <2> QED
      BY <2>1 DEF FaultFreeInv
  <1> QED
    BY <1>4, <1>6 DEF UnitInv

(* A connection begins with nothing sent, or with a fault.                 *)
LEMMA ConnectUnits ==
    ASSUME TypeInv, UnitInv, Connect
    PROVE  UnitInv'
  <1>1. /\ call = "connect" /\ call' = "start" /\ calls \in Connections /\ calls \in 1 .. calls
        /\ UNCHANGED <<calls, message, sent, answers, taken, unanswered>>
    BY CallTyped DEF Connect, connection
  <1>2. /\ sent[calls] = <<>> /\ taken[calls] = <<>> /\ answers[calls] = 0 /\ unanswered[calls] = 0
        /\ calls \notin serving
    BY <1>1 DEF UnitInv, OrderInv, Fresh
  <1>3. /\ \A c \in Connections \ {calls} : faults'[c] = faults[c] /\ (c \in serving' <=> c \in serving)
        /\ faults'[calls] = {} => sock'[calls] = "connected" /\ calls \in serving'
        /\ calls \in serving' => sock'[calls] = "connected"
    <2>1. CASE sock' = [sock EXCEPT ![calls] = "connected"] /\ serving' = serving \cup {calls}
               /\ UNCHANGED faults
      BY <1>1, <2>1 DEF TypeInv, PublisherTypeOK
    <2>2. CASE faults' = [faults EXCEPT ![calls] = {"connect"}] /\ UNCHANGED serving
      <3>1. faults'[calls] # {}
        BY <1>1, <2>2 DEF TypeInv, PublisherTypeOK
      <3>2. \A c \in Connections \ {calls} : faults'[c] = faults[c]
        BY <2>2 DEF TypeInv, PublisherTypeOK
      <3> QED
        BY <1>2, <2>2, <3>1, <3>2
    <2> QED
      BY <2>1, <2>2 DEF Connect
  <1>4. Framed(calls)'
    BY <1>1, SameUnits DEF UnitInv, OrderInv
  <1>5. Given(calls)' = 0 /\ Acknowledged(calls)' = 0 /\ SentSoFar' = 0 /\ Received' = 0
    BY <1>1, <1>2 DEF Given, Taken, OnTheWay, Acknowledged, SentSoFar, Received
  <1>6. faults'[calls] = {} => InStep(calls)'
    BY <1>1, <1>2, <1>3, <1>5 DEF InStep
  <1> QED
    BY <1>1, <1>3, <1>4, <1>5, <1>6, CallUnits

(* The call puts one more unit on its way, if it still has a peer.         *)
LEMMA SendUnits ==
    ASSUME TypeInv, UnitInv, UnderWay, NEW k \in 0 .. 2, SentSoFar = k, call # "close",
           NEW unit \in Units, unit = Frame(message[calls])[k + 1],
           NEW next \in {"start_ack", "length_ack", "close"}, Send(unit, next),
           call' = next => SentSoFar' = k + 1 /\ Received' = Received
    PROVE  UnitInv'
  <1>1. calls \in Connections /\ calls \in 1 .. calls /\ call # "idle"
    BY CallTyped DEF UnderWay
  <1>2. /\ UNCHANGED <<calls, message, sock, answers, serving, taken, unanswered, faults>>
        /\ call' \in {next, "killed"}
        /\ \A c \in Connections \ {calls} : sent'[c] = sent[c]
        /\ \/ /\ calls \in serving /\ call' = next
              /\ sent'[calls] = Append(sent[calls], unit)
           \/ calls \notin serving /\ UNCHANGED sent
    BY <1>1 DEF Send, Peer, workerSide, TypeInv, PublisherTypeOK
  <1>3. Framed(calls) /\ (calls \in serving => Given(calls) = k)
    BY <1>1 DEF UnitInv, OrderInv
  <1>4. sent[calls] \in Seq(Units) /\ OnTheWay(calls) \in Nat /\ Taken(calls) \in Nat
    BY <1>1, UnitsTyped
  <1>5. ASSUME calls \in serving
        PROVE  Given(calls)' = k + 1 /\ Framed(calls)'
    <2>1. /\ OnTheWay(calls)' = OnTheWay(calls) + 1
          /\ \A i \in 1 .. OnTheWay(calls) : sent'[calls][i] = sent[calls][i]
          /\ sent'[calls][OnTheWay(calls) + 1] = unit
      BY <1>2, <1>4, <1>5 DEF OnTheWay
    <2>0. Taken(calls) + OnTheWay(calls) = k
      BY <1>3, <1>5 DEF Given
    <2>2. Given(calls)' = k + 1
      <3>1. Given(calls)' = Taken(calls) + OnTheWay(calls)'
        BY <1>2 DEF Given, Taken, OnTheWay
      <3> QED
        BY <1>4, <2>0, <2>1, <3>1
    <2>3. ASSUME NEW i \in 1 .. OnTheWay(calls)'
          PROVE  sent'[calls][i] = Frame(message[calls])[Taken(calls) + i]
      <3>1. CASE i \in 1 .. OnTheWay(calls)
        BY <1>3, <2>1, <3>1 DEF Framed
      <3>2. CASE i = OnTheWay(calls) + 1
        <4>1. Taken(calls) + i = k + 1
          BY <1>4, <2>0, <3>2
        <4> QED
          BY <2>1, <3>2, <4>1
      <3> QED
        BY <1>4, <2>1, <3>1, <3>2
    <2>4. Framed(calls)'
      <3>1. \A i \in 1 .. Taken(calls) : taken[calls][i] = Frame(message[calls])[i]
        BY <1>3 DEF Framed
      <3>2. (k + 1) <= 3
        OBVIOUS
      <3> QED
        BY <1>2, <2>2, <2>3, <3>1, <3>2 DEF Framed, Frame, Taken, OnTheWay
    <2> QED
      BY <2>2, <2>4
  <1>6. Framed(calls)'
    BY <1>2, <1>3, <1>5, SameUnits
  <1>7. faults[calls] = {} => InStep(calls)
    BY <1>1 DEF UnitInv, FaultFreeInv
  <1>8. faults[calls] = {} /\ UnderWay' => InStep(calls)'
    <2>1. Acknowledged(calls)' = Acknowledged(calls)
      BY <1>2 DEF Acknowledged, Taken, OnTheWay
    <2>2. faults[calls] = {} => calls \in serving
      BY <1>7 DEF InStep
    <2> QED
      BY <1>2, <1>5, <1>7, <2>1, <2>2 DEF InStep
  <1>9. UnderWay' /\ calls \in serving' => Given(calls)' = SentSoFar' /\ sock'[calls] = "connected"
    BY <1>2, <1>5 DEF UnitInv, OrderInv
  <1> QED
    BY <1>1, <1>2, <1>6, <1>8, <1>9, CallUnits

(* An answer received is one less to come, and one more received.          *)
LEMMA ReceiveUnits ==
    ASSUME TypeInv, UnitInv, UnderWay, NEW k \in 1 .. 2, SentSoFar = k, Received = k - 1,
           call # "close", NEW next \in {"length", "data"}, Receive(next),
           SentSoFar' = k, Received' = k
    PROVE  UnitInv'
  <1>1. calls \in Connections /\ calls \in 1 .. calls /\ call # "idle"
    BY CallTyped DEF UnderWay
  <1>2. /\ UNCHANGED <<calls, message, sock, sent, serving, taken, unanswered, faults>>
        /\ call' = next
        /\ \A c \in Connections \ {calls} : answers'[c] = answers[c]
        /\ \/ \E n \in 1 .. answers[calls] : answers'[calls] = answers[calls] - n
           \/ calls \notin serving
    BY <1>1 DEF Receive, Peer, workerSide, TypeInv, PublisherTypeOK
  <1>3. /\ Framed(calls)' /\ Given(calls)' = Given(calls)
        /\ Acknowledged(calls)' = Acknowledged(calls)
    BY <1>1, <1>2, SameUnits DEF UnitInv, OrderInv
  <1>4. UnderWay' /\ calls \in serving' => Given(calls)' = SentSoFar' /\ sock'[calls] = "connected"
    BY <1>2, <1>3 DEF UnitInv, OrderInv
  <1>5. ASSUME faults[calls] = {}
        PROVE  InStep(calls)'
    <2>1. InStep(calls)
      BY <1>1, <1>5 DEF UnitInv, FaultFreeInv
    <2>2. /\ sock[calls] = "connected" /\ calls \in serving /\ Given(calls) = k
          /\ answers[calls] + unanswered[calls] + (k - 1) = Acknowledged(calls)
      BY <2>1 DEF InStep
    <2>3. /\ answers[calls] \in Nat /\ unanswered[calls] \in Nat
          /\ Acknowledged(calls) \in Nat /\ Acknowledged(calls) <= k
      <3>1. Taken(calls) \in Nat /\ Taken(calls) <= k
        <4>1. Taken(calls) + OnTheWay(calls) = k
          BY <2>2 DEF Given
        <4>2. Taken(calls) \in Nat /\ OnTheWay(calls) \in Nat
          BY <1>1, UnitsTyped
        <4> QED
          BY <4>1, <4>2
      <3> QED
        BY <1>1, <3>1, UnitsTyped DEF Acknowledged
    <2>4. answers[calls] <= 1
      BY <2>2, <2>3
    <2>5. PICK n \in 1 .. answers[calls] : answers'[calls] = answers[calls] - n
      BY <1>2, <2>2
    <2>6. answers'[calls] + unanswered[calls] + k = Acknowledged(calls)
      <3>1. n = 1 /\ answers[calls] = 1
        BY <2>3, <2>4, <2>5
      <3>2. answers'[calls] = 0
        BY <2>5, <3>1
      <3>3. 1 + unanswered[calls] + (k - 1) = Acknowledged(calls)
        BY <2>2, <3>1
      <3>4. unanswered[calls] \in Nat
        BY <2>3
      <3> QED
        BY <3>2, <3>3, <3>4
    <2> QED
      BY <1>2, <1>3, <2>2, <2>6 DEF InStep
  <1> QED
    BY <1>1, <1>2, <1>3, <1>4, <1>5, CallUnits

(* How many answers a connection can have.                                 *)
LEMMA AcknowledgedTyped ==
    ASSUME TypeInv, NEW c \in Connections
    PROVE  /\ Acknowledged(c) \in Nat /\ Acknowledged(c) <= 2
           /\ Acknowledged(c) = 2 => Taken(c) >= 2
  BY UnitsTyped DEF Acknowledged

(* What a reset leaves is still framed.                                    *)
LEMMA ResetUnits ==
    ASSUME TypeInv, NEW c \in 1 .. calls, Framed(c), UNCHANGED <<taken, message>>,
           sent'[c] \in {sent[c], <<>>}
    PROVE  Framed(c)'
  <1>1. CASE sent'[c] = sent[c]
    BY <1>1, SameUnits
  <1>2. CASE sent'[c] = <<>>
    <2>1. OnTheWay(c)' = 0 /\ Taken(c)' = Taken(c)
      BY <1>2 DEF OnTheWay, Taken
    <2>2. Given(c)' <= 3
      <3>1. Taken(c) \in Nat /\ OnTheWay(c) \in Nat /\ Taken(c) + OnTheWay(c) <= 3
        BY UnitsTyped, CallsTyped DEF Framed, Given
      <3> QED
        BY <2>1, <3>1 DEF Given
    <2> QED
      BY <2>1, <2>2 DEF Framed, Frame
  <1> QED
    BY <1>1, <1>2

(* A call that closes without a fault has left nothing unread, so that     *)
(* nothing resets its connection.                                          *)
LEMMA CloseUnits ==
    ASSUME TypeInv, UnitInv, Close
    PROVE  UnitInv'
  <1>1. /\ call = "close" /\ call' = "idle" /\ UnderWay
        /\ calls \in Connections /\ calls \in 1 .. calls
        /\ UNCHANGED <<calls, message, serving, taken, unanswered, faults>>
    BY CallTyped DEF Close, workerSide, UnderWay
  <1>2. /\ \A c \in Connections \ {calls} : sent'[c] = sent[c] /\ answers'[c] = answers[c]
        /\ sent'[calls] \in {sent[calls], <<>>} /\ answers'[calls] = 0
        /\ answers[calls] > 0 \/ sent'[calls] = sent[calls]
    BY <1>1 DEF Close, AfterReset, TypeInv, PublisherTypeOK
  <1>3. Framed(calls)'
    BY <1>1, <1>2, ResetUnits DEF UnitInv, OrderInv
  <1>4. ASSUME faults[calls] = {}
        PROVE  Settled(calls)'
    <2>1. Given(calls) = 3 /\ answers[calls] + unanswered[calls] + 2 = Acknowledged(calls)
      BY <1>1, <1>4 DEF UnitInv, FaultFreeInv, InStep, SentSoFar, Received
    <2>2. answers[calls] \in Nat /\ unanswered[calls] \in Nat
      BY <1>1, UnitsTyped
    <2>3. answers[calls] = 0 /\ unanswered[calls] = 0 /\ Taken(calls) >= 2
      BY <1>1, <2>1, <2>2, AcknowledgedTyped
    <2>4. Given(calls)' = Given(calls) /\ Taken(calls)' = Taken(calls)
      BY <1>1, <1>2, <2>3, SameUnits DEF Taken
    <2> QED
      BY <1>1, <1>2, <2>1, <2>3, <2>4 DEF Settled
  <1> QED
    BY <1>1, <1>2, <1>3, <1>4, CallUnits DEF UnderWay

-----------------------------------------------------------------------------
(* The worker.                                                             *)

(* A step of the worker shows what it did of its connection.               *)
LEMMA WorkerUnits ==
    ASSUME TypeInv, UnitInv, NEW c \in 1 .. calls, UNCHANGED <<call, calls, message, sock>>,
           \A d \in Connections \ {c} :
               /\ sent'[d] = sent[d] /\ taken'[d] = taken[d] /\ answers'[d] = answers[d]
               /\ unanswered'[d] = unanswered[d] /\ faults'[d] = faults[d]
               /\ d \in serving' <=> d \in serving,
           ~(c = calls /\ call = "connect"),
           Framed(c)',
           c = calls /\ UnderWay /\ c \in serving' =>
               Given(c)' = SentSoFar /\ sock[c] = "connected",
           faults'[c] = {} => /\ c < calls \/ call = "idle" => Settled(c)'
                              /\ c = calls /\ UnderWay => InStep(c)'
    PROVE  UnitInv'
  <1>1. /\ calls \in Nat /\ \A d \in 1 .. calls : d \in Connections
        /\ SentSoFar' = SentSoFar /\ Received' = Received /\ UnderWay' = UnderWay
    BY CallsTyped DEF SentSoFar, Received, UnderWay
  <1>2. ASSUME NEW d \in 1 .. calls
        PROVE  Framed(d)'
    <2>1. CASE d # c
      BY <1>1, <2>1, SameUnits DEF UnitInv, OrderInv
    <2> QED
      BY <2>1
  <1>3. ASSUME NEW d \in Connections, d > calls \/ (d = calls /\ call = "connect")
        PROVE  Fresh(d)'
    <2>1. Fresh(d) /\ d # c
      BY <1>1, <1>3 DEF UnitInv, OrderInv, Connections
    <2> QED
      BY <2>1 DEF Fresh
  <1>4. UnderWay /\ calls \in serving' => Given(calls)' = SentSoFar /\ sock[calls] = "connected"
    <2>1. CASE calls # c
      <3> SUFFICES ASSUME UnderWay, calls \in serving' 
                   PROVE  Given(calls)' = SentSoFar /\ sock[calls] = "connected"
        OBVIOUS
      <3>1. calls \in Connections
        BY CallTyped DEF UnderWay
      <3> QED
        BY <2>1, <3>1, SameUnits DEF UnitInv, OrderInv
    <2> QED
      BY <2>1
  <1>5. OrderInv'
    BY <1>1, <1>2, <1>3, <1>4 DEF OrderInv
  <1>6. ASSUME NEW d \in 1 .. calls, d # c, faults'[d] = {}
        PROVE  /\ d < calls \/ call = "idle" => Settled(d)'
               /\ d = calls /\ UnderWay => InStep(d)'
    <2>1. /\ d < calls \/ call = "idle" => Settled(d)
          /\ d = calls /\ UnderWay => InStep(d)
      BY <1>1, <1>6 DEF UnitInv, FaultFreeInv
    <2>2. /\ Settled(d)' <=> Settled(d)
          /\ Given(d)' = Given(d) /\ Acknowledged(d)' = Acknowledged(d) /\ Taken(d)' = Taken(d)
      BY <1>1, <1>6, SameUnits DEF Taken
    <2>3. InStep(d) => InStep(d)'
      BY <1>1, <1>6, <2>2 DEF InStep
    <2> QED
      BY <2>1, <2>2, <2>3
  <1>7. FaultFreeInv'
    BY <1>1, <1>6 DEF FaultFreeInv
  <1> QED
    BY <1>5, <1>7 DEF UnitInv

(* The connections the worker is at.                                       *)
LEMMA ServingUnits ==
    ASSUME TypeInv, UnitInv, NEW c \in Connections, c \in serving
    PROVE  c \in 1 .. calls /\ ~(c = calls /\ call = "connect") /\ Framed(c)
  BY CallsTyped DEF UnitInv, OrderInv, Fresh

(* A unit goes from the way to what was taken.                             *)
LEMMA TakenUnit ==
    ASSUME TypeInv, UnitInv, NEW c \in Connections, Take(c)
    PROVE  /\ Framed(c)' /\ Given(c)' = Given(c) /\ Taken(c)' = Taken(c) + 1
           /\ OnTheWay(c) >= 1
  <1>1. Framed(c)
    BY ServingUnits DEF Take
  <1>2. sent[c] \in Seq(Units) /\ taken[c] \in Seq(Units) /\ sent[c] # <<>>
        /\ OnTheWay(c) \in Nat /\ Taken(c) \in Nat
    BY UnitsTyped DEF Take
  <1>3. /\ taken'[c] = Append(taken[c], Head(sent[c])) /\ sent'[c] = Tail(sent[c])
        /\ UNCHANGED message
    BY DEF Take, TypeInv, PublisherTypeOK
  <1>4. /\ OnTheWay(c) >= 1 /\ OnTheWay(c)' = OnTheWay(c) - 1
        /\ Head(sent[c]) = sent[c][1] /\ Head(sent[c]) \in Units
        /\ \A i \in 1 .. OnTheWay(c)' : sent'[c][i] = sent[c][i + 1]
    BY <1>2, <1>3 DEF OnTheWay
  <1>5. /\ Taken(c)' = Taken(c) + 1
        /\ \A i \in 1 .. Taken(c) : taken'[c][i] = taken[c][i]
        /\ taken'[c][Taken(c) + 1] = Head(sent[c])
    BY <1>2, <1>3, <1>4 DEF Taken
  <1>6. Given(c)' = Given(c)
    BY <1>2, <1>4, <1>5 DEF Given
  <1>7. ASSUME NEW i \in 1 .. Taken(c)'
        PROVE  taken'[c][i] = Frame(message[c])[i]
    <2>1. CASE i \in 1 .. Taken(c)
      BY <1>1, <1>5, <2>1 DEF Framed
    <2>2. CASE i = Taken(c) + 1
      <3>1. 1 \in 1 .. OnTheWay(c)
        BY <1>2, <1>4
      <3>2. sent[c][1] = Frame(message[c])[Taken(c) + 1]
        BY <1>1, <3>1 DEF Framed
      <3> QED
        BY <1>4, <1>5, <2>2, <3>2
    <2> QED
      BY <1>2, <1>5, <1>7, <2>1, <2>2
  <1>8. ASSUME NEW i \in 1 .. OnTheWay(c)'
        PROVE  sent'[c][i] = Frame(message[c])[Taken(c)' + i]
    <2>1. i + 1 \in 1 .. OnTheWay(c) /\ Taken(c) + (i + 1) = Taken(c)' + i
      <3>1. i \in Nat /\ i >= 1 /\ i <= OnTheWay(c) - 1
        BY <1>2, <1>4, <1>8
      <3>2. i + 1 \in 1 .. OnTheWay(c)
        BY <1>2, <3>1
      <3>3. Taken(c) + (i + 1) = (Taken(c) + 1) + i
        BY <1>2, <3>1
      <3> QED
        BY <1>5, <3>2, <3>3
    <2>2. sent[c][i + 1] = Frame(message[c])[Taken(c) + (i + 1)]
      BY <1>1, <2>1 DEF Framed
    <2> QED
      BY <1>4, <1>8, <2>1, <2>2
  <1>9. Given(c)' <= 3
    BY <1>1, <1>6 DEF Framed
  <1>10. Framed(c)'
    BY <1>3, <1>7, <1>8, <1>9 DEF Framed, Frame
  <1> QED
    BY <1>4, <1>5, <1>6, <1>10

(* A unit taken brings an answer to come, and is still counted as given.   *)
LEMMA TakeUnits ==
    ASSUME TypeInv, UnitInv, NEW c \in Connections, Take(c)
    PROVE  UnitInv'
  <1>1. c \in serving /\ c \in 1 .. calls /\ ~(c = calls /\ call = "connect")
    BY ServingUnits DEF Take
  <1>2. /\ Framed(c)' /\ Given(c)' = Given(c) /\ Taken(c)' = Taken(c) + 1 /\ OnTheWay(c) >= 1
        /\ Taken(c) \in Nat /\ OnTheWay(c) \in Nat
    BY TakenUnit, UnitsTyped
  <1>3. /\ UNCHANGED <<call, calls, message, sock, answers>>
        /\ unanswered[c] = 0
        /\ \A d \in Connections \ {c} :
              /\ sent'[d] = sent[d] /\ taken'[d] = taken[d] /\ unanswered'[d] = unanswered[d]
              /\ faults'[d] = faults[d] /\ answers'[d] = answers[d]
              /\ d \in serving' <=> d \in serving
        /\ serving' \subseteq serving
    BY DEF Take, TypeInv, PublisherTypeOK
  <1>4. /\ Taken(c) < 2 => /\ serving' = serving
                           /\ faults'[c] = {} => faults[c] = {} /\ unanswered'[c] = 1
        /\ ~(Taken(c) < 2) => UNCHANGED <<unanswered, faults>>
    <2>1. CASE Taken(c) < 2
      <3>1. PICK segments \in 1 .. 2 :
                /\ unanswered' = [unanswered EXCEPT ![c] = segments]
                /\ faults' = IF segments = 1 THEN faults
                             ELSE [faults EXCEPT ![c] = @ \cup {"split"}]
        BY <2>1 DEF Take, Taken
      <3>2. serving' = serving
        BY <2>1 DEF Take, Taken
      <3>3. unanswered'[c] = segments /\ (segments # 1 => "split" \in faults'[c])
        BY <3>1 DEF TypeInv, PublisherTypeOK
      <3> QED
        BY <2>1, <3>1, <3>2, <3>3
    <2>2. CASE ~(Taken(c) < 2)
      BY <2>2 DEF Take, Taken
    <2> QED
      BY <2>1, <2>2
  <1>5. c = calls /\ UnderWay => Given(c)' = SentSoFar /\ sock[c] = "connected"
    BY <1>1, <1>2 DEF UnitInv, OrderInv
  <1>6. ASSUME faults'[c] = {}, c < calls \/ call = "idle"
        PROVE  Settled(c)'
    <2>1. Settled(c)
      BY <1>1, <1>4, <1>6 DEF UnitInv, FaultFreeInv
    <2> QED
      BY <1>2, <1>3, <1>4, <2>1 DEF Settled
  <1>7. ASSUME faults'[c] = {}, c = calls, UnderWay
        PROVE  InStep(c)'
    <2>1. InStep(c)
      BY <1>1, <1>4, <1>7 DEF UnitInv, FaultFreeInv
    <2>2. SentSoFar' = SentSoFar /\ Received' = Received
      BY <1>3 DEF SentSoFar, Received
    <2>3. CASE Taken(c) < 2
      <3>1. Acknowledged(c) = Taken(c) /\ Acknowledged(c)' = Taken(c) + 1
        BY <1>2, <2>3 DEF Acknowledged
      <3>2. answers[c] + 0 + Received = Taken(c) /\ answers[c] \in Nat /\ Received \in Nat
        BY <1>3, <2>1, <3>1, UnitsTyped DEF InStep, Received
      <3>3. answers[c] + 1 + Received = Taken(c) + 1
        BY <1>2, <3>2
      <3> QED
        BY <1>1, <1>2, <1>3, <1>4, <1>7, <2>1, <2>2, <2>3, <3>1, <3>3 DEF InStep
    <2>4. CASE ~(Taken(c) < 2)
      <3>1. Acknowledged(c) = 2 /\ Acknowledged(c)' = 2
        BY <1>2, <2>4 DEF Acknowledged
      <3>2. Taken(c) = 2 /\ Given(c) = 3
        <4>1. Taken(c) + OnTheWay(c) <= 3
          BY <1>1, ServingUnits DEF Framed, Given
        <4> QED
          BY <1>2, <2>4, <4>1 DEF Given
      <3>3. call = "close"
        BY <1>7, <2>1, <3>2 DEF InStep, SentSoFar, UnderWay, TypeInv, PublisherTypeOK, Calls
      <3> QED
        BY <1>2, <1>3, <1>4, <2>1, <2>2, <2>4, <3>1, <3>2, <3>3 DEF InStep
    <2> QED
      BY <2>3, <2>4
  <1> QED
    BY <1>1, <1>2, <1>3, <1>5, <1>6, <1>7, WorkerUnits

(* An answer given is one on its way, on a socket that still receives.     *)
LEMMA AnswerUnits ==
    ASSUME TypeInv, UnitInv, NEW c \in Connections, Answer(c)
    PROVE  UnitInv'
  <1>1. /\ c \in serving /\ c \in 1 .. calls /\ ~(c = calls /\ call = "connect")
        /\ Framed(c) /\ unanswered[c] > 0
    BY ServingUnits DEF Answer
  <1>2. /\ UNCHANGED <<call, calls, message, sock, serving, taken, faults>>
        /\ \A d \in Connections \ {c} :
              sent'[d] = sent[d] /\ answers'[d] = answers[d] /\ unanswered'[d] = unanswered[d]
        /\ unanswered'[c] = unanswered[c] - 1
        /\ sock[c] = "connected" => answers'[c] = answers[c] + 1 /\ UNCHANGED sent
        /\ sent'[c] \in {sent[c], <<>>}
    BY DEF Answer, AfterReset, TypeInv, PublisherTypeOK
  <1>3. Framed(c)'
    BY <1>1, <1>2, ResetUnits
  <1>4. c = calls /\ UnderWay => Given(c)' = SentSoFar /\ sock[c] = "connected"
    BY <1>1, <1>2, SameUnits DEF UnitInv, OrderInv
  <1>5. ASSUME faults[c] = {}
        PROVE  ~(c < calls \/ call = "idle")
    BY <1>1, <1>5, UnitsTyped DEF UnitInv, FaultFreeInv, Settled
  <1>6. ASSUME faults[c] = {}, c = calls, UnderWay
        PROVE  InStep(c)'
    <2>1. InStep(c)
      BY <1>1, <1>6 DEF UnitInv, FaultFreeInv
    <2>2. /\ SentSoFar' = SentSoFar /\ Received' = Received /\ Received \in Nat
          /\ Acknowledged(c)' = Acknowledged(c) /\ Given(c)' = Given(c) /\ Taken(c)' = Taken(c)
      BY <1>2, <1>4, <1>6, SameUnits DEF SentSoFar, Received, Taken
    <2>3. answers[c] \in Nat /\ unanswered[c] \in 0 .. 2
      BY UnitsTyped
    <2>4. (answers[c] + 1) + (unanswered[c] - 1) + Received = answers[c] + unanswered[c] + Received
      BY <2>2, <2>3
    <2> QED
      BY <1>1, <1>2, <1>4, <1>6, <2>1, <2>2, <2>4 DEF InStep
  <1> QED
    BY <1>1, <1>2, <1>3, <1>4, <1>5, <1>6, WorkerUnits

(* A worker that leaves is a fault of its connection.                      *)
LEMMA LeaveUnits ==
    ASSUME TypeInv, UnitInv, NEW c \in Connections, Leave(c)
    PROVE  UnitInv'
  <1>1. /\ c \in 1 .. calls /\ ~(c = calls /\ call = "connect") /\ Framed(c)
    BY ServingUnits DEF Leave
  <1>2. /\ UNCHANGED <<call, calls, message, sock, answers, taken>>
        /\ \A d \in Connections \ {c} :
              /\ sent'[d] = sent[d] /\ unanswered'[d] = unanswered[d] /\ faults'[d] = faults[d]
              /\ d \in serving' <=> d \in serving
        /\ c \notin serving' /\ sent'[c] = <<>> /\ faults'[c] # {}
    BY DEF Leave, TypeInv, PublisherTypeOK
  <1>3. Framed(c)'
    BY <1>1, <1>2, ResetUnits
  <1> QED
    BY <1>1, <1>2, <1>3, WorkerUnits

(* Every step keeps frames in order and answers counted.                   *)
LEMMA NextUnits ==
    ASSUME TypeInv, UnitInv, [Next]_vars
    PROVE  UnitInv'
  <1>1. CASE \E m \in Messages : Publish(m)
    BY <1>1, PublishUnits
  <1>2. CASE Connect
    BY <1>2, ConnectUnits
  <1>3. CASE SendStart
    <2>1. /\ call = "start" /\ UnderWay /\ SentSoFar = 0 /\ Send(StreamStart, "start_ack")
          /\ message[calls] \in Messages
      BY <1>3, CallTyped DEF SendStart, UnderWay, SentSoFar
    <2>2. StreamStart = Frame(message[calls])[0 + 1] /\ StreamStart \in Units
      BY <2>1, FrameTyped
    <2>3. call' = "start_ack" => SentSoFar' = 0 + 1 /\ Received' = Received
      BY <2>1 DEF SentSoFar, Received
    <2> QED
      BY <2>1, <2>2, <2>3, SendUnits
  <1>4. CASE SendLength
    <2>1. /\ call = "length" /\ UnderWay /\ SentSoFar = 1
          /\ Send(Length(message[calls]), "length_ack") /\ message[calls] \in Messages
      BY <1>4, CallTyped DEF SendLength, UnderWay, SentSoFar
    <2>2. Length(message[calls]) = Frame(message[calls])[1 + 1] /\ Length(message[calls]) \in Units
      BY <2>1, FrameTyped
    <2>3. call' = "length_ack" => SentSoFar' = 1 + 1 /\ Received' = Received
      BY <2>1 DEF SentSoFar, Received
    <2> QED
      BY <2>1, <2>2, <2>3, SendUnits
  <1>5. CASE SendData
    <2>1. /\ call = "data" /\ UnderWay /\ SentSoFar = 2
          /\ Send(Content(message[calls]), "close") /\ message[calls] \in Messages
      BY <1>5, CallTyped DEF SendData, UnderWay, SentSoFar
    <2>2. Content(message[calls]) = Frame(message[calls])[2 + 1] /\ Content(message[calls]) \in Units
      BY <2>1, FrameTyped
    <2>3. call' = "close" => SentSoFar' = 2 + 1 /\ Received' = Received
      BY <2>1 DEF SentSoFar, Received
    <2> QED
      BY <2>1, <2>2, <2>3, SendUnits
  <1>6. CASE ReceiveStartAck
    <2>1. /\ call = "start_ack" /\ UnderWay /\ Receive("length") /\ call' = "length"
      BY <1>6 DEF ReceiveStartAck, Receive, UnderWay
    <2>2. SentSoFar = 1 /\ SentSoFar' = 1 /\ Received = 1 - 1 /\ Received' = 1
      BY <2>1 DEF SentSoFar, Received
    <2> QED
      BY <2>1, <2>2, ReceiveUnits
  <1>7. CASE ReceiveLengthAck
    <2>1. /\ call = "length_ack" /\ UnderWay /\ Receive("data") /\ call' = "data"
      BY <1>7 DEF ReceiveLengthAck, Receive, UnderWay
    <2>2. SentSoFar = 2 /\ SentSoFar' = 2 /\ Received = 2 - 1 /\ Received' = 2
      BY <2>1 DEF SentSoFar, Received
    <2> QED
      BY <2>1, <2>2, ReceiveUnits
  <1>8. CASE Close
    BY <1>8, CloseUnits
  <1>9. CASE \E c \in Connections : Take(c) \/ Answer(c) \/ Leave(c)
    BY <1>9, TakeUnits, AnswerUnits, LeaveUnits
  <1>10. CASE UNCHANGED vars
    BY <1>10 DEF vars, UnitInv, OrderInv, FaultFreeInv, Framed, Fresh, Settled, InStep, Given,
                 Taken, OnTheWay, Acknowledged, SentSoFar, Received, UnderWay, Frame
  <1> QED
    BY <1>1, <1>2, <1>3, <1>4, <1>5, <1>6, <1>7, <1>8, <1>9, <1>10 DEF Next, PublisherStep

(* Types, order and counts together are inductive.                         *)
LEMMA UnitsCorrect == Spec => [](TypeInv /\ UnitInv)
  BY InitTyped, InitUnits, NextTyped, NextUnits, PTL DEF Spec

(* Two sequences in a row that continue a frame are a prefix of it.        *)
LEMMA FramedIsPrefix ==
    ASSUME TypeInv, NEW c \in 1 .. calls, Framed(c)
    PROVE  /\ IsPrefix(taken[c] \o sent[c], Frame(message[c]))
           /\ Given(c) = 3 => taken[c] \o sent[c] = Frame(message[c])
  <1> DEFINE t == taken[c] \o sent[c]
             f == Frame(message[c])
  <1>1. /\ taken[c] \in Seq(Units) /\ sent[c] \in Seq(Units)
        /\ Taken(c) \in Nat /\ OnTheWay(c) \in Nat /\ Given(c) \in Nat /\ Given(c) <= 3
    BY UnitsTyped, CallsTyped DEF Framed
  <1>2. f \in Seq(Units) /\ Len(f) = 3
    BY FrameTyped DEF TypeInv, CallInv
  <1>3. t \in Seq(Units) /\ Len(t) = Given(c)
    BY <1>1 DEF Given, Taken, OnTheWay
  <1>4. ASSUME NEW i \in 1 .. Given(c)
        PROVE  t[i] = f[i]
    <2>1. CASE i \in 1 .. Taken(c)
      <3>1. t[i] = taken[c][i]
        BY <1>1, <1>4, <2>1 DEF Taken, OnTheWay, Given
      <3> QED
        BY <2>1, <3>1 DEF Framed
    <2>2. CASE i \notin 1 .. Taken(c)
      <3>1. i - Taken(c) \in 1 .. OnTheWay(c) /\ Taken(c) + (i - Taken(c)) = i
        BY <1>1, <1>4, <2>2 DEF Given
      <3>2. t[i] = sent[c][i - Taken(c)]
        BY <1>1, <1>4, <2>2 DEF Taken, OnTheWay, Given
      <3> QED
        BY <3>1, <3>2 DEF Framed
    <2> QED
      BY <2>1, <2>2
  <1> HIDE DEF t, f
  <1>5. SubSeq(t, 1, Len(t)) = SubSeq(f, 1, Len(t))
    <2>1. Len(t) \in Nat /\ Len(t) <= Len(f)
      BY <1>1, <1>2, <1>3
    <2>2. \A i \in 1 .. Len(t) : t[i] = f[i]
      BY <1>3, <1>4
    <2> QED
      BY <1>2, <1>3, <2>1, <2>2
  <1>6. Given(c) = 3 => t = f
    BY <1>2, <1>3, <1>4
  <1>7. IsPrefix(t, f)
    BY <1>1, <1>2, <1>3, <1>5 DEF IsPrefix
  <1> QED
    BY <1>6, <1>7 DEF t, f

(* On every connection the worker gets the beginning of one message's      *)
(* frame, in order, with nothing left out.                                 *)
THEOREM UnitsStayInOrder == Spec => []UnitsInOrder
  <1>1. TypeInv /\ UnitInv => UnitsInOrder
    BY FramedIsPrefix DEF UnitInv, OrderInv, UnitsInOrder
  <1> QED
    BY <1>1, UnitsCorrect, PTL

(* A message that publish has returned from is whole unless its connection *)
(* had a fault.                                                            *)
THEOREM NothingLostWithoutFault == Spec => []LostOnlyByFaults
  <1>1. TypeInv /\ UnitInv => LostOnlyByFaults
    BY FramedIsPrefix DEF UnitInv, OrderInv, FaultFreeInv, Settled, LostOnlyByFaults
  <1> QED
    BY <1>1, UnitsCorrect, PTL

-----------------------------------------------------------------------------
(* publish waits for an answer that has not come.                          *)
Waiting == call \in {"start_ack", "length_ack"} /\ Peer /\ answers[calls] = 0

(* A unit the worker has taken is answered, or its answer is still in the   *)
(* worker: no recv before publish's own has received it.                   *)
AnswerIsComing ==
    /\ call = "start_ack" /\ Peer /\ Taken(calls) = 1 =>
          answers[calls] > 0 \/ unanswered[calls] > 0
    /\ call = "length_ack" /\ Peer /\ Taken(calls) = 2 =>
          answers[calls] > 0 \/ unanswered[calls] > 0

(* publish and the worker never wait for each other: while publish waits,   *)
(* there is a unit for the worker to take, or an answer for it to send.    *)
NoMutualWait == Waiting => sent[calls] # <<>> \/ unanswered[calls] > 0

(* What is counted of the connection of the present call.                  *)
LEMMA AnswersTyped ==
    ASSUME TypeInv, call # "idle"
    PROVE  /\ calls \in Connections /\ answers[calls] \in Nat /\ unanswered[calls] \in 0 .. 2
           /\ sent[calls] \in Seq(Units) /\ taken[calls] \in Seq(Units)
           /\ Taken(calls) \in Nat /\ OnTheWay(calls) \in Nat
  BY CallTyped, UnitsTyped

(* A unit that was taken has its answer in the worker or on the way until  *)
(* publish receives it: publish receives only in its turn.                 *)
LEMMA AnswerKeepsComing ==
    ASSUME TypeInv, UnitInv, AnswerIsComing, [Next]_vars
    PROVE  AnswerIsComing'
  <1>1. CASE (\E m \in Messages : Publish(m)) \/ Connect \/ Close \/ ReceiveStartAck \/ ReceiveLengthAck \/ SendData
    BY <1>1 DEF Publish, Connect, Close, ReceiveStartAck, ReceiveLengthAck, SendData, Send, Receive, AnswerIsComing
  <1>2. CASE SendStart \/ SendLength
    <2>1. /\ UNCHANGED <<calls, answers, serving, taken, unanswered>> /\ UnderWay
          /\ \/ SentSoFar = 0 /\ call' \in {"start_ack", "killed"}
             \/ SentSoFar = 1 /\ call' \in {"length_ack", "killed"}
      BY <1>2 DEF SendStart, SendLength, Send, workerSide, UnderWay, SentSoFar
    <2>2. Peer => Taken(calls) + OnTheWay(calls) = SentSoFar
      BY <2>1 DEF UnitInv, OrderInv, Peer, Given
    <2>3. Taken(calls) \in Nat /\ OnTheWay(calls) \in Nat
      BY <2>1, AnswersTyped DEF UnderWay
    <2>4. Taken(calls)' = Taken(calls) /\ (Peer' <=> Peer)
      BY <2>1 DEF Taken, Peer
    <2>5. CASE SentSoFar = 0 /\ call' \in {"start_ack", "killed"}
      BY <2>1, <2>2, <2>3, <2>4, <2>5 DEF AnswerIsComing
    <2>6. CASE SentSoFar = 1 /\ call' \in {"length_ack", "killed"}
      BY <2>1, <2>2, <2>3, <2>4, <2>6 DEF AnswerIsComing
    <2> QED
      BY <2>1, <2>5, <2>6
  <1>3. ASSUME NEW c \in Connections, Take(c) PROVE AnswerIsComing'
    <2>1. /\ UNCHANGED <<call, calls, message, sock, answers>>
          /\ serving' \subseteq serving
      BY <1>3 DEF Take
    <2>2. CASE c = calls /\ call # "idle"
      <3>1. CASE Taken(c) < 2
        <4>1. PICK segments \in 1 .. 2 : unanswered' = [unanswered EXCEPT ![c] = segments]
          BY <1>3, <3>1 DEF Take, Taken
        <4>2. unanswered'[calls] > 0
          BY <2>2, <4>1, AnswersTyped DEF TypeInv, PublisherTypeOK
        <4> QED
          BY <2>1, <4>2 DEF AnswerIsComing
      <3>2. CASE ~(Taken(c) < 2)
        BY <1>3, <2>1, <2>2, <3>2, AnswersTyped DEF Take, Taken, AnswerIsComing, Peer
      <3> QED
        BY <3>1, <3>2
    <2>3. CASE c # calls /\ call # "idle"
      <3>1. taken'[calls] = taken[calls] /\ unanswered'[calls] = unanswered[calls]
        BY <1>3, <2>3, AnswersTyped DEF Take, TypeInv, PublisherTypeOK
      <3> QED
        BY <2>1, <3>1 DEF AnswerIsComing, Taken, Peer
    <2> QED
      BY <2>1, <2>2, <2>3 DEF AnswerIsComing
  <1>4. ASSUME NEW c \in Connections, Answer(c) PROVE AnswerIsComing'
    <2>1. UNCHANGED <<call, calls, message, sock, serving, taken>>
      BY <1>4 DEF Answer
    <2>2. call # "idle" => answers'[calls] \in Nat
      BY <1>4, <2>1, NextTyped, AnswersTyped DEF Answer, TypeInv, PublisherTypeOK
    <2>3. CASE c = calls /\ call \in {"start_ack", "length_ack"}
      <3>1. sock[c] = "connected"
        BY <1>4, <2>3 DEF Answer, UnitInv, OrderInv, UnderWay
      <3>2. answers'[calls] > 0
        BY <1>4, <2>3, <3>1, AnswersTyped DEF Answer, TypeInv, PublisherTypeOK
      <3> QED
        BY <2>1, <3>2 DEF AnswerIsComing
    <2>4. CASE c # calls /\ call # "idle"
      <3>1. answers'[calls] = answers[calls] /\ unanswered'[calls] = unanswered[calls]
        BY <1>4, <2>4, AnswersTyped DEF Answer, TypeInv, PublisherTypeOK
      <3> QED
        BY <2>1, <3>1 DEF AnswerIsComing, Taken, Peer
    <2>5. CASE call \notin {"start_ack", "length_ack"}
      BY <2>1, <2>5 DEF AnswerIsComing
    <2> QED
      BY <2>3, <2>4, <2>5
  <1>5. ASSUME NEW c \in Connections, Leave(c) PROVE AnswerIsComing'
    <2>1. /\ UNCHANGED <<call, calls, answers, taken>> /\ serving' = serving \ {c}
          /\ \A d \in Connections \ {c} : unanswered'[d] = unanswered[d]
      BY <1>5 DEF Leave, TypeInv, PublisherTypeOK
    <2> QED
      BY <2>1, AnswersTyped DEF AnswerIsComing, Taken, Peer
  <1>6. CASE UNCHANGED vars
    BY <1>6 DEF vars, AnswerIsComing, Taken, Peer
  <1> QED
    BY <1>1, <1>2, <1>3, <1>4, <1>5, <1>6 DEF Next, PublisherStep

(* The protocol has no deadlock: whenever publish waits in recv with its   *)
(* peer there, the peer has something to do first (DataPublisher::publish  *)
(* sends before each recv).                                                *)
THEOREM NoWaitForEachOther == Spec => []NoMutualWait
  <1>1. Init => AnswerIsComing
    BY DEF Init, AnswerIsComing
  <1>2. ASSUME TypeInv, UnitInv, AnswerIsComing, Waiting PROVE sent[calls] # <<>> \/ unanswered[calls] > 0
    <2>1. /\ UnderWay /\ Given(calls) = SentSoFar
          /\ SentSoFar = IF call = "start_ack" THEN 1 ELSE 2
      BY <1>2 DEF Waiting, UnitInv, OrderInv, UnderWay, Peer, SentSoFar
    <2>2. CASE sent[calls] = <<>>
      <3>1. Taken(calls) = SentSoFar
        BY <1>2, <2>1, <2>2, AnswersTyped DEF Given, OnTheWay, Waiting
      <3> QED
        BY <1>2, <2>1, <3>1 DEF AnswerIsComing, Waiting
    <2> QED
      BY <2>2
  <1>3. TypeInv /\ UnitInv /\ AnswerIsComing => NoMutualWait
    BY <1>2 DEF NoMutualWait
  <1> QED
    BY <1>1, <1>3, UnitsCorrect, AnswerKeepsComing, PTL DEF Spec

-----------------------------------------------------------------------------
(* The steps publish has yet to make, and what is left for the worker to    *)
(* do on a connection: a unit to take may cost two segments of an answer.  *)
StepsLeft ==
    CASE call = "connect"    -> 7
      [] call = "start"      -> 6
      [] call = "start_ack"  -> 5
      [] call = "length"     -> 4
      [] call = "length_ack" -> 3
      [] call = "data"       -> 2
      [] call = "close"      -> 1
      [] OTHER               -> 0

WorkLeft(c) == 3 * Len(sent[c]) + unanswered[c]

(* Every step of either side leaves less to do for it, and none of the      *)
(* worker's takes publish back.                                            *)
BothAdvance ==
    /\ PublisherStep => StepsLeft' < StepsLeft
    /\ \A c \in Connections :
          Take(c) \/ Answer(c) => UNCHANGED call /\ WorkLeft(c)' \in Nat /\ WorkLeft(c)' < WorkLeft(c)

(* A unit taken weighs more than the answer it brings.                     *)
LEMMA WorkerAdvances ==
    ASSUME TypeInv, TypeInv', NEW c \in Connections, Take(c) \/ Answer(c)
    PROVE  UNCHANGED call /\ WorkLeft(c)' \in Nat /\ WorkLeft(c)' < WorkLeft(c)
  <1>1. /\ sent[c] \in Seq(Units) /\ unanswered[c] \in 0 .. 2 /\ sent'[c] \in Seq(Units) /\ unanswered'[c] \in 0 .. 2
        /\ UNCHANGED call
    BY DEF TypeInv, PublisherTypeOK, Take, Answer
  <1>2. PICK n \in Nat, m \in Nat : n = Len(sent[c]) /\ m = Len(sent'[c])
    BY <1>1
  <1>3. CASE Take(c)
    <2>1. m = n - 1 /\ unanswered[c] = 0
      BY <1>1, <1>2, <1>3 DEF Take, TypeInv, PublisherTypeOK
    <2> QED
      BY <1>1, <1>2, <2>1 DEF WorkLeft
  <1>4. CASE Answer(c)
    <2>1. m <= n /\ unanswered'[c] = unanswered[c] - 1
      <3>1. sent'[c] \in {sent[c], <<>>}
        BY <1>4 DEF Answer, AfterReset, TypeInv, PublisherTypeOK
      <3> QED
        BY <1>1, <1>2, <1>4, <3>1 DEF Answer, TypeInv, PublisherTypeOK
    <2> QED
      BY <1>1, <1>2, <2>1 DEF WorkLeft
  <1> QED
    BY <1>3, <1>4

(* publish makes seven steps, the worker finitely many on a connection:    *)
(* the safety half of PublishReturns, with NoWaitForEachOther.             *)
THEOREM PublishAdvances == Spec => [][BothAdvance]_vars
  <1>1. ASSUME TypeInv, PublisherStep PROVE StepsLeft' < StepsLeft
    BY <1>1 DEF StepsLeft, PublisherStep, Connect, SendStart, ReceiveStartAck, SendLength, ReceiveLengthAck, SendData, Close,
       Send, Receive
  <1>2. TypeInv /\ TypeInv' => BothAdvance
    BY <1>1, WorkerAdvances DEF BothAdvance
  <1>3. TypeInv /\ TypeInv' /\ [Next]_vars => [BothAdvance]_vars
    BY <1>2
  <1> QED
    BY <1>3, InitTyped, NextTyped, PTL DEF Spec
=============================================================================
