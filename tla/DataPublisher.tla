--------------------------- MODULE DataPublisher ---------------------------
(***************************************************************************)
(* DataPublisher::publish: one connection per message to a worker, on      *)
(* which it sends a command, the length and the data, and waits for an     *)
(* answer after the first two.  No call has a timeout, and what a call      *)
(* returned changes nothing but the log.                                   *)
(*                                                                         *)
(* The worker is external: what publish needs of it is that it takes the   *)
(* three units in turn and answers the first two.  It may refuse the       *)
(* connection, leave at any time, or send an answer in two segments, of    *)
(* which a recv takes what has arrived.  So is TCP: what goes to a peer    *)
(* that has left is lost, or the send raises SIGPIPE, which nobody         *)
(* handles; and an answer that a closed socket had not received, or gets    *)
(* later, resets the connection, which may cost the peer what it has not    *)
(* read yet.                                                               *)
(***************************************************************************)
EXTENDS Naturals, SequencesExt

CONSTANTS
    Messages,       (* what may be published                                *)
    NoMessage,      (* the argument of a call not made yet                  *)
    MaxPublishes    (* bound: calls of publish, and so connections          *)

ASSUME MessagesAssumption == NoMessage \notin Messages
ASSUME BoundAssumption == MaxPublishes \in Nat

VARIABLES
    call,           (* what publish does next, "idle" between two calls     *)
    calls,          (* calls so far: the present one has the last connection*)
    message,        (* the argument of each call                            *)
    sock,           (* publish's socket in each call                        *)
    sent,           (* on each connection: units the worker has not taken,  *)
    answers,        (*   segments of answers publish has not received       *)
    serving,        (* connections the worker is at                         *)
    taken,          (* history: the units it took                           *)
    unanswered,     (* segments of its last answer still to be sent         *)
    faults          (* history: what went wrong on each connection          *)

connection == <<sent, answers>>
workerSide == <<serving, taken, unanswered>>
vars       == <<call, calls, message, sock, sent, answers, serving, taken, unanswered,
                faults>>

Connections == 1 .. MaxPublishes

StreamStart == <<"stream-start">>
Length(m)   == <<"length", m>>
Content(m)  == <<"data", m>>
Frame(m)    == <<StreamStart, Length(m), Content(m)>>

Init ==
    /\ call = "idle" /\ calls = 0
    /\ message = [c \in Connections |-> NoMessage]
    /\ sock = [c \in Connections |-> "closed"]
    /\ sent = [c \in Connections |-> <<>>]
    /\ answers = [c \in Connections |-> 0]
    /\ serving = {}
    /\ taken = [c \in Connections |-> <<>>]
    /\ unanswered = [c \in Connections |-> 0]
    /\ faults = [c \in Connections |-> {}]

-----------------------------------------------------------------------------
(* publish.                                                                *)

Publish(m) ==
    /\ call = "idle"
    /\ calls < MaxPublishes
    /\ call' = "connect"
    /\ calls' = calls + 1
    /\ message' = [message EXCEPT ![calls + 1] = m]
    /\ UNCHANGED <<sock, connection, workerSide, faults>>

(* socket and connect: either may fail, and publish goes on.               *)
Connect ==
    /\ call = "connect"
    /\ call' = "start"
    /\ \/ /\ sock' = [sock EXCEPT ![calls] = "connected"]
          /\ serving' = serving \cup {calls}
          /\ UNCHANGED faults
       \/ /\ \E s \in {"invalid", "refused"} : sock' = [sock EXCEPT ![calls] = s]
          /\ faults' = [faults EXCEPT ![calls] = {"connect"}]
          /\ UNCHANGED serving
    /\ UNCHANGED <<calls, message, connection, taken, unanswered>>

Peer == calls \in serving

(* send to the worker; on an invalid descriptor it only fails; on a socket  *)
(* without a peer SIGPIPE ends the process; to one that has left, either.  *)
Send(unit, next) ==
    /\ UNCHANGED <<calls, message, sock, answers, workerSide, faults>>
    /\ \/ /\ Peer
          /\ sent' = [sent EXCEPT ![calls] = Append(@, unit)]
          /\ call' = next
       \/ /\ ~Peer /\ sock[calls] # "refused"
          /\ call' = next
          /\ UNCHANGED sent
       \/ /\ ~Peer /\ sock[calls] # "invalid"
          /\ call' = "killed"
          /\ UNCHANGED sent

(* recv: what has arrived, up to all of it; nothing without a peer.        *)
Receive(next) ==
    /\ call' = next
    /\ \/ \E n \in 1 .. answers[calls] : answers' = [answers EXCEPT ![calls] = @ - n]
       \/ answers[calls] = 0 /\ ~Peer /\ UNCHANGED answers
    /\ UNCHANGED <<calls, message, sock, sent, workerSide, faults>>

SendStart       == call = "start" /\ Send(StreamStart, "start_ack")
ReceiveStartAck == call = "start_ack" /\ Receive("length")

(* Mutant: the data goes out where its length should.                      *)
SendDataFirst == call = "length" /\ Send(Content(message[calls]), "length_ack")

SendLength == call = "length" /\ Send(Length(message[calls]), "length_ack")

(* Mutants: recv is repeated until there is an answer; or left out.        *)
ReceiveLengthAckForSure == call = "length_ack" /\ answers[calls] > 0 /\ Receive("data")

ReceiveNoLengthAck ==
    /\ call = "length_ack"
    /\ call' = "data"
    /\ UNCHANGED <<calls, message, sock, connection, workerSide, faults>>

ReceiveLengthAck == call = "length_ack" /\ Receive("data")
SendData         == call = "data" /\ Send(Content(message[calls]), "close")

(* What a reset may leave of the units the worker has not taken.           *)
AfterReset(units) == {units, <<>>}

Close ==
    /\ call = "close"
    /\ call' = "idle"
    /\ sock' = [sock EXCEPT ![calls] = "closed"]
    /\ \E units \in IF answers[calls] > 0 THEN AfterReset(sent[calls]) ELSE {sent[calls]} :
          sent' = [sent EXCEPT ![calls] = units]
    /\ answers' = [answers EXCEPT ![calls] = 0]
    /\ UNCHANGED <<calls, message, workerSide, faults>>

PublisherStep ==
    \/ Connect
    \/ SendStart \/ ReceiveStartAck
    \/ SendLength \/ ReceiveLengthAck
    \/ SendData \/ Close

-----------------------------------------------------------------------------
(* The worker.                                                             *)

(* It takes a unit, and has to answer the first two, in one segment or two. *)
(* After the third it leaves.                                              *)
Take(c) ==
    /\ c \in serving
    /\ unanswered[c] = 0
    /\ sent[c] # <<>>
    /\ taken' = [taken EXCEPT ![c] = Append(@, Head(sent[c]))]
    /\ sent' = [sent EXCEPT ![c] = Tail(@)]
    /\ IF Len(taken[c]) < 2
       THEN /\ \E segments \in 1 .. 2 :
                  /\ unanswered' = [unanswered EXCEPT ![c] = segments]
                  /\ faults' = IF segments = 1 THEN faults
                               ELSE [faults EXCEPT ![c] = @ \cup {"split"}]
            /\ UNCHANGED serving
       ELSE serving' = serving \ {c} /\ UNCHANGED <<unanswered, faults>>
    /\ UNCHANGED <<call, calls, message, sock, answers>>

Answer(c) ==
    /\ c \in serving
    /\ unanswered[c] > 0
    /\ unanswered' = [unanswered EXCEPT ![c] = @ - 1]
    /\ IF sock[c] = "connected"
       THEN answers' = [answers EXCEPT ![c] = @ + 1] /\ UNCHANGED sent
       ELSE /\ \E units \in AfterReset(sent[c]) : sent' = [sent EXCEPT ![c] = units]
            /\ UNCHANGED answers
    /\ UNCHANGED <<call, calls, message, sock, serving, taken, faults>>

(* It leaves, or has nothing more to read on a connection that is closed.  *)
Leave(c) ==
    /\ c \in serving
    /\ serving' = serving \ {c}
    /\ sent' = [sent EXCEPT ![c] = <<>>]
    /\ unanswered' = [unanswered EXCEPT ![c] = 0]
    /\ faults' = [faults EXCEPT ![c] = @ \cup {"left"}]
    /\ UNCHANGED <<call, calls, message, sock, answers, taken>>

Next ==
    \/ \E m \in Messages : Publish(m)
    \/ PublisherStep
    \/ \E c \in Connections : Take(c) \/ Answer(c) \/ Leave(c)

(* publish runs on its caller's thread; the worker takes and answers what   *)
(* it gets, or leaves.  Nothing makes anybody call publish.                *)
Spec ==
    /\ Init /\ [][Next]_vars
    /\ WF_vars(PublisherStep)
    /\ \A c \in Connections : WF_vars(Take(c)) /\ WF_vars(Answer(c))

-----------------------------------------------------------------------------
Calls == {"idle", "connect", "start", "start_ack", "length", "length_ack", "data", "close",
          "killed"}
Units == {StreamStart} \cup {Length(m) : m \in Messages} \cup {Content(m) : m \in Messages}

(* The types of the state.                                                 *)
PublisherTypeOK ==
    /\ call \in Calls
    /\ calls \in 0 .. MaxPublishes
    /\ message \in [Connections -> Messages \cup {NoMessage}]
    /\ sock \in [Connections -> {"closed", "connected", "refused", "invalid"}]
    /\ sent \in [Connections -> Seq(Units)]
    /\ answers \in [Connections -> Nat]
    /\ serving \subseteq 1 .. calls
    /\ taken \in [Connections -> Seq(Units)]
    /\ unanswered \in [Connections -> 0 .. 2]
    /\ faults \in [Connections -> SUBSET {"connect", "split", "left"}]

(* What the worker has taken on a connection, with what is still on its way,*)
(* is the beginning of one message's frame: no unit is left out, repeated   *)
(* or sent before its turn, although publish goes on after every error.    *)
UnitsInOrder ==
    \A c \in 1 .. calls : IsPrefix(taken[c] \o sent[c], Frame(message[c]))

(* publish has returned: the whole message is with the worker or on its way,*)
(* unless the connection failed, the worker left, or an answer came in two  *)
(* segments, the second of which publish took for the next answer.         *)
LostOnlyByFaults ==
    \A c \in 1 .. calls :
        (sock[c] = "closed" /\ (c < calls \/ call = "idle") /\ faults[c] = {}) =>
            taken[c] \o sent[c] = Frame(message[c])

(* A call of publish ends, if only by SIGPIPE, as long as the worker takes  *)
(* what it gets and answers, or leaves: publish has no timeout of its own. *)
PublishReturns == call # "idle" ~> call \in {"idle", "killed"}
=============================================================================
