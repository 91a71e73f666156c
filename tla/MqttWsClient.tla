--------------------------- MODULE MqttWsClient ---------------------------
(***************************************************************************)
(* createMqttWsClient: the browser's own MQTT client over a WebSocket.     *)
(* The broker's packets reach it as a stream that the WebSocket cuts into  *)
(* chunks anywhere; a buffer puts the packets together again.  A closed    *)
(* socket is replaced after a delay, and an outage that has lasted for a   *)
(* while is reported as "paused".                                          *)
(*                                                                         *)
(* A packet is a row of units: PublishUnits of them for a PUBLISH, whose   *)
(* first unit carries its length, and one for any other packet, which is   *)
(* too short to be cut.  Time is counted in ticks; the growing delay       *)
(* before a new attempt is any number of them.  close(), which nothing     *)
(* calls, and frames of text, which brokers do not send, are left out.     *)
(***************************************************************************)
EXTENDS Naturals, Sequences, SequencesExt

CONSTANTS
    Threshold,     \* longDisconnectMs, in ticks
    PublishUnits,  \* units of a PUBLISH
    MaxFrames,     \* packets ingest() takes from the buffer for a chunk
    MaxPublished,  \* bound on the envelopes published
    None,
    Garbage        \* a payload put together from two packets

ASSUME NumberAssumption ==
    /\ {Threshold, PublishUnits, MaxFrames} \subseteq Nat \ {0}
    /\ MaxPublished \in Nat
    /\ None \notin Nat /\ Garbage \notin Nat

Envelope == 1 .. MaxPublished

VARIABLES
    usable,     \* the constructor of WebSocket takes the URL
    socket,     \* the socket: connecting, open, closed, none
    retry,      \* reconnectTimer is set
    connected,  \* ticks since the last onopen (lastConnectedAt)
    gone,       \* ticks since the first close of the outage (disconnectedSince)
    pauseIn,    \* ticks until pauseTimer fires
    status,     \* the last state given to onStatus
    paused,     \* "paused" has been emitted in this outage (history)
    flagged,    \* wasLongDisconnect of the last "connected"
    outbox,     \* packets on their way to the broker
    broker,     \* the broker's session for this socket
    stream,     \* units on their way to the browser
    buffer,     \* units that do not make a packet yet
    published,  \* envelopes published so far
    emitted     \* payloads given to onEnvelope

timeVars == <<connected, gone, pauseIn, paused, flagged>>
wireVars == <<outbox, broker, stream, buffer, published, emitted>>
vars == <<usable, socket, retry, status, timeVars, wireVars>>

----------------------------------------------------------------------------
\* Packets.

Packet(kind) == <<[kind |-> kind, id |-> 0]>>
PublishPacket(e) == [i \in 1 .. PublishUnits |-> [kind |-> "publish", id |-> e]]
FrameLength(unit) == IF unit.kind = "publish" THEN PublishUnits ELSE 1
Whole(units) == units # <<>> /\ FrameLength(Head(units)) <= Len(units)

Payload(frame) ==
    IF \A i \in DOMAIN frame : frame[i] = Head(frame) THEN Head(frame).id
                                                      ELSE Garbage

\* handleFrame: what the client's state c becomes with a packet that is whole.
HandleFrame(c, frame) ==
    LET kind == Head(frame).kind IN
    [c EXCEPT !.emitted = IF kind = "publish" THEN Append(@, Payload(frame)) ELSE @,
              !.outbox = IF kind = "connack" THEN @ \union {"subscribe"} ELSE @,
              !.status = IF kind = "refusal" THEN "error" ELSE @]

\* A mutant of Taken: what is not complete is dropped.
TakenWholeOnly(c) ==
    IF ~Whole(c.rest) THEN [c EXCEPT !.rest = <<>>]
    ELSE LET n == FrameLength(Head(c.rest)) IN
         HandleFrame([c EXCEPT !.rest = SubSeq(@, n + 1, Len(@))],
                     SubSeq(c.rest, 1, n))

\* A mutant of Taken: a packet stays in the buffer until the next is complete.
TakenTwice(c) ==
    IF ~Whole(c.rest) THEN c
    ELSE LET n == FrameLength(Head(c.rest)) IN
         HandleFrame([c EXCEPT !.rest = IF Len(@) = n THEN @
                                                      ELSE SubSeq(@, n + 1, Len(@))],
                     SubSeq(c.rest, 1, n))

\* A round of ingest(): the first packet is taken from the buffer if it is
\* complete.
Taken(c) ==
    IF ~Whole(c.rest) THEN c
    ELSE LET n == FrameLength(Head(c.rest)) IN
         HandleFrame([c EXCEPT !.rest = SubSeq(@, n + 1, Len(@))],
                     SubSeq(c.rest, 1, n))

\* The loop of ingest().
Ingested(client) ==
    LET ingest[k \in 0 .. MaxFrames] ==
            IF k = 0 THEN client ELSE Taken(ingest[k - 1])
    IN ingest[MaxFrames]

----------------------------------------------------------------------------
\* The socket.

\* A mutant of MarksConnected: the pause timer is started here as well, as it
\* once was.
MarksConnectedTimer ==
    /\ flagged' = (connected = Threshold)
    /\ connected' = 0
    /\ gone' = None
    /\ pauseIn' = Threshold
    /\ paused' = FALSE

\* A mutant of MarksConnected: lastConnectedAt is set before it is read.
MarksConnectedFirst ==
    /\ connected' = 0
    /\ flagged' = (connected' = Threshold)
    /\ gone' = None
    /\ pauseIn' = None
    /\ paused' = FALSE

\* What onopen notes of the time.
MarksConnected ==
    /\ flagged' = (connected = Threshold)
    /\ connected' = 0
    /\ gone' = None
    /\ pauseIn' = None
    /\ paused' = FALSE

\* onopen: only CONNECT is sent; the buffer keeps what the last socket left.
Opened ==
    /\ socket = "connecting"
    /\ socket' = "open"
    /\ MarksConnected
    /\ status' = "connected"
    /\ outbox' = {"connect"}
    /\ broker' = "new"
    /\ stream' = <<>>
    /\ UNCHANGED <<usable, retry, buffer, published, emitted>>

\* A mutant of OutageBegan: every close begins a new outage.
OutageBeganAgain == 0

OutageBegan == IF gone = None THEN 0 ELSE gone

\* onclose, with the error event that may come before it: the pause timer
\* counts from the first close of the outage.
Closed ==
    /\ socket \in {"connecting", "open"}
    /\ socket' = "closed"
    /\ gone' = OutageBegan
    /\ IF gone' = Threshold THEN paused' = TRUE /\ pauseIn' = None
                            ELSE pauseIn' = Threshold - gone' /\ UNCHANGED paused
    /\ retry' = TRUE
    /\ status' = "reconnecting"
    /\ outbox' = {}
    /\ broker' = "none"
    /\ stream' = <<>>
    /\ UNCHANGED <<usable, connected, flagged, buffer, published, emitted>>

\* A mutant of Connect: the pause timer goes on while the socket connects.
ConnectKeepsTimer ==
    /\ retry
    /\ usable
    /\ retry' = FALSE
    /\ socket' = "connecting"
    /\ UNCHANGED <<usable, status, timeVars, wireVars>>

\* The reconnect timer, and start() at first: connect().  An outage of which
\* an attempt is under way has no pause timer.
Connect ==
    /\ retry
    /\ pauseIn' = None
    /\ \/ /\ usable
          /\ retry' = FALSE
          /\ socket' = "connecting"
          /\ UNCHANGED status
       \/ /\ ~usable
          /\ status' = "reconnecting"
          /\ UNCHANGED <<retry, socket>>
    /\ UNCHANGED <<usable, connected, gone, paused, flagged, wireVars>>

PauseTimer ==
    /\ pauseIn = 0
    /\ pauseIn' = None
    /\ paused' = TRUE
    /\ status' = "paused"
    /\ UNCHANGED <<usable, socket, retry, connected, gone, flagged, wireVars>>

Older(t) == IF t = None \/ t = Threshold THEN t ELSE t + 1

Tick ==
    /\ pauseIn # 0
    /\ connected' = Older(connected)
    /\ gone' = Older(gone)
    /\ pauseIn' = IF pauseIn = None THEN None ELSE pauseIn - 1
    /\ UNCHANGED <<usable, socket, retry, status, paused, flagged, wireVars>>

----------------------------------------------------------------------------
\* A chunk of n units arrives: onmessage, with ingest.
Receive(n) ==
    /\ socket = "open"
    /\ n \in 1 .. Len(stream)
    /\ LET client == Ingested([rest |-> buffer \o SubSeq(stream, 1, n),
                               emitted |-> emitted,
                               outbox |-> outbox,
                               status |-> status])
       IN
       /\ buffer' = client.rest
       /\ emitted' = client.emitted
       /\ outbox' = client.outbox
       /\ status' = client.status
    /\ stream' = SubSeq(stream, n + 1, Len(stream))
    /\ UNCHANGED <<usable, socket, retry, broker, published, timeVars>>

----------------------------------------------------------------------------
\* The broker.

AnswerConnect ==
    /\ "connect" \in outbox
    /\ outbox' = outbox \ {"connect"}
    /\ \/ broker' = "accepted" /\ stream' = stream \o Packet("connack")
       \/ broker' = "refused" /\ stream' = stream \o Packet("refusal")
    /\ UNCHANGED <<usable, socket, retry, status, timeVars, buffer, published,
                   emitted>>

AnswerSubscribe ==
    /\ "subscribe" \in outbox
    /\ outbox' = outbox \ {"subscribe"}
    /\ broker' = "subscribed"
    /\ stream' = stream \o Packet("suback")
    /\ UNCHANGED <<usable, socket, retry, status, timeVars, buffer, published,
                   emitted>>

\* Somebody publishes to the topic; nothing is kept for later.
PublishEnvelope ==
    /\ published < MaxPublished
    /\ published' = published + 1
    /\ stream' = IF broker = "subscribed" THEN stream \o PublishPacket(published')
                                          ELSE stream
    /\ UNCHANGED <<usable, socket, retry, status, timeVars, outbox, broker,
                   buffer, emitted>>

\* The answer to the PINGREQ the client sends every 30 seconds.
PingResponse ==
    /\ broker \in {"accepted", "subscribed"}
    /\ stream = <<>>
    /\ stream' = Packet("pingresp")
    /\ UNCHANGED <<usable, socket, retry, status, timeVars, outbox, broker,
                   buffer, published, emitted>>

----------------------------------------------------------------------------
Init ==
    /\ usable \in BOOLEAN
    /\ socket = "none"
    /\ retry = TRUE
    /\ connected = None
    /\ gone = None
    /\ pauseIn = None
    /\ status = "none"
    /\ paused = FALSE
    /\ flagged = FALSE
    /\ outbox = {}
    /\ broker = "none"
    /\ stream = <<>>
    /\ buffer = <<>>
    /\ published = 0
    /\ emitted = <<>>

Next ==
    \/ Opened
    \/ Closed
    \/ Connect
    \/ PauseTimer
    \/ Tick
    \/ \E n \in 1 .. Len(stream) : Receive(n)
    \/ AnswerConnect
    \/ AnswerSubscribe
    \/ PublishEnvelope
    \/ PingResponse

Spec == Init /\ [][Next]_vars

\* Timers fire, an attempt to connect ends, what is in the stream arrives and
\* the broker answers.  A socket that is open need not close.
Fairness ==
    /\ WF_vars(Tick)
    /\ WF_vars(PauseTimer)
    /\ WF_vars(Connect)
    /\ WF_vars(socket = "connecting" /\ (Opened \/ Closed))
    /\ WF_vars(Receive(Len(stream)))
    /\ WF_vars(AnswerConnect)
    /\ WF_vars(AnswerSubscribe)
    /\ WF_vars(PingResponse)

FairSpec == Spec /\ Fairness

----------------------------------------------------------------------------
Kind == {"connack", "refusal", "suback", "pingresp", "publish"}
Unit == [kind : Kind, id : 0 .. MaxPublished]
Ticks == 0 .. Threshold

\* Types, and what each state of the socket rules out.
TypeOK ==
    /\ {usable, retry, paused, flagged} \subseteq BOOLEAN
    /\ socket \in {"none", "connecting", "open", "closed"}
    /\ {connected, gone, pauseIn} \subseteq Ticks \union {None}
    /\ status \in {"none", "connected", "reconnecting", "paused", "error"}
    /\ outbox \subseteq {"connect", "subscribe"}
    /\ broker \in {"none", "new", "accepted", "refused", "subscribed"}
    /\ stream \in Seq(Unit)
    /\ buffer \in Seq(Unit)
    /\ published \in 0 .. MaxPublished
    /\ emitted \in Seq(Envelope \union {Garbage})
    /\ pauseIn # None => socket = "closed" /\ gone # None
    /\ retry <=> socket \in {"none", "closed"}
    /\ socket # "open" => broker = "none" /\ outbox = {} /\ stream = <<>>

\* However packets are cut, left over and mixed with those of another socket,
\* no envelope is given to the application twice or out of order
\* (mqtt_ws_client.js:475-505).
EnvelopesInOrder ==
    \A i, j \in DOMAIN emitted :
        i < j /\ Garbage \notin {emitted[i], emitted[j]} => emitted[i] < emitted[j]

\* "Paused" is shown only while the browser has been without a connection for
\* the whole threshold (mqtt_ws_client.js:226-233, 545-553).
PausedIsLong == status = "paused" => socket # "open" /\ gone = Threshold

\* The connection that ends an outage reported as paused is marked, so that
\* the page can fetch anew what it has missed; only a page that has never been
\* connected is not (mqtt_ws_client.js:12-14, 541-557).
PauseIsFlagged ==
    [][socket # "open" /\ socket' = "open" =>
          (paused /\ connected # None => flagged')]_vars

\* An outage that goes on is reported as paused in the end, although each new
\* attempt stops the timer and each close starts it again
\* (mqtt_ws_client.js:228-233, 273-292).
OutageIsPaused == usable => []<>(socket = "open" \/ paused)

\* An envelope the broker has sent reaches the application as long as the
\* connection lasts, also when a chunk brings more packets than are taken from
\* the buffer at once (mqtt_ws_client.js:475-505).
SentIsEmitted ==
    \A e \in Envelope :
        [kind |-> "publish", id |-> e] \in ToSet(stream)
            ~> (socket # "open" \/ e \in ToSet(emitted))

\* The browser shall subscribe to the topic (browser-mqtt-websocket-client
\* spec.md:5), after a new connection as well (:59): a connection that the
\* broker accepts and that lasts ends up subscribed.
SubscribesAgain ==
    <>[](socket = "open" /\ broker # "refused") => <>[](broker = "subscribed")

============================================================================
