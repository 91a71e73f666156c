------------------------- MODULE MqttWsClientProofs -------------------------
(***************************************************************************)
(* Theorems about MqttWsClient: about its timers, for every threshold, and *)
(* about the packets it puts together, however they are cut, however many  *)
(* come in a chunk and whatever a lost socket has left.                    *)
(***************************************************************************)
EXTENDS MqttWsClient, Iteration, SequenceTheorems, TLAPS

MaybeTicks == Ticks \union {None}

\* The timers are in range.
Timed ==
    /\ connected \in MaybeTicks
    /\ gone \in MaybeTicks
    /\ pauseIn \in MaybeTicks

\* The timer and the length of the outage add up to the threshold.
Counted ==
    /\ pauseIn # None => gone # None /\ gone + pauseIn = Threshold
    /\ pauseIn # None => socket = "closed"
    /\ socket = "open" => gone = None /\ ~paused /\ status # "paused"

\* What was reported as an outage has lasted since before the last connection
\* was lost, if there was one.
Reported ==
    /\ paused => gone = Threshold
    /\ status = "paused" => gone = Threshold
    /\ connected # None /\ gone # None => gone <= connected

TInv == Timed /\ Counted /\ Reported

LEMMA TicksAre ==
    ASSUME NEW t \in MaybeTicks
    PROVE  /\ t # None => t \in Nat /\ t <= Threshold
           /\ Older(t) \in MaybeTicks
           /\ Older(t) = None <=> t = None
           /\ t # None => Older(t) = IF t = Threshold THEN t ELSE t + 1
<1>1. Threshold \in Nat \ {0} /\ None \notin Nat
    BY NumberAssumption
<1>2. CASE t = None
    BY <1>1, <1>2 DEF Older, MaybeTicks
<1>3. CASE t \in 0 .. Threshold
    <2>1. t \in Nat /\ t # None /\ t <= Threshold
        BY <1>1, <1>3
    <2>2. Older(t) = IF t = Threshold THEN t ELSE t + 1
        BY <2>1 DEF Older
    <2>3. Older(t) \in 0 .. Threshold
        BY <1>1, <2>1, <2>2
    <2> QED
        BY <1>1, <2>1, <2>2, <2>3 DEF MaybeTicks, Ticks
<1> QED
    BY <1>2, <1>3 DEF MaybeTicks, Ticks

LEMMA InitInvariant == Init => TInv
BY DEF Init, TInv, Timed, Counted, Reported, MaybeTicks

LEMMA SocketStep ==
    ASSUME TInv, Opened \/ Closed \/ Connect
    PROVE  TInv'
<1> USE NumberAssumption DEF timeVars, wireVars
<1>1. {0, Threshold} \subseteq MaybeTicks /\ Threshold \in Nat \ {0}
    BY DEF MaybeTicks, Ticks
<1>2. CASE Opened
    <2>1. /\ connected' = 0 /\ gone' = None /\ pauseIn' = None /\ paused' = FALSE
          /\ status' = "connected" /\ socket' = "open"
        BY <1>2 DEF Opened, MarksConnected
    <2> QED
        BY <1>1, <2>1 DEF TInv, Timed, Counted, Reported, MaybeTicks
<1>3. CASE Closed
    <2>1. /\ gone' = IF gone = None THEN 0 ELSE gone
          /\ connected' = connected
          /\ status' = "reconnecting" /\ socket' = "closed"
        BY <1>3 DEF Closed, OutageBegan
    <2>2. /\ gone' \in Nat /\ gone' # None /\ gone' <= Threshold
          /\ gone' \in MaybeTicks
        BY <1>1, <2>1, TicksAre DEF TInv, Timed
    <2>3. \/ gone' = Threshold /\ paused' = TRUE /\ pauseIn' = None
          \/ gone' # Threshold /\ pauseIn' = Threshold - gone' /\ paused' = paused
        BY <1>3 DEF Closed
    <2>4. pauseIn' \in MaybeTicks
        BY <1>1, <2>2, <2>3 DEF MaybeTicks, Ticks
    <2>5. connected # None => gone' <= connected
        BY <2>1, TicksAre DEF TInv, Timed, Reported
    <2>6. paused' => gone' = Threshold
        BY <1>1, <2>1, <2>3 DEF TInv, Reported
    <2>7. pauseIn' # None => gone' + pauseIn' = Threshold
        BY <1>1, <2>2, <2>3
    <2> QED
        BY <2>1, <2>2, <2>4, <2>5, <2>6, <2>7
           DEF TInv, Timed, Counted, Reported
<1>4. CASE Connect
    <2>1. /\ pauseIn' = None /\ UNCHANGED <<connected, gone, paused>>
          /\ status' \in {status, "reconnecting"}
          /\ socket' \in {socket, "connecting"}
        BY <1>4 DEF Connect
    <2> QED
        BY <2>1 DEF TInv, Timed, Counted, Reported, MaybeTicks
<1> QED
    BY <1>2, <1>3, <1>4

LEMMA TimeStep ==
    ASSUME TInv, PauseTimer \/ Tick
    PROVE  TInv'
<1> USE NumberAssumption DEF timeVars, wireVars
<1>1. Threshold \in Nat \ {0} /\ None \notin Nat
    OBVIOUS
<1>2. CASE PauseTimer
    <2>1. gone = Threshold /\ socket = "closed"
        <3>1. pauseIn = 0 /\ pauseIn # None /\ gone # None /\ gone + pauseIn = Threshold
            BY <1>1, <1>2 DEF PauseTimer, TInv, Counted
        <3>2. gone \in Nat
            BY <3>1, TicksAre DEF TInv, Timed
        <3> QED
            BY <3>1, <3>2 DEF TInv, Counted
    <2> QED
        BY <1>2, <2>1 DEF PauseTimer, TInv, Timed, Counted, Reported, MaybeTicks
<1>3. CASE Tick
    <2>1. /\ connected' = Older(connected) /\ gone' = Older(gone)
          /\ pauseIn # 0
          /\ pauseIn' = IF pauseIn = None THEN None ELSE pauseIn - 1
          /\ UNCHANGED <<socket, status, paused>>
        BY <1>3 DEF Tick
    <2>2. /\ connected' \in MaybeTicks /\ gone' \in MaybeTicks
          /\ connected' = None <=> connected = None
          /\ gone' = None <=> gone = None
        BY <2>1, TicksAre DEF TInv, Timed
    <2>3. pauseIn # None => /\ pauseIn \in Nat \ {0} /\ gone \in Nat
                            /\ gone + pauseIn = Threshold
                            /\ gone' = gone + 1 /\ pauseIn' = pauseIn - 1
        <3> SUFFICES ASSUME pauseIn # None
                     PROVE  /\ pauseIn \in Nat \ {0} /\ gone \in Nat
                            /\ gone + pauseIn = Threshold
                            /\ gone' = gone + 1 /\ pauseIn' = pauseIn - 1
            OBVIOUS
        <3>1. pauseIn \in Nat \ {0} /\ gone # None /\ gone + pauseIn = Threshold
            BY <2>1, TicksAre DEF TInv, Timed, Counted
        <3>2. gone \in Nat
            BY <3>1, TicksAre DEF TInv, Timed
        <3>3. gone # Threshold
            BY <1>1, <3>1, <3>2
        <3> QED
            BY <2>1, <3>1, <3>2, <3>3, TicksAre DEF TInv, Timed
    <2>4. /\ pauseIn' \in MaybeTicks
          /\ pauseIn' # None => gone' # None /\ gone' + pauseIn' = Threshold
        <3>1. CASE pauseIn = None
            BY <2>1, <3>1 DEF MaybeTicks
        <3>2. CASE pauseIn # None
            <4>1. pauseIn' \in 0 .. Threshold /\ gone' \in Nat
                BY <1>1, <2>3, <3>2
            <4> QED
                BY <1>1, <2>3, <3>2, <4>1 DEF MaybeTicks, Ticks
        <3> QED
            BY <3>1, <3>2
    <2>5. gone = Threshold => gone' = Threshold
        BY <1>1, <2>1 DEF Older
    <2>6. connected' # None /\ gone' # None => gone' <= connected'
        <3> SUFFICES ASSUME connected # None, gone # None
                     PROVE  gone' <= connected'
            BY <2>2
        <3>1. /\ connected \in Nat /\ gone \in Nat
              /\ connected <= Threshold /\ gone <= Threshold
            BY TicksAre DEF TInv, Timed
        <3>2. gone <= connected
            BY DEF TInv, Reported
        <3>3. /\ gone' = IF gone = Threshold THEN gone ELSE gone + 1
              /\ connected' = IF connected = Threshold THEN connected
                                                       ELSE connected + 1
            BY <2>1, TicksAre DEF TInv, Timed
        <3> QED
            BY <1>1, <3>1, <3>2, <3>3
    <2>7. pauseIn' # None => pauseIn # None
        BY <2>1
    <2> QED
        BY <2>1, <2>2, <2>4, <2>5, <2>6, <2>7 DEF TInv, Timed, Counted, Reported
<1> QED
    BY <1>2, <1>3

----------------------------------------------------------------------------
\* The units of the packets: what is still to come is sent in order, and a row
\* of units of one envelope is no longer than its packet.

IsPublish(unit) == unit.kind = "publish"
SentUnit(p) == {unit \in [kind : Kind, id : 0 .. p] : IsPublish(unit) => unit.id # 0}
Payloads(p) == 1 .. p \union {Garbage}

\* Units are in order, and after what has been given to the application.
Following(units, given) ==
    /\ \A i, j \in DOMAIN units :
          i < j /\ IsPublish(units[i]) /\ IsPublish(units[j]) =>
              /\ units[i].id <= units[j].id
              /\ units[i].id = units[j].id => j - i < PublishUnits
    /\ \A k \in DOMAIN given, i \in DOMAIN units :
          given[k] # Garbage /\ IsPublish(units[i]) => given[k] < units[i].id

Increasing(given) ==
    \A i, j \in DOMAIN given :
        i < j /\ Garbage \notin {given[i], given[j]} => given[i] < given[j]

Wired ==
    /\ published \in 0 .. MaxPublished
    /\ stream \in Seq(SentUnit(published))
    /\ buffer \in Seq(SentUnit(published))
    /\ emitted \in Seq(Payloads(published))
    /\ Following(buffer \o stream, emitted)
    /\ Increasing(emitted)

\* What each state of the socket rules out.
Linked ==
    /\ {usable, retry, paused, flagged} \subseteq BOOLEAN
    /\ socket \in {"none", "connecting", "open", "closed"}
    /\ status \in {"none", "connected", "reconnecting", "paused", "error"}
    /\ outbox \subseteq {"connect", "subscribe"}
    /\ broker \in {"none", "new", "accepted", "refused", "subscribed"}
    /\ retry <=> socket \in {"none", "closed"}
    /\ socket # "open" => broker = "none" /\ outbox = {} /\ stream = <<>>

WInv == Wired /\ Linked

\* The states of ingest() that keep the order with the units that come after
\* the chunk, with outbox o and status s before it.
Client(p, after, o, s) ==
    {c \in [rest : Seq(SentUnit(p)), emitted : Seq(Payloads(p)),
            outbox : {o, o \union {"subscribe"}}, status : {s, "error"}] :
        Following(c.rest \o after, c.emitted) /\ Increasing(c.emitted)}

\* A row is a part of the units that begins after the first n.
Part(row, units, n) ==
    /\ {n, Len(row), Len(units)} \subseteq Nat
    /\ n + Len(row) <= Len(units)
    /\ DOMAIN row = 1 .. Len(row)
    /\ DOMAIN units = 1 .. Len(units)
    /\ \A i \in 1 .. Len(row) : row[i] = units[i + n]

Dropped(units, n) == SubSeq(units, n + 1, Len(units))

\* Units that are taken from the front leave the rest as it was.
LEMMA FrontTaken ==
    ASSUME NEW S, NEW units \in Seq(S), NEW after \in Seq(S),
           NEW n, n \in 0 .. Len(units)
    PROVE  /\ Dropped(units, n) \in Seq(S)
           /\ Part(Dropped(units, n) \o after, units \o after, n)
           /\ Len(Dropped(units, n) \o after) = Len(units \o after) - n
<1> DEFINE rest == Dropped(units, n)
<1>1. Len(units) \in Nat /\ Len(after) \in Nat /\ n \in Nat /\ n <= Len(units)
    BY LenProperties
<1>2. /\ rest \in Seq(S) /\ Len(rest) = Len(units) - n
      /\ \A i \in 1 .. Len(units) - n : rest[i] = units[i + n]
    <2>1. \A i \in n + 1 .. Len(units) : units[i] \in S
        BY <1>1, ElementOfSeq
    <2>2. /\ rest \in Seq(S)
          /\ Len(rest) = IF n + 1 <= Len(units) THEN Len(units) - (n + 1) + 1 ELSE 0
          /\ \A i \in 1 .. Len(units) - (n + 1) + 1 : rest[i] = units[n + 1 + i - 1]
        BY <1>1, <2>1, SubSeqProperties DEF Dropped
    <2> HIDE DEF rest
    <2> QED
        BY <1>1, <2>2
<1> HIDE DEF rest
<1>3. /\ Len(rest \o after) = Len(rest) + Len(after)
      /\ \A i \in 1 .. Len(rest) + Len(after) :
            (rest \o after)[i] = IF i <= Len(rest) THEN rest[i]
                                                   ELSE after[i - Len(rest)]
    BY <1>2, ConcatProperties
<1>4. /\ Len(units \o after) = Len(units) + Len(after)
      /\ \A i \in 1 .. Len(units) + Len(after) :
            (units \o after)[i] = IF i <= Len(units) THEN units[i]
                                                     ELSE after[i - Len(units)]
    BY ConcatProperties
<1>5. ASSUME NEW i \in 1 .. Len(units \o after) - n
      PROVE  (rest \o after)[i] = (units \o after)[i + n]
    BY <1>1, <1>2, <1>3, <1>4
<1>6. Len(rest \o after) = Len(units \o after) - n
    BY <1>1, <1>2, <1>3, <1>4
<1>7. /\ rest \o after \in Seq(S) /\ units \o after \in Seq(S)
      /\ DOMAIN (rest \o after) = 1 .. Len(rest \o after)
      /\ DOMAIN (units \o after) = 1 .. Len(units \o after)
      /\ Len(rest \o after) \in Nat /\ Len(units \o after) \in Nat
    BY <1>2, ConcatProperties, LenProperties
<1>8. Part(rest \o after, units \o after, n)
    <2> DEFINE row == rest \o after
               whole == units \o after
    <2>1. /\ {n, Len(row), Len(whole)} \subseteq Nat
          /\ DOMAIN row = 1 .. Len(row) /\ DOMAIN whole = 1 .. Len(whole)
          /\ Len(row) = Len(whole) - n
          /\ \A i \in 1 .. Len(whole) - n : row[i] = whole[i + n]
        BY <1>1, <1>5, <1>6, <1>7
    <2> HIDE DEF row, whole
    <2>2. Part(row, whole, n)
        BY <2>1 DEF Part
    <2> QED
        BY <2>2 DEF row, whole
<1> QED
    BY <1>2, <1>6, <1>8 DEF rest

\* A part of units that are in order is in order.
LEMMA PartFollows ==
    ASSUME NEW units, NEW row, NEW given, NEW n,
           Part(row, units, n), Following(units, given)
    PROVE  Following(row, given)
<1> DEFINE total == Len(units)
           m == Len(row)
<1>1. /\ n \in Nat /\ m \in Nat /\ total \in Nat /\ n + m <= total
      /\ DOMAIN row = 1 .. m /\ DOMAIN units = 1 .. total
      /\ \A i \in 1 .. m : row[i] = units[i + n]
    BY DEF Part
<1> HIDE DEF total, m
<1>2. ASSUME NEW i \in 1 .. m
      PROVE  i + n \in DOMAIN units /\ row[i] = units[i + n]
    <2>1. i + n \in 1 .. total
        BY <1>1
    <2> QED
        BY <1>1, <2>1
<1>3. ASSUME NEW i \in 1 .. m, NEW j \in 1 .. m, i < j,
             IsPublish(row[i]), IsPublish(row[j])
      PROVE  /\ row[i].id <= row[j].id
             /\ row[i].id = row[j].id => j - i < PublishUnits
    <2>1. i + n < j + n /\ (j + n) - (i + n) = j - i
        BY <1>1, <1>3
    <2> QED
        BY <1>2, <1>3, <2>1 DEF Following
<1>4. ASSUME NEW k \in DOMAIN given, NEW i \in 1 .. m, given[k] # Garbage,
             IsPublish(row[i])
      PROVE  given[k] < row[i].id
    BY <1>2, <1>4 DEF Following
<1> QED
    BY <1>1, <1>3, <1>4 DEF Following

\* What follows a whole packet at the front is newer than the packet.
LEMMA PacketIsFirst ==
    ASSUME NEW units, NEW given, NEW total \in Nat, NEW i \in 1 .. total,
           DOMAIN units = 1 .. total,
           Following(units, given),
           i > PublishUnits,
           IsPublish(units[1]), IsPublish(units[i]),
           units[1].id \in Nat, units[i].id \in Nat
    PROVE  units[1].id < units[i].id
<1>1. PublishUnits \in Nat \ {0}
    BY NumberAssumption
<1>2. 1 \in DOMAIN units /\ i \in DOMAIN units /\ 1 < i
    BY <1>1
<1>3. /\ units[1].id <= units[i].id
      /\ units[1].id = units[i].id => i - 1 < PublishUnits
    BY <1>2 DEF Following
<1>4. ~(i - 1 < PublishUnits)
    BY <1>1
<1> QED
    BY <1>3, <1>4

\* A packet that is taken follows what was given before, and what is left
\* follows it.
LEMMA TakenIsClient ==
    ASSUME NEW p \in Nat, NEW after \in Seq(SentUnit(p)), NEW o, NEW s,
           NEW c \in Client(p, after, o, s)
    PROVE  Taken(c) \in Client(p, after, o, s)
<1> DEFINE units == c.rest \o after
           n == FrameLength(Head(c.rest))
           left == Dropped(c.rest, n)
           frame == SubSeq(c.rest, 1, n)
<1>1. CASE ~Whole(c.rest)
    BY <1>1 DEF Taken
<1>2. CASE Whole(c.rest)
    <2>1. /\ c.rest \in Seq(SentUnit(p)) /\ c.emitted \in Seq(Payloads(p))
          /\ c.outbox \in {o, o \union {"subscribe"}} /\ c.status \in {s, "error"}
          /\ c = [rest |-> c.rest, emitted |-> c.emitted, outbox |-> c.outbox,
                  status |-> c.status]
          /\ Following(units, c.emitted) /\ Increasing(c.emitted)
        BY DEF Client
    <2>2. /\ c.rest # <<>> /\ Head(c.rest) = c.rest[1]
          /\ Len(c.rest) \in Nat \ {0} /\ 1 \in 1 .. Len(c.rest)
          /\ c.rest[1] \in SentUnit(p)
          /\ n \in 1 .. Len(c.rest)
        <3>1. PublishUnits \in Nat \ {0}
            BY NumberAssumption
        <3>2. c.rest # <<>> /\ Head(c.rest) = c.rest[1] /\ Len(c.rest) \in Nat \ {0}
            BY <1>2, <2>1, EmptySeq DEF Whole
        <3> QED
            BY <1>2, <2>1, <3>1, <3>2, ElementOfSeq DEF Whole, FrameLength
    <2>3. frame[1] = c.rest[1] /\ Head(frame) = c.rest[1] /\ frame \in Seq(SentUnit(p))
        <3>1. \A i \in 1 .. n : c.rest[i] \in SentUnit(p)
            BY <2>1, <2>2, ElementOfSeq
        <3>2. /\ frame \in Seq(SentUnit(p)) /\ Len(frame) = n
              /\ \A i \in 1 .. n - 1 + 1 : frame[i] = c.rest[1 + i - 1]
            BY <2>2, <3>1, SubSeqProperties
        <3> HIDE DEF frame
        <3>3. frame[1] = c.rest[1]
            BY <2>2, <3>2
        <3> QED
            BY <2>2, <3>2, <3>3
    <2>4. /\ left \in Seq(SentUnit(p))
          /\ Part(left \o after, units, n)
          /\ Len(left \o after) = Len(units) - n
        <3>1. n \in 0 .. Len(c.rest)
            BY <2>2
        <3> HIDE DEF n
        <3> QED
            BY <2>1, <3>1, FrontTaken
    <2>5. /\ left \o after \in Seq(SentUnit(p)) /\ units \in Seq(SentUnit(p))
          /\ DOMAIN (left \o after) = 1 .. Len(units) - n
          /\ DOMAIN units = 1 .. Len(units) /\ Len(units) \in Nat
          /\ Len(units) >= Len(c.rest) /\ units[1] = c.rest[1]
          /\ n <= Len(units)
        BY <2>1, <2>2, <2>4, ConcatProperties, LenProperties
    <2>6. \A i \in 1 .. Len(units) : units[i] \in SentUnit(p)
        BY <2>5, ElementOfSeq
    <2> DEFINE total == Len(units)
    <2>7. /\ total \in Nat /\ n \in 1 .. total /\ n \in 0 .. total
          /\ total - n \in 0 .. total - n
        <3>1. Len(units) \in Nat /\ n \in Nat /\ 1 <= n /\ n <= Len(units)
            BY <2>2, <2>5
        <3> HIDE DEF n, total
        <3>2. total \in Nat /\ n \in Nat /\ 1 <= n /\ n <= total
            BY <3>1 DEF total
        <3> QED
            BY <3>2
    <2>8. Following(left \o after, c.emitted)
        <3> HIDE DEF n, left, units
        <3> QED
            BY <2>1, <2>4, PartFollows
    <2>9. Taken(c) = HandleFrame([c EXCEPT !.rest = left], frame)
        BY <1>2 DEF Taken, Dropped
    <2> HIDE DEF left, frame
    <2>10. CASE ~IsPublish(c.rest[1])
        <3>1. \E box \in {o, o \union {"subscribe"}}, state \in {s, "error"} :
                Taken(c) = [rest |-> left, emitted |-> c.emitted, outbox |-> box,
                            status |-> state]
            BY <2>1, <2>3, <2>9, <2>10 DEF HandleFrame, IsPublish
        <3> QED
            BY <2>1, <2>4, <2>8, <3>1 DEF Client
    <2>11. CASE IsPublish(c.rest[1])
        <3> DEFINE payload == Payload(frame)
                   given == Append(c.emitted, payload)
        <3>1. Taken(c) = [rest |-> left, emitted |-> given, outbox |-> c.outbox,
                          status |-> c.status]
            <4> HIDE DEF payload
            <4> QED
                BY <2>1, <2>3, <2>9, <2>11 DEF HandleFrame, IsPublish, payload
        <3>2. payload \in {c.rest[1].id, Garbage} /\ payload \in Payloads(p)
            <4>1. c.rest[1].id \in 1 .. p
                BY <2>2, <2>11 DEF SentUnit
            <4> QED
                BY <2>3, <4>1 DEF Payload, Payloads
        <3> HIDE DEF payload
        <3>3. /\ given \in Seq(Payloads(p)) /\ DOMAIN given = 1 .. Len(c.emitted) + 1
              /\ \A k \in 1 .. Len(c.emitted) : given[k] = c.emitted[k]
              /\ given[Len(c.emitted) + 1] = payload
              /\ Len(c.emitted) \in Nat /\ DOMAIN c.emitted = 1 .. Len(c.emitted)
            BY <2>1, <3>2, AppendProperties, LenProperties
        <3> HIDE DEF given
        <3>4. n = PublishUnits
            BY <2>2, <2>11 DEF FrameLength, IsPublish
        <3> HIDE DEF n
        <3>5. ASSUME NEW i \in 1 .. total - n, IsPublish((left \o after)[i]),
                     payload # Garbage
              PROVE  payload < (left \o after)[i].id
            <4> HIDE DEF total
            <4>1. /\ i + n \in 1 .. total /\ i + n > PublishUnits
                  /\ DOMAIN units = 1 .. total /\ 1 \in 1 .. total
                BY <2>5, <2>7, <3>4 DEF total
            <4> HIDE DEF units
            <4>2. (left \o after)[i] = units[i + n] /\ payload = units[1].id
                BY <2>4, <2>5, <3>2, <3>5 DEF total, Part
            <4>3. units[1].id \in Nat /\ units[i + n].id \in Nat
                BY <2>6, <4>1 DEF SentUnit, total
            <4> QED
                BY <2>1, <2>5, <2>7, <2>11, <3>5, <4>1, <4>2, <4>3, PacketIsFirst
        <3>6. ASSUME NEW k \in 1 .. Len(c.emitted), Garbage \notin {given[k], payload}
              PROVE  given[k] < payload
            <4>1. 1 \in DOMAIN units
                BY <2>2, <2>5
            <4> HIDE DEF units
            <4> QED
                BY <2>1, <2>5, <2>11, <3>2, <3>3, <3>6, <4>1 DEF Following
        <3>7. Following(left \o after, given)
            <4>1. DOMAIN (left \o after) = 1 .. total - n
                BY <2>5
            <4> HIDE DEF units, total
            <4>2. ASSUME NEW k \in DOMAIN given, NEW i \in DOMAIN (left \o after),
                         given[k] # Garbage, IsPublish((left \o after)[i])
                  PROVE  given[k] < (left \o after)[i].id
                <5>1. CASE k = Len(c.emitted) + 1
                    BY <3>3, <3>5, <4>1, <4>2, <5>1
                <5>2. CASE k # Len(c.emitted) + 1
                    <6>1. k \in DOMAIN c.emitted /\ given[k] = c.emitted[k]
                        BY <3>3, <5>2
                    <6> QED
                        BY <2>8, <4>2, <6>1 DEF Following
                <5> QED
                    BY <5>1, <5>2
            <4> QED
                BY <2>8, <4>2 DEF Following
        <3>8. Increasing(given)
            <4> HIDE DEF units, total, left, frame
            <4>1. ASSUME NEW i \in DOMAIN given, NEW j \in DOMAIN given, i < j,
                         Garbage \notin {given[i], given[j]}
                  PROVE  given[i] < given[j]
                <5>1. i \in 1 .. Len(c.emitted) /\ given[i] = c.emitted[i]
                    BY <3>3, <4>1
                <5>2. CASE j = Len(c.emitted) + 1
                    BY <3>3, <3>6, <4>1, <5>1, <5>2
                <5>3. CASE j # Len(c.emitted) + 1
                    <6>1. j \in 1 .. Len(c.emitted) /\ given[j] = c.emitted[j]
                        BY <3>3, <4>1, <5>3
                    <6> QED
                        BY <2>1, <3>3, <4>1, <5>1, <6>1 DEF Increasing
                <5> QED
                    BY <5>2, <5>3
            <4> QED
                BY <4>1 DEF Increasing
        <3> HIDE DEF units
        <3> QED
            BY <2>1, <2>4, <3>1, <3>3, <3>7, <3>8 DEF Client
    <2> QED
        BY <2>10, <2>11
<1> QED
    BY <1>1, <1>2

\* The loop of ingest() ends in S if it starts there and no round leaves it.
LEMMA IngestedKeeps ==
    ASSUME NEW S, NEW c \in S, \A d \in S : Taken(d) \in S
    PROVE  Ingested(c) \in S
<1> DEFINE round == [k \in 1 .. MaxFrames |-> [d \in S |-> Taken(d)]]
           Body(f) == [k \in 0 .. MaxFrames |-> IF k = 0 THEN c ELSE Taken(f[k - 1])]
           ingest == CHOOSE f : f = Body(f)
<1>1. MaxFrames \in Nat
    BY NumberAssumption
<1>2. Ingested(c) = ingest[MaxFrames]
    BY DEF Ingested
<1>3. \E f : f = Body(f)
    <2>1. round \in Rounds(MaxFrames, S)
        BY <1>1 DEF Rounds
    <2>2. PICK loop \in [0 .. MaxFrames -> S] :
              /\ loop[0] = c
              /\ \A k \in 1 .. MaxFrames : loop[k] = round[k][loop[k - 1]]
        <3> HIDE DEF round, ingest
        <3> QED
            BY <1>1, <2>1, LoopExists
    <2>3. ASSUME NEW k \in 1 .. MaxFrames
          PROVE  loop[k] = Taken(loop[k - 1])
        <3>1. k - 1 \in 0 .. MaxFrames
            BY <1>1
        <3> QED
            BY <2>2, <3>1
    <2>4. loop = Body(loop)
        <3>1. \A k \in 0 .. MaxFrames : loop[k] = Body(loop)[k]
            <4>1. \A k \in 0 .. MaxFrames : k # 0 => k \in 1 .. MaxFrames
                BY <1>1
            <4> QED
                BY <2>2, <2>3, <4>1
        <3> QED
            BY <3>1
    <2> QED
        BY <2>4
<1>4. ingest = Body(ingest)
    BY <1>3
<1> HIDE DEF ingest
<1>5. /\ ingest[0] = c
      /\ \A k \in 1 .. MaxFrames : ingest[k] = Taken(ingest[k - 1])
    <2>1. 0 \in 0 .. MaxFrames /\ \A k \in 1 .. MaxFrames : k \in 0 .. MaxFrames /\ k # 0
        BY <1>1
    <2> QED
        BY <1>4, <2>1
<1>6. \A k \in 0 .. MaxFrames : ingest[k] \in S
    <2>1. \A k \in 1 .. MaxFrames : ingest[k - 1] \in S => ingest[k] \in S
        BY <1>1, <1>5
    <2> QED
        BY <1>1, <1>5, <2>1, LoopKeeps
<1> QED
    BY <1>1, <1>2, <1>6

\* So it ends in such a state as well.
LEMMA IngestedIsClient ==
    ASSUME NEW p \in Nat, NEW after \in Seq(SentUnit(p)), NEW o, NEW s,
           NEW c \in Client(p, after, o, s)
    PROVE  Ingested(c) \in Client(p, after, o, s)
<1> DEFINE S == Client(p, after, o, s)
<1>1. c \in S /\ \A d \in S : Taken(d) \in S
    BY TakenIsClient
<1> HIDE DEF S
<1>2. Ingested(c) \in S
    BY <1>1, IngestedKeeps
<1> QED
    BY <1>2 DEF S

\* The units of one envelope more, or a packet without an envelope, follow
\* what was sent before.
LEMMA PacketFollows ==
    ASSUME NEW S, NEW units \in Seq(S), NEW packet \in Seq(S), NEW given,
           NEW e \in Nat,
           \A i \in DOMAIN units : units[i].id \in Nat,
           \A i \in DOMAIN units : IsPublish(units[i]) => units[i].id < e,
           \A i \in DOMAIN packet : IsPublish(packet[i]) => packet[i].id = e,
           \A k \in DOMAIN given : given[k] # Garbage => given[k] < e,
           Len(packet) <= PublishUnits,
           Following(units, given)
    PROVE  Following(units \o packet, given)
<1> DEFINE whole == units \o packet
           m == Len(units)
           l == Len(packet)
<1>1. /\ m \in Nat /\ l \in Nat /\ l <= PublishUnits
      /\ DOMAIN units = 1 .. m /\ DOMAIN packet = 1 .. l /\ DOMAIN whole = 1 .. m + l
      /\ \A i \in 1 .. m + l : whole[i] = IF i <= m THEN units[i] ELSE packet[i - m]
    BY ConcatProperties, LenProperties
<1>2. PublishUnits \in Nat \ {0}
    BY NumberAssumption
<1> HIDE DEF whole, m, l
<1>3. ASSUME NEW i \in DOMAIN whole, IsPublish(whole[i])
      PROVE  \/ /\ i \in DOMAIN units /\ whole[i] = units[i]
                /\ whole[i].id \in Nat /\ whole[i].id < e
             \/ i > m /\ whole[i].id = e
    <2>1. CASE i <= m
        <3>1. i \in DOMAIN units /\ whole[i] = units[i]
            BY <1>1, <2>1
        <3> QED
            BY <1>3, <3>1
    <2>2. CASE i > m
        <3>1. i - m \in DOMAIN packet /\ whole[i] = packet[i - m]
            BY <1>1, <2>2
        <3> QED
            BY <1>3, <2>2, <3>1
    <2> QED
        BY <1>1, <2>1, <2>2
<1>4. ASSUME NEW i \in DOMAIN whole, NEW j \in DOMAIN whole, i < j,
             IsPublish(whole[i]), IsPublish(whole[j])
      PROVE  /\ whole[i].id <= whole[j].id
             /\ whole[i].id = whole[j].id => j - i < PublishUnits
    <2>1. CASE i > m
        <3>1. j > m /\ i \in Nat /\ j \in Nat /\ j <= m + l
            BY <1>1, <1>4, <2>1
        <3>2. whole[i].id = e /\ whole[j].id = e
            BY <1>1, <1>3, <1>4, <2>1, <3>1
        <3> QED
            BY <1>1, <1>2, <2>1, <3>1, <3>2
    <2>2. CASE i <= m
        <3>1. /\ i \in DOMAIN units /\ whole[i] = units[i]
              /\ whole[i].id \in Nat /\ whole[i].id < e
            BY <1>1, <1>3, <1>4, <2>2
        <3>2. CASE j > m
            <4>1. whole[j].id = e
                BY <1>1, <1>3, <1>4, <3>2
            <4> QED
                BY <3>1, <4>1
        <3>3. CASE ~(j > m)
            <4>1. j \in DOMAIN units /\ whole[j] = units[j]
                BY <1>3, <1>4, <3>3
            <4> QED
                BY <1>4, <3>1, <4>1 DEF Following
        <3> QED
            BY <3>2, <3>3
    <2> QED
        BY <1>1, <2>1, <2>2
<1>5. ASSUME NEW k \in DOMAIN given, NEW i \in DOMAIN whole, given[k] # Garbage,
             IsPublish(whole[i])
      PROVE  given[k] < whole[i].id
    BY <1>3, <1>5 DEF Following
<1> QED
    BY <1>4, <1>5 DEF Following, whole

\* The broker sends a packet.
LEMMA PacketSent ==
    ASSUME Wired, NEW packet \in Seq(SentUnit(published')),
           published' \in {published, published + 1}, published' <= MaxPublished,
           \A i \in DOMAIN packet : IsPublish(packet[i]) => packet[i].id = published + 1,
           Len(packet) <= PublishUnits,
           stream' = stream \o packet,
           UNCHANGED <<buffer, emitted>>
    PROVE  Wired'
<1> DEFINE p == published
           q == published'
           S == SentUnit(q)
<1>1. /\ p \in Nat /\ q \in Nat /\ p + 1 \in Nat /\ MaxPublished \in Nat
      /\ SentUnit(p) \subseteq S /\ Payloads(p) \subseteq Payloads(q)
    <2>1. p \in 0 .. MaxPublished /\ MaxPublished \in Nat
        BY NumberAssumption DEF Wired
    <2>2. 0 .. p \subseteq 0 .. q /\ 1 .. p \subseteq 1 .. q
        BY <2>1
    <2> QED
        BY <2>1, <2>2 DEF SentUnit, Payloads
<1>2. /\ buffer \in Seq(S) /\ stream \in Seq(S) /\ packet \in Seq(S)
      /\ emitted \in Seq(Payloads(q))
    <2>1. /\ buffer \in Seq(SentUnit(p)) /\ stream \in Seq(SentUnit(p))
          /\ emitted \in Seq(Payloads(p))
        BY DEF Wired
    <2> QED
        BY <1>1, <2>1, SeqMonotonic
<1> DEFINE units == buffer \o stream
<1>3. units \in Seq(SentUnit(p)) /\ units \in Seq(S) /\ stream \o packet \in Seq(S)
    BY <1>2, ConcatProperties DEF Wired
<1>4. \A i \in DOMAIN units : units[i] \in SentUnit(p)
    <2> HIDE DEF units
    <2> QED
        BY <1>3, LenProperties, ElementOfSeq
<1>5. \A k \in DOMAIN emitted : emitted[k] \in Payloads(p)
    BY LenProperties, ElementOfSeq DEF Wired
<1>6. Following(units \o packet, emitted)
    <2>1. /\ \A i \in DOMAIN units : units[i].id \in Nat /\ units[i].id < p + 1
          /\ \A k \in DOMAIN emitted : emitted[k] # Garbage => emitted[k] < p + 1
        BY <1>1, <1>4, <1>5 DEF SentUnit, Payloads
    <2>2. Following(units, emitted)
        BY DEF Wired
    <2> HIDE DEF units, S, p, q
    <2>3. \A i \in DOMAIN packet : IsPublish(packet[i]) => packet[i].id = p + 1
        BY DEF p
    <2> QED
        BY <1>1, <1>2, <1>3, <2>1, <2>2, <2>3, PacketFollows
<1>7. units \o packet = buffer \o (stream \o packet)
    BY <1>2, ConcatAssociative
<1> QED
    BY <1>1, <1>2, <1>3, <1>6, <1>7 DEF Wired

\* The socket is lost, and with it what is on its way.
LEMMA StreamLost ==
    ASSUME Wired, stream' = <<>>, UNCHANGED <<buffer, emitted, published>>
    PROVE  Wired'
<1> DEFINE S == SentUnit(published)
           units == buffer \o stream
           m == Len(buffer)
<1>1. buffer \in Seq(S) /\ stream \in Seq(S) /\ <<>> \in Seq(S)
    BY DEF Wired
<1>2. buffer \o <<>> = buffer
    BY <1>1, ConcatEmptySeq
<1>3. Part(buffer, units, 0)
    <2> DEFINE t == Len(units)
    <2>1. /\ m \in Nat /\ t \in Nat /\ 0 + m <= t
          /\ DOMAIN buffer = 1 .. m /\ DOMAIN units = 1 .. t
          /\ \A i \in 1 .. m : buffer[i] = units[i]
        BY <1>1, ConcatProperties, LenProperties
    <2>2. \A i \in 1 .. m : i + 0 = i
        BY <2>1
    <2> HIDE DEF units
    <2> QED
        BY <2>1, <2>2 DEF Part
<1>4. Following(buffer, emitted)
    BY <1>3, PartFollows DEF Wired
<1> QED
    BY <1>1, <1>2, <1>4 DEF Wired

LEMMA WireInit == Init => WInv
<1> SUFFICES ASSUME Init
             PROVE  WInv
    OBVIOUS
<1>1. buffer \o stream = <<>>
    BY DEF Init
<1>2. Wired
    BY <1>1, NumberAssumption DEF Init, Wired, Following, Increasing
<1>3. Linked
    BY DEF Init, Linked
<1> QED
    BY <1>2, <1>3 DEF WInv

\* A chunk that arrives leaves the timers alone.
LEMMA ReceiveStep ==
    ASSUME WInv, NEW n \in 1 .. Len(stream), Receive(n)
    PROVE  /\ WInv'
           /\ UNCHANGED <<connected, gone, pauseIn, paused, socket>>
           /\ status' \in {status, "error"}
<1> DEFINE p == published
           S == SentUnit(p)
           chunk == SubSeq(stream, 1, n)
           after == SubSeq(stream, n + 1, Len(stream))
           start == [rest |-> buffer \o chunk, emitted |-> emitted,
                     outbox |-> outbox, status |-> status]
           client == Ingested(start)
<1>1. /\ buffer \in Seq(S) /\ stream \in Seq(S) /\ emitted \in Seq(Payloads(p))
      /\ p \in Nat /\ p \in 0 .. MaxPublished
      /\ Following(buffer \o stream, emitted) /\ Increasing(emitted)
    BY NumberAssumption DEF WInv, Wired
<1>2. /\ buffer' = client.rest /\ emitted' = client.emitted
      /\ outbox' = client.outbox /\ status' = client.status
      /\ stream' = after /\ socket = "open"
      /\ UNCHANGED <<usable, socket, retry, broker, published, timeVars>>
    BY DEF Receive
<1>3. chunk \in Seq(S) /\ after \in Seq(S) /\ chunk \o after = stream
    <2>1. Len(stream) \in Nat /\ n \in Nat /\ n <= Len(stream)
        BY <1>1, LenProperties
    <2>2. \A i \in 1 .. Len(stream) : stream[i] \in S
        BY <1>1, ElementOfSeq
    <2> HIDE DEF S
    <2>3. \A i \in 1 .. n : stream[i] \in S
        BY <2>1, <2>2
    <2>4. \A i \in n + 1 .. Len(stream) : stream[i] \in S
        BY <2>1, <2>2
    <2>5. chunk \in Seq(S) /\ after \in Seq(S)
        BY <2>1, <2>3, <2>4, SubSeqProperties
    <2>6. chunk \o after = SubSeq(stream, 1, Len(stream))
        BY <1>1, <2>1, ConcatAdjacentSubSeq
    <2> QED
        BY <1>1, <2>5, <2>6, SubSeqFull
<1>4. start \in Client(p, after, outbox, status)
    <2> HIDE DEF chunk, after, S
    <2>1. buffer \o chunk \in Seq(S)
        BY <1>1, <1>3, ConcatProperties
    <2>2. (buffer \o chunk) \o after = buffer \o (chunk \o after)
        <3>1. buffer \in Seq(S) /\ chunk \in Seq(S) /\ after \in Seq(S)
            BY <1>1, <1>3
        <3> QED
            BY <3>1, ConcatAssociative
    <2> QED
        BY <1>1, <1>3, <2>1, <2>2 DEF Client, S
<1>5. client \in Client(p, after, outbox, status)
    <2> HIDE DEF chunk, after, start
    <2> QED
        BY <1>1, <1>3, <1>4, IngestedIsClient DEF S
<1> HIDE DEF chunk, after, start, client
<1>6. /\ buffer' \in Seq(S) /\ emitted' \in Seq(Payloads(p))
      /\ Following(buffer' \o stream', emitted') /\ Increasing(emitted')
      /\ outbox' \in {outbox, outbox \union {"subscribe"}}
      /\ status' \in {status, "error"}
    BY <1>2, <1>5 DEF Client
<1>7. Wired'
    BY <1>1, <1>2, <1>3, <1>6 DEF Wired
<1>8. Linked'
    BY <1>2, <1>6 DEF WInv, Linked, timeVars
<1> QED
    BY <1>2, <1>6, <1>7, <1>8 DEF WInv, timeVars

\* So does the broker.
LEMMA BrokerStep ==
    ASSUME WInv, AnswerConnect \/ AnswerSubscribe \/ PublishEnvelope \/ PingResponse
    PROVE  /\ WInv'
           /\ UNCHANGED <<connected, gone, pauseIn, paused, socket, status>>
<1>1. /\ UNCHANGED <<connected, gone, pauseIn, paused, flagged, socket, status>>
      /\ UNCHANGED <<usable, retry, buffer, emitted>>
      /\ outbox' \subseteq outbox
    BY DEF AnswerConnect, AnswerSubscribe, PublishEnvelope, PingResponse, timeVars
<1>2. PublishUnits \in Nat \ {0} /\ published \in Nat /\ MaxPublished \in Nat
      /\ published <= MaxPublished
    BY NumberAssumption DEF WInv, Wired
<1>3. ASSUME NEW kind \in Kind \ {"publish"}, UNCHANGED published,
             stream' = stream \o Packet(kind)
      PROVE  Wired'
    <2> DEFINE packet == Packet(kind)
    <2>1. /\ packet \in Seq(SentUnit(published)) /\ Len(packet) = 1
          /\ DOMAIN packet = {1} /\ ~IsPublish(packet[1])
        BY <1>2 DEF Packet, SentUnit, IsPublish
    <2> HIDE DEF packet
    <2>2. /\ packet \in Seq(SentUnit(published'))
          /\ \A i \in DOMAIN packet : IsPublish(packet[i]) => packet[i].id = published + 1
          /\ Len(packet) <= PublishUnits
        BY <1>2, <1>3, <2>1
    <2>3. Wired /\ stream' = stream \o packet /\ UNCHANGED <<buffer, emitted>>
        BY <1>1, <1>3 DEF WInv, packet
    <2>4. published' \in {published, published + 1} /\ published' <= MaxPublished
        BY <1>2, <1>3
    <2> QED
        BY <2>2, <2>3, <2>4, PacketSent
<1>4. CASE AnswerConnect
    <2>1. /\ broker' \in {"accepted", "refused"} /\ socket = "open"
          /\ \E kind \in Kind \ {"publish"} : stream' = stream \o Packet(kind)
          /\ UNCHANGED published
        BY <1>4 DEF AnswerConnect, WInv, Linked, Kind
    <2> QED
        BY <1>1, <1>3, <2>1 DEF WInv, Linked
<1>5. CASE AnswerSubscribe
    <2>1. /\ broker' = "subscribed" /\ socket = "open"
          /\ \E kind \in Kind \ {"publish"} : stream' = stream \o Packet(kind)
          /\ UNCHANGED published
        BY <1>5 DEF AnswerSubscribe, WInv, Linked, Kind
    <2> QED
        BY <1>1, <1>3, <2>1 DEF WInv, Linked
<1>6. CASE PingResponse
    <2>1. /\ broker' = broker /\ socket = "open"
          /\ stream' = stream \o Packet("pingresp") /\ "pingresp" \in Kind \ {"publish"}
          /\ UNCHANGED published
        <3>1. stream = <<>> /\ Packet("pingresp") \in Seq({Packet("pingresp")[1]})
            BY <1>6 DEF PingResponse, Packet
        <3>2. stream \o Packet("pingresp") = Packet("pingresp")
            BY <3>1, ConcatEmptySeq
        <3> QED
            BY <1>6, <3>2 DEF PingResponse, WInv, Linked, Kind
    <2> QED
        BY <1>1, <1>3, <2>1 DEF WInv, Linked
<1>7. CASE PublishEnvelope
    <2>1. /\ published' = published + 1 /\ published' <= MaxPublished
          /\ UNCHANGED <<outbox, broker>>
        BY <1>2, <1>7 DEF PublishEnvelope
    <2>2. CASE broker = "subscribed"
        <3> DEFINE packet == PublishPacket(published')
        <3>1. stream' = stream \o packet /\ socket = "open"
            BY <1>7, <2>2 DEF PublishEnvelope, WInv, Linked
        <3>2. [kind |-> "publish", id |-> published'] \in SentUnit(published')
            BY <1>2, <2>1 DEF SentUnit, Kind
        <3>3. /\ packet \in Seq(SentUnit(published')) /\ Len(packet) = PublishUnits
              /\ \A i \in DOMAIN packet : packet[i].id = published + 1
            BY <1>2, <2>1, <3>2 DEF PublishPacket
        <3> HIDE DEF packet
        <3>4. /\ \A i \in DOMAIN packet :
                    IsPublish(packet[i]) => packet[i].id = published + 1
              /\ Len(packet) <= PublishUnits
            BY <1>2, <3>1, <3>3
        <3>5. Wired'
            <4>1. Wired /\ stream' = stream \o packet /\ UNCHANGED <<buffer, emitted>>
                BY <1>1, <3>1, <3>3 DEF WInv
            <4>2. /\ published' \in {published, published + 1}
                  /\ published' <= MaxPublished
                  /\ packet \in Seq(SentUnit(published'))
                BY <2>1, <3>1, <3>3
            <4> QED
                BY <3>4, <4>1, <4>2, PacketSent
        <3> QED
            BY <1>1, <2>1, <3>1, <3>5 DEF WInv, Linked
    <2>3. CASE broker # "subscribed"
        <3> DEFINE packet == <<>>
        <3>1. stream' = stream
            BY <1>7, <2>3 DEF PublishEnvelope
        <3>2. packet \in Seq(SentUnit(published')) /\ Len(packet) = 0 /\ DOMAIN packet = {}
            OBVIOUS
        <3>3. stream' = stream \o packet
            BY <3>1, ConcatEmptySeq DEF WInv, Wired
        <3> HIDE DEF packet
        <3>4. /\ \A i \in DOMAIN packet :
                    IsPublish(packet[i]) => packet[i].id = published + 1
              /\ Len(packet) <= PublishUnits
            BY <1>2, <3>2, <3>3
        <3>5. Wired'
            <4>1. Wired /\ stream' = stream \o packet /\ UNCHANGED <<buffer, emitted>>
                BY <1>1, <3>2, <3>3 DEF WInv
            <4>2. /\ published' \in {published, published + 1}
                  /\ published' <= MaxPublished
                  /\ packet \in Seq(SentUnit(published'))
                BY <2>1, <3>2, <3>3
            <4> QED
                BY <3>4, <4>1, <4>2, PacketSent
        <3> QED
            BY <1>1, <2>1, <3>1, <3>5 DEF WInv, Linked
    <2> QED
        BY <2>2, <2>3
<1> QED
    BY <1>4, <1>5, <1>6, <1>7, <1>1

\* The socket and the timers leave the units alone, or lose those that are on
\* their way.
LEMMA SocketKeepsWire ==
    ASSUME WInv, Opened \/ Closed \/ Connect \/ PauseTimer \/ Tick
    PROVE  WInv'
<1>1. CASE Opened
    <2>1. Wired'
        BY <1>1, StreamLost DEF Opened, WInv
    <2>2. Linked'
        BY <1>1 DEF Opened, MarksConnected, WInv, Linked
    <2> QED
        BY <2>1, <2>2 DEF WInv
<1>2. CASE Closed
    <2>1. Wired'
        BY <1>2, StreamLost DEF Closed, WInv
    <2>2. Linked'
        BY <1>2 DEF Closed, WInv, Linked
    <2> QED
        BY <2>1, <2>2 DEF WInv
<1>3. CASE Connect \/ PauseTimer \/ Tick
    <2>1. UNCHANGED wireVars
        BY <1>3 DEF Connect, PauseTimer, Tick
    <2>2. Wired'
        BY <2>1 DEF wireVars, WInv, Wired
    <2>3. Linked'
        <3>1. CASE Connect
            BY <2>1, <3>1 DEF Connect, wireVars, WInv, Linked
        <3>2. CASE PauseTimer
            BY <2>1, <3>2 DEF PauseTimer, wireVars, WInv, Linked
        <3>3. CASE Tick
            BY <2>1, <3>3 DEF Tick, wireVars, WInv, Linked
        <3> QED
            BY <1>3, <3>1, <3>2, <3>3
    <2> QED
        BY <2>2, <2>3 DEF WInv
<1> QED
    BY <1>1, <1>2, <1>3

----------------------------------------------------------------------------
IInv == TInv /\ WInv

\* The invariant of the timers and of the units is inductive.
THEOREM Inductive == Spec => []IInv
<1>1. Init => IInv
    BY InitInvariant, WireInit DEF IInv
<1>2. IInv /\ [Next]_vars => IInv'
    <2> SUFFICES ASSUME IInv, [Next]_vars
                 PROVE  IInv'
        OBVIOUS
    <2>1. CASE Opened \/ Closed \/ Connect \/ PauseTimer \/ Tick
        BY <2>1, SocketStep, TimeStep, SocketKeepsWire DEF IInv
    <2>2. ASSUME NEW n \in 1 .. Len(stream), Receive(n)
          PROVE  IInv'
        BY <2>2, ReceiveStep DEF IInv, TInv, Timed, Counted, Reported
    <2>3. CASE AnswerConnect \/ AnswerSubscribe \/ PublishEnvelope \/ PingResponse
        BY <2>3, BrokerStep DEF IInv, TInv, Timed, Counted, Reported
    <2>4. CASE UNCHANGED vars
        BY <2>4 DEF vars, timeVars, wireVars, IInv, TInv, Timed, Counted, Reported,
                    WInv, Wired, Linked
    <2> QED
        BY <2>1, <2>2, <2>3, <2>4 DEF Next
<1> QED
    BY <1>1, <1>2, PTL DEF Spec

\* Every variable has its type, and the state of the socket rules out what it
\* must (mqtt_ws_client.js:211-237).
THEOREM TypeCorrect == Spec => []TypeOK
<1>1. IInv => TypeOK
    <2> SUFFICES ASSUME IInv
                 PROVE  TypeOK
        OBVIOUS
    <2>1. published \in 0 .. MaxPublished /\ MaxPublished \in Nat
        BY NumberAssumption DEF IInv, WInv, Wired
    <2>2. SentUnit(published) \subseteq Unit
          /\ Payloads(published) \subseteq Envelope \union {Garbage}
        <3>1. 0 .. published \subseteq 0 .. MaxPublished
              /\ 1 .. published \subseteq 1 .. MaxPublished
            BY <2>1
        <3> QED
            BY <3>1 DEF SentUnit, Unit, Payloads, Envelope
    <2>3. /\ stream \in Seq(Unit) /\ buffer \in Seq(Unit)
          /\ emitted \in Seq(Envelope \union {Garbage})
        BY <2>2, SeqMonotonic DEF IInv, WInv, Wired
    <2> QED
        BY <2>1, <2>3
           DEF IInv, TInv, WInv, Timed, Counted, Linked, TypeOK, MaybeTicks
<1> QED
    BY <1>1, Inductive, PTL

\* No envelope reaches the application twice or out of order, however packets
\* are cut (mqtt_ws_client.js:475-505).
THEOREM EnvelopesStayInOrder == Spec => []EnvelopesInOrder
<1>1. IInv => EnvelopesInOrder
    BY DEF IInv, WInv, Wired, Increasing, EnvelopesInOrder
<1> QED
    BY <1>1, Inductive, PTL

\* "Paused" is never shown early, nor beside a connection
\* (mqtt_ws_client.js:226-233, 545-553).
THEOREM PausedStaysLong == Spec => []PausedIsLong
<1>1. IInv => PausedIsLong
    BY DEF IInv, TInv, Counted, Reported, PausedIsLong
<1> QED
    BY <1>1, Inductive, PTL

\* The connection that ends a reported outage is marked
\* (mqtt_ws_client.js:12-14, 541-557).
THEOREM PausesAreFlagged == Spec => PauseIsFlagged
<1>1. IInv /\ [Next]_vars =>
        [socket # "open" /\ socket' = "open" =>
            (paused /\ connected # None => flagged')]_vars
    <2> SUFFICES ASSUME IInv, Next, socket # "open", socket' = "open",
                        paused, connected # None
                 PROVE  flagged'
        OBVIOUS
    <2>1. Opened
        BY DEF Next, Closed, Connect, PauseTimer, Tick, Receive, AnswerConnect,
               AnswerSubscribe, PublishEnvelope, PingResponse
    <2>2. connected = Threshold
        <3>1. gone = Threshold /\ Threshold \in Nat /\ None \notin Nat
            BY NumberAssumption DEF IInv, TInv, Reported
        <3>2. gone <= connected /\ connected \in Nat /\ connected <= Threshold
            BY <3>1, TicksAre DEF IInv, TInv, Timed, Reported
        <3> QED
            BY <3>1, <3>2
    <2> QED
        BY <2>1, <2>2 DEF Opened, MarksConnected
<1> QED
    BY Inductive, <1>1, PTL DEF Spec, PauseIsFlagged

=============================================================================
