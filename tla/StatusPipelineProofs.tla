------------------------ MODULE StatusPipelineProofs ------------------------
(***************************************************************************)
(* Theorems about StatusPipeline, for all thresholds that are in order.    *)
(***************************************************************************)
EXTENDS StatusPipeline, TLAPS

MaybeAge == Age \union {None}

\* On the way to a listener there is at most one snapshot of this period and
\* one of the last, in their order.
Wired ==
    /\ wire \in [Listener -> Seq(Snapshot)]
    /\ \A l \in Listener : \A i \in 1 .. Len(wire[l]) :
          wire[l][i].age \in {0, 1} /\ ("pi" \in due => wire[l][i].age = 1)
    /\ \A l \in Listener : \A i, j \in 1 .. Len(wire[l]) :
          i < j => wire[l][i].age > wire[l][j].age

\* What is not a snapshot on its way is well typed.
Typed ==
    /\ pi \in Pi
    /\ due \subseteq {"pi", "page"}
    /\ file \in MaybeAge
    /\ link \in BOOLEAN
    /\ listening \subseteq Listener
    /\ server \in {"down", "restore", "up"}
    /\ latest \in Held
    /\ rows \in MaybeAge
    /\ open \in BOOLEAN /\ badge \in BOOLEAN
    /\ shown \in MaybeAge
    /\ source \in {"", "live", "persisted"}
    /\ pill \in {"live", "unknown", "offline"}
    /\ reply \in [at : {"idle", "asked", "served"}, held : Held]

\* The status file is at least as new as a.
Fresh(a) == a # None => file # None /\ file <= a

\* No copy of a snapshot is newer than the file.
Copied ==
    /\ \A l \in Listener : \A i \in 1 .. Len(wire[l]) : Fresh(wire[l][i].age)
    /\ Fresh(latest.age)
    /\ Fresh(rows)
    /\ Fresh(reply.held.age)
    /\ Fresh(shown)

\* A page that is not open receives nothing and renders nothing.
Shut ==
    ~open => /\ wire["page"] = <<>> /\ "page" \notin listening
             /\ "page" \notin due
             /\ reply.at = "idle" /\ pill # "live"

\* A pill that says Live was rendered in this period or is rendered again.
Rendered ==
    pill = "live" =>
        /\ shown # None
        /\ shown < LiveFor \/ ("page" \in due /\ shown <= LiveFor)

IInv == Wired /\ Typed /\ Copied /\ Shut /\ Rendered

----------------------------------------------------------------------------
\* An age that is there is a number.
LEMMA AgeIs ==
    ASSUME NEW a \in MaybeAge, a # None
    PROVE  a \in Nat /\ a \in Age
<1>1. a \in 0 .. MaxAge
    BY DEF MaybeAge, Age
<1> QED
    BY <1>1 DEF Age

\* What the pill says of an age.
LEMMA StateOf ==
    ASSUME NEW a \in MaybeAge
    PROVE  /\ State(a) \in {"live", "unknown", "offline"}
           /\ State(a) = "live" => a # None /\ a < LiveFor
<1>1. CASE a = None
    BY <1>1 DEF State
<1>2. CASE a \in Age
    <2>1. a \in Nat /\ a # None /\ LiveFor \in Nat /\ UnknownFor \in Nat
        BY <1>2, ThresholdAssumption DEF Age
    <2> QED
        BY <2>1, ThresholdAssumption DEF State
<1> QED
    BY <1>1, <1>2 DEF MaybeAge

\* Growing older keeps the type and the order of two ages.
LEMMA OlderOf ==
    ASSUME NEW a \in MaybeAge
    PROVE  /\ Older(a) \in MaybeAge
           /\ Older(a) = None <=> a = None
           /\ \A b \in MaybeAge :
                 a # None /\ b # None /\ a <= b => Older(a) <= Older(b)
BY ThresholdAssumption DEF Older, MaybeAge, Age

\* What is held has an age or none.
LEMMA HeldAge ==
    ASSUME NEW h \in Held
    PROVE  h.age \in MaybeAge
<1>1. CASE h = Empty
    BY <1>1 DEF Empty, MaybeAge
<1>2. CASE h \in [age : Age, source : {"live", "persisted"}]
    BY <1>2 DEF MaybeAge
<1> QED
    BY <1>1, <1>2 DEF Held

\* The two bounds of a row of distinct ages.
LEMMA TypesFollow == IInv => TypeOK
<1> SUFFICES ASSUME IInv
             PROVE  TypeOK
    OBVIOUS
<1>1. ASSUME NEW l \in Listener
      PROVE  Len(wire[l]) <= 2
    <2>1. wire[l] \in Seq(Snapshot) /\ Len(wire[l]) \in Nat
        BY DEF IInv, Wired
    <2>2. ASSUME Len(wire[l]) >= 3
          PROVE  FALSE
        <3>1. {1, 2, 3} \subseteq 1 .. Len(wire[l])
            BY <2>1, <2>2
        <3>2. /\ wire[l][1].age > wire[l][2].age
              /\ wire[l][2].age > wire[l][3].age
            BY <3>1 DEF IInv, Wired
        <3>3. {wire[l][1].age, wire[l][2].age, wire[l][3].age} \subseteq {0, 1}
            BY <3>1 DEF IInv, Wired
        <3> QED
            BY <3>2, <3>3
    <2> QED
        BY <2>1, <2>2
<1> QED
    BY <1>1 DEF IInv, Wired, Typed, MaybeAge, TypeOK

LEMMA InitInvariant == Init => IInv
<1> SUFFICES ASSUME Init
             PROVE  IInv
    OBVIOUS
<1>1. State(None) = "offline"
    BY DEF State
<1>2. Empty \in Held /\ Empty.age = None
    BY DEF Held, Empty
<1>3. Typed
    BY <1>1, <1>2 DEF Init, Typed, Pi, MaybeAge, NoReply, Listener
<1>0. ASSUME NEW l \in Listener
      PROVE  wire[l] = <<>> /\ Len(wire[l]) = 0
    BY DEF Init
<1>4. Wired
    <2>0. <<>> \in Seq(Snapshot)
        OBVIOUS
    <2>1. wire \in [Listener -> Seq(Snapshot)]
        BY <2>0 DEF Init
    <2>2. ASSUME NEW l \in Listener
          PROVE  1 .. Len(wire[l]) = {}
        BY <1>0
    <2> QED
        BY <2>1, <2>2 DEF Wired
<1>5. Copied
    <2>1. ASSUME NEW l \in Listener
          PROVE  1 .. Len(wire[l]) = {}
        BY <1>0
    <2>2. reply.held = Empty /\ latest = Empty /\ rows = None /\ shown = None
        BY DEF Init, NoReply
    <2> QED
        BY <1>2, <2>1, <2>2 DEF Copied, Fresh
<1>6. Shut /\ Rendered
    BY <1>1 DEF Init, Shut, Rendered, NoReply, Listener
<1> QED
    BY <1>3, <1>4, <1>5, <1>6 DEF IInv

\* Time makes everything older alike.
LEMMA TickStep ==
    ASSUME IInv, Tick
    PROVE  IInv'
<1> USE ThresholdAssumption
<1>1. ASSUME NEW h \in Held
      PROVE  Aged(h) \in Held /\ Aged(h).age = Older(h.age)
    <2>1. CASE h = Empty
        <3>1. Older(None) = None
            BY DEF Older
        <3>2. h.age = None /\ h = [age |-> None, source |-> ""]
            BY <2>1 DEF Empty
        <3>3. Aged(h) = h
            BY <3>1, <3>2 DEF Aged
        <3> QED
            BY <3>1, <3>2, <3>3
    <2>2. CASE h \in [age : Age, source : {"live", "persisted"}]
        <3>1. h.age \in Age /\ h.age # None /\ h.age \in MaybeAge
            BY <2>2 DEF Age, MaybeAge
        <3>2. Older(h.age) \in Age
            BY <3>1, OlderOf DEF MaybeAge
        <3> QED
            BY <2>2, <3>1, <3>2 DEF Aged, Held
    <2> QED
        BY <2>1, <2>2 DEF Held
<1>2. /\ latest \in Held /\ reply.held \in Held
      /\ latest' = Aged(latest) /\ reply'.held = Aged(reply.held)
      /\ reply'.at = reply.at
      /\ reply' \in [at : {"idle", "asked", "served"}, held : Held]
    BY <1>1 DEF IInv, Typed, Tick
<1>3. Typed'
    BY <1>1, <1>2, OlderOf DEF IInv, Typed, Tick
<1>4. ASSUME NEW l \in Listener
      PROVE  /\ wire'[l] \in Seq(Snapshot)
             /\ Len(wire'[l]) = Len(wire[l])
             /\ \A i \in 1 .. Len(wire[l]) : wire'[l][i].age = 1
             /\ Len(wire[l]) <= 1
    <2> DEFINE n == Len(wire[l])
    <2>1. wire[l] \in Seq(Snapshot) /\ n \in Nat
        BY DEF IInv, Wired
    <2>2. wire'[l] = [i \in 1 .. n |-> Aged(wire[l][i])]
        BY DEF Tick
    <2>3. ASSUME NEW i \in 1 .. n
          PROVE  wire[l][i].age = 0 /\ wire[l][i] \in Snapshot
        BY <2>1 DEF Tick
    <2>4. ASSUME NEW i \in 1 .. n
          PROVE  Aged(wire[l][i]) \in Snapshot /\ Aged(wire[l][i]).age = 1
        BY <2>3 DEF Aged, Older, Snapshot, Age
    <2>5. n <= 1
        <3>1. ASSUME n >= 2
              PROVE  FALSE
            <4>1. wire[l][1].age > wire[l][2].age
                BY <2>1, <3>1 DEF IInv, Wired
            <4> QED
                BY <2>1, <2>3, <3>1, <4>1
        <3> QED
            BY <2>1, <3>1
    <2> QED
        BY <2>1, <2>2, <2>4, <2>5
<1>5. Wired'
    <2>1. wire' \in [Listener -> Seq(Snapshot)]
        BY <1>4 DEF Tick
    <2> QED
        BY <1>4, <2>1 DEF Wired
<1>6. ASSUME NEW a \in MaybeAge, Fresh(a)
      PROVE  Older(a) # None => file' # None /\ file' <= Older(a)
    BY <1>6, OlderOf DEF Fresh, IInv, Typed, Tick
<1>7. Copied'
    <2>1. ASSUME NEW l \in Listener, NEW i \in 1 .. Len(wire'[l])
          PROVE  file' # None /\ file' <= wire'[l][i].age
        <3>1. /\ i \in 1 .. Len(wire[l])
              /\ wire[l][i].age = 0 /\ Fresh(wire[l][i].age)
              /\ wire'[l][i].age = 1
            BY <1>4 DEF IInv, Copied, Tick
        <3>2. Older(0) = 1 /\ 0 \in MaybeAge
            BY DEF Older, MaybeAge, Age
        <3> QED
            BY <1>6, <3>1, <3>2
    <2>2. /\ Fresh(latest.age)' /\ Fresh(rows)'
          /\ Fresh(reply.held.age)' /\ Fresh(shown)'
        <3>1. /\ latest.age \in MaybeAge /\ reply.held.age \in MaybeAge
              /\ rows \in MaybeAge /\ shown \in MaybeAge
              /\ Fresh(latest.age) /\ Fresh(reply.held.age)
              /\ Fresh(rows) /\ Fresh(shown)
            BY <1>2, HeldAge DEF IInv, Typed, Copied
        <3>2. /\ latest'.age = Older(latest.age)
              /\ reply'.held.age = Older(reply.held.age)
              /\ rows' = Older(rows) /\ shown' = Older(shown)
            BY <1>1, <1>2 DEF Tick
        <3> QED
            BY <1>6, <3>1, <3>2 DEF Fresh
    <2> QED
        BY <2>1, <2>2 DEF Copied, Fresh
<1>8. Shut'
    <2>1. ~open => wire'["page"] = <<>>
        BY <1>4 DEF IInv, Shut, Listener
    <2> QED
        BY <1>2, <2>1 DEF IInv, Shut, Tick
<1>9. Rendered'
    <2>1. pill' = pill /\ shown' = Older(shown) /\ due = {}
        BY DEF Tick
    <2>2. pill = "live" => shown # None /\ shown < LiveFor /\ "page" \in due'
        BY <2>1 DEF IInv, Rendered, Shut, Tick
    <2> QED
        <3> SUFFICES ASSUME pill = "live"
                     PROVE  shown' # None /\ shown' <= LiveFor
            BY <2>1, <2>2 DEF Rendered
        <3>1. shown \in Nat /\ shown # None /\ shown < LiveFor
            <4>1. shown \in 0 .. MaxAge \union {None} /\ shown # None
                BY <2>2 DEF IInv, Typed, MaybeAge, Age
            <4> QED
                BY <2>2, <4>1
        <3>2. shown # MaxAge /\ LiveFor \in Nat
            BY <3>1
        <3>3. shown' = shown + 1
            BY <2>1, <3>1, <3>2 DEF Older
        <3>4. shown' \in 0 .. MaxAge
            BY <3>1, <3>3
        <3> QED
            BY <3>1, <3>2, <3>3, <3>4
<1> QED
    BY <1>3, <1>5, <1>7, <1>8, <1>9 DEF IInv

\* A snapshot is taken from the row: what stays is in order as before.
LEMMA TailOf ==
    ASSUME NEW S, NEW q \in Seq(S), q # <<>>
    PROVE  /\ Head(q) = q[1] /\ 1 \in 1 .. Len(q)
           /\ Tail(q) \in Seq(S)
           /\ \A i \in 1 .. Len(Tail(q)) :
                 i + 1 \in 1 .. Len(q) /\ Tail(q)[i] = q[i + 1]
OBVIOUS

LEMMA AppendOf ==
    ASSUME NEW S, NEW q \in Seq(S), NEW e \in S
    PROVE  /\ Append(q, e) \in Seq(S)
           /\ Len(Append(q, e)) = Len(q) + 1
           /\ \A i \in 1 .. Len(Append(q, e)) :
                 \/ i \in 1 .. Len(q) /\ Append(q, e)[i] = q[i]
                 \/ i = Len(q) + 1 /\ Append(q, e)[i] = e
OBVIOUS

\* The Pi writes and publishes: nothing is newer than what it wrote.
LEMMA WriteStep ==
    ASSUME IInv, NEW reached \in SUBSET listening, WriteStatus(reached)
    PROVE  IInv'
<1> DEFINE snapshot == [age |-> 0, whole |-> pi = "current"]
<1> USE ThresholdAssumption
<1>1. /\ file' = 0 /\ "pi" \in due /\ due' = due \ {"pi"}
      /\ UNCHANGED <<pi, link, listening, server, latest, rows, open, shown,
                     source, badge, pill, reply>>
    BY DEF WriteStatus, serverVars, pageVars
<1>2. snapshot \in Snapshot /\ snapshot.age = 0
    BY DEF Snapshot, Age
<1>3. ASSUME NEW l \in Listener
      PROVE  \/ wire'[l] = wire[l]
             \/ l \in listening /\ wire'[l] = Append(wire[l], snapshot)
    BY DEF WriteStatus, PublishStatus
<1>4. ASSUME NEW l \in Listener
      PROVE  /\ wire'[l] \in Seq(Snapshot)
             /\ \A i \in 1 .. Len(wire'[l]) : wire'[l][i].age \in {0, 1}
             /\ \A i, j \in 1 .. Len(wire'[l]) :
                   i < j => wire'[l][i].age > wire'[l][j].age
    <2>1. /\ wire[l] \in Seq(Snapshot)
          /\ \A i \in 1 .. Len(wire[l]) : wire[l][i].age = 1
          /\ \A i, j \in 1 .. Len(wire[l]) :
                i < j => wire[l][i].age > wire[l][j].age
        BY <1>1 DEF IInv, Wired
    <2>2. CASE wire'[l] = wire[l]
        BY <2>1, <2>2
    <2>3. CASE wire'[l] = Append(wire[l], snapshot)
        <3>1. /\ wire'[l] \in Seq(Snapshot)
              /\ Len(wire'[l]) = Len(wire[l]) + 1 /\ Len(wire[l]) \in Nat
              /\ \A i \in 1 .. Len(wire'[l]) :
                    \/ i \in 1 .. Len(wire[l]) /\ wire'[l][i] = wire[l][i]
                    \/ i = Len(wire[l]) + 1 /\ wire'[l][i] = snapshot
            BY <1>2, <2>1, <2>3, AppendOf
        <3>2. \A i \in 1 .. Len(wire'[l]) : wire'[l][i].age \in {0, 1}
            BY <1>2, <2>1, <3>1
        <3>3. ASSUME NEW i \in 1 .. Len(wire'[l]), NEW j \in 1 .. Len(wire'[l]),
                     i < j
              PROVE  wire'[l][i].age > wire'[l][j].age
            <4>1. i \in 1 .. Len(wire[l]) /\ wire'[l][i] = wire[l][i]
                BY <3>1, <3>3
            <4>2. CASE j \in 1 .. Len(wire[l]) /\ wire'[l][j] = wire[l][j]
                BY <2>1, <3>3, <4>1, <4>2
            <4>3. CASE wire'[l][j] = snapshot
                BY <1>2, <2>1, <4>1, <4>3
            <4> QED
                BY <3>1, <4>2, <4>3
        <3> QED
            BY <3>1, <3>2, <3>3
    <2> QED
        BY <1>3, <2>2, <2>3
<1>5. Wired'
    <2>1. wire' \in [Listener -> Seq(Snapshot)]
        BY <1>4 DEF WriteStatus, PublishStatus
    <2> QED
        BY <1>1, <1>4, <2>1 DEF Wired
<1>6. Typed'
    <2>1. file' \in MaybeAge
        BY <1>1 DEF MaybeAge, Age
    <2> QED
        BY <1>1, <2>1 DEF IInv, Typed
<1>7. Copied'
    <2>1. ASSUME NEW a \in MaybeAge
          PROVE  a # None => 0 <= a
        BY DEF MaybeAge, Age
    <2>2. /\ latest.age \in MaybeAge /\ reply.held.age \in MaybeAge
          /\ rows \in MaybeAge /\ shown \in MaybeAge
        BY HeldAge DEF IInv, Typed
    <2>3. file' # None
        BY <1>1 DEF Age
    <2>4. ASSUME NEW l \in Listener, NEW i \in 1 .. Len(wire'[l])
          PROVE  file' <= wire'[l][i].age
        BY <1>1, <1>4
    <2> QED
        BY <1>1, <2>1, <2>2, <2>3, <2>4 DEF Copied, Fresh
<1>8. Shut'
    BY <1>1, <1>3 DEF IInv, Shut, Listener
<1>9. Rendered'
    BY <1>1 DEF IInv, Rendered
<1> QED
    BY <1>5, <1>6, <1>7, <1>8, <1>9 DEF IInv

\* What leaves the snapshots on their way alone but for the listeners it
\* cuts off.
LEMMA CutOff ==
    ASSUME IInv, due' \subseteq due,
           UNCHANGED file,
           wire' = wire \/ \E l \in Listener : wire' = [wire EXCEPT ![l] = <<>>]
    PROVE  /\ Wired'
           /\ \A l \in Listener : \A i \in 1 .. Len(wire'[l]) :
                 Fresh(wire'[l][i].age)
           /\ wire["page"] = <<>> => wire'["page"] = <<>>
<1>1. /\ wire \in [Listener -> Seq(Snapshot)]
      /\ \A l \in Listener : wire'[l] = wire[l] \/ wire'[l] = <<>>
      /\ <<>> \in Seq(Snapshot) /\ Len(<<>>) = 0
    BY DEF IInv, Wired
<1>2. ASSUME NEW l \in Listener, NEW i \in 1 .. Len(wire'[l])
      PROVE  wire'[l] = wire[l]
    BY <1>1, <1>2
<1>3. wire' \in [Listener -> Seq(Snapshot)]
    BY <1>1
<1> QED
    BY <1>1, <1>2, <1>3 DEF IInv, Wired, Copied, Listener

\* The processes and the connections.
LEMMA ProcessStep ==
    ASSUME IInv,
           \/ WriteFails \/ PiStops \/ PiStarts \/ LinkChanges
           \/ \E l \in Listener : Subscribe(l) \/ Disconnect(l)
           \/ ServerStops \/ RebuildFromS3 \/ RestoreLastKnownStatus
    PROVE  IInv'
<1> USE DEF piVars, wireVars, serverVars, pageVars
<1>1. /\ due' \subseteq due /\ UNCHANGED <<file, open, shown, source, badge, pill>>
      /\ "page" \in due => "page" \in due'
    BY DEF WriteFails, PiStops, PiStarts, LinkChanges, Subscribe, Disconnect,
           ServerStops, RebuildFromS3, RestoreLastKnownStatus
<1>2. wire' = wire \/ \E l \in Listener : wire' = [wire EXCEPT ![l] = <<>>]
    BY DEF WriteFails, PiStops, PiStarts, LinkChanges, Subscribe, Disconnect,
           ServerStops, RebuildFromS3, RestoreLastKnownStatus, Listener
<1>3. /\ Wired'
      /\ \A l \in Listener : \A i \in 1 .. Len(wire'[l]) : Fresh(wire'[l][i].age)
      /\ wire["page"] = <<>> => wire'["page"] = <<>>
    BY <1>1, <1>2, CutOff
<1>4. /\ pi' \in Pi /\ link' \in BOOLEAN /\ listening' \subseteq Listener
      /\ server' \in {"down", "restore", "up"}
    BY DEF IInv, Typed, Pi, WriteFails, PiStops, PiStarts, LinkChanges,
           Subscribe, Disconnect, ServerStops, RebuildFromS3,
           RestoreLastKnownStatus
<1>5. rows' \in {None, rows} /\ reply' \in {NoReply, reply}
    BY DEF WriteFails, PiStops, PiStarts, LinkChanges, Subscribe, Disconnect,
           ServerStops, RebuildFromS3, RestoreLastKnownStatus
<1>6. /\ Empty \in Held /\ Empty.age = None
      /\ NoReply \in [at : {"idle", "asked", "served"}, held : Held]
      /\ NoReply.held.age = None /\ NoReply.at = "idle"
    BY DEF Held, Empty, NoReply
<1>7. \/ latest' = latest \/ latest' = Empty
      \/ rows # None /\ latest' = [age |-> rows, source |-> "persisted"]
    BY DEF WriteFails, PiStops, PiStarts, LinkChanges, Subscribe, Disconnect,
           ServerStops, RebuildFromS3, RestoreLastKnownStatus
<1>8. latest' \in Held /\ Fresh(latest'.age)
    <2>1. CASE latest' = latest
        BY <2>1 DEF IInv, Typed, Copied
    <2>2. CASE latest' = Empty
        BY <1>6, <2>2 DEF Fresh
    <2>3. CASE rows # None /\ latest' = [age |-> rows, source |-> "persisted"]
        <3>1. rows \in Age /\ Fresh(rows)
            BY <2>3 DEF IInv, Typed, MaybeAge, Copied
        <3> QED
            BY <2>3, <3>1 DEF Held
    <2> QED
        BY <1>7, <2>1, <2>2, <2>3
<1>9. /\ rows' \in MaybeAge /\ Fresh(rows')
      /\ reply' \in [at : {"idle", "asked", "served"}, held : Held]
      /\ Fresh(reply'.held.age)
      /\ reply.at = "idle" => reply'.at = "idle"
    BY <1>5, <1>6 DEF IInv, Typed, Copied, Fresh, MaybeAge
<1>10. Typed'
    BY <1>1, <1>4, <1>8, <1>9 DEF IInv, Typed
<1>11. Copied'
    BY <1>1, <1>3, <1>8, <1>9 DEF IInv, Copied, Fresh
<1>12. Shut'
    <2>1. ~open => "page" \notin listening'
        BY DEF IInv, Shut, WriteFails, PiStops, PiStarts, LinkChanges, Subscribe,
               Disconnect, ServerStops, RebuildFromS3, RestoreLastKnownStatus,
               Listener
    <2> QED
        BY <1>1, <1>3, <1>9, <2>1 DEF IInv, Shut
<1>13. Rendered'
    BY <1>1 DEF IInv, Rendered
<1> QED
    BY <1>3, <1>10, <1>11, <1>12, <1>13 DEF IInv

\* A snapshot arrives: what is behind it stays in order.
LEMMA Arrives ==
    ASSUME IInv, NEW l \in Listener, wire[l] # <<>>,
           wire' = [wire EXCEPT ![l] = Tail(@)], UNCHANGED <<due, file>>
    PROVE  /\ Wired'
           /\ \A k \in Listener : \A i \in 1 .. Len(wire'[k]) :
                 Fresh(wire'[k][i].age)
           /\ Head(wire[l]) \in Snapshot
           /\ Fresh(Head(wire[l]).age)
           /\ \A k \in Listener \ {l} : wire'[k] = wire[k]
<1>1. /\ wire \in [Listener -> Seq(Snapshot)] /\ wire[l] \in Seq(Snapshot)
      /\ wire'[l] = Tail(wire[l])
      /\ \A k \in Listener \ {l} : wire'[k] = wire[k]
    BY DEF IInv, Wired
<1>2. /\ Head(wire[l]) = wire[l][1] /\ 1 \in 1 .. Len(wire[l])
      /\ wire'[l] \in Seq(Snapshot)
      /\ \A i \in 1 .. Len(wire'[l]) :
            i + 1 \in 1 .. Len(wire[l]) /\ wire'[l][i] = wire[l][i + 1]
    BY <1>1, TailOf
<1>3. wire' \in [Listener -> Seq(Snapshot)]
    BY <1>1, <1>2
<1>4. \A i \in 1 .. Len(wire'[l]) :
          /\ wire'[l][i].age \in {0, 1} /\ ("pi" \in due' => wire'[l][i].age = 1)
          /\ Fresh(wire'[l][i].age)
    BY <1>2 DEF IInv, Wired, Copied
<1>5. ASSUME NEW i \in 1 .. Len(wire'[l]), NEW j \in 1 .. Len(wire'[l]), i < j
      PROVE  wire'[l][i].age > wire'[l][j].age
    <2>1. i + 1 < j + 1
        BY <1>5
    <2> QED
        BY <1>2, <2>1 DEF IInv, Wired
<1>6. Wired'
    <2>1. ASSUME NEW k \in Listener, k # l
          PROVE  /\ \A i \in 1 .. Len(wire'[k]) :
                       /\ wire'[k][i].age \in {0, 1}
                       /\ "pi" \in due' => wire'[k][i].age = 1
                 /\ \A i, j \in 1 .. Len(wire'[k]) :
                       i < j => wire'[k][i].age > wire'[k][j].age
        BY <1>1, <2>1 DEF IInv, Wired
    <2> QED
        BY <1>3, <1>4, <1>5, <2>1 DEF Wired
<1>7. Head(wire[l]) \in Snapshot /\ Fresh(Head(wire[l]).age)
    BY <1>1, <1>2 DEF IInv, Copied
<1>8. ASSUME NEW k \in Listener, NEW i \in 1 .. Len(wire'[k])
      PROVE  Fresh(wire'[k][i].age)
    <2>1. CASE k = l
        BY <1>4, <2>1
    <2>2. CASE k # l
        BY <1>1, <2>2 DEF IInv, Copied
    <2> QED
        BY <2>1, <2>2
<1> QED
    BY <1>1, <1>6, <1>7, <1>8

\* The server takes a snapshot from the broker.
LEMMA ServerStep ==
    ASSUME IInv, OnStatusPayload
    PROVE  IInv'
<1> DEFINE snapshot == Head(wire["server"])
<1> USE DEF piVars, serverVars, pageVars
<1>1. /\ wire["server"] # <<>>
      /\ wire' = [wire EXCEPT !["server"] = Tail(@)]
      /\ UNCHANGED <<due, listening, pi, file, link, server, open, shown,
                     source, badge, pill, reply>>
    BY DEF OnStatusPayload
<1>2. /\ Wired'
      /\ \A k \in Listener : \A i \in 1 .. Len(wire'[k]) : Fresh(wire'[k][i].age)
      /\ snapshot \in Snapshot /\ Fresh(snapshot.age)
      /\ wire'["page"] = wire["page"]
    BY <1>1, Arrives DEF Listener
<1>3. snapshot.age \in Age
    BY <1>2 DEF Snapshot
<1>4. /\ latest' = latest \/ latest' = [age |-> snapshot.age, source |-> "live"]
      /\ rows' = rows \/ rows' = snapshot.age
    BY DEF OnStatusPayload
<1>5. latest' \in Held /\ Fresh(latest'.age)
    <2>1. CASE latest' = latest
        BY <2>1 DEF IInv, Typed, Copied
    <2>2. CASE latest' = [age |-> snapshot.age, source |-> "live"]
        BY <1>2, <1>3, <2>2 DEF Held
    <2> QED
        BY <1>4, <2>1, <2>2
<1>6. rows' \in MaybeAge /\ Fresh(rows')
    BY <1>2, <1>3, <1>4 DEF IInv, Typed, Copied, MaybeAge
<1>7. Typed'
    BY <1>1, <1>5, <1>6 DEF IInv, Typed
<1>8. Copied'
    BY <1>1, <1>2, <1>5, <1>6 DEF IInv, Copied, Fresh
<1>9. Shut' /\ Rendered'
    BY <1>1, <1>2 DEF IInv, Shut, Rendered
<1> QED
    BY <1>2, <1>7, <1>8, <1>9 DEF IInv

\* What becomes of the pill when the page is given an age.
LEMMA Accepts ==
    ASSUME IInv, NEW a \in Age, Fresh(a), MaybeAcceptSnapshot(a), UNCHANGED due
    PROVE  /\ shown' \in MaybeAge /\ Fresh(shown')
           /\ pill' \in {"live", "unknown", "offline"}
           /\ pill' = "live" =>
                 /\ shown' # None
                 /\ shown' < LiveFor \/ ("page" \in due' /\ shown' <= LiveFor)
           /\ shown' # None /\ (shown # None => shown' <= shown)
<1>0. a # None /\ a \in MaybeAge /\ a \in Nat
    BY ThresholdAssumption DEF Age, MaybeAge
<1>1. CASE shown' = a /\ pill' = State(shown') /\ (shown = None \/ a < shown)
    <2>1. shown # None => shown \in Nat
        BY AgeIs DEF IInv, Typed
    <2> QED
        BY <1>0, <1>1, <2>1, StateOf
<1>2. CASE UNCHANGED <<shown, pill>> /\ shown # None
    <2>1. shown \in Nat
        BY <1>2, AgeIs DEF IInv, Typed
    <2>2. /\ shown \in MaybeAge /\ Fresh(shown)
          /\ pill \in {"live", "unknown", "offline"}
        BY DEF IInv, Typed, Copied
    <2>3. Rendered /\ (Fresh(shown'))
        BY <1>2, <2>2 DEF IInv
    <2> QED
        BY <1>2, <2>1, <2>2, <2>3 DEF Rendered
<1> QED
    BY <1>1, <1>2 DEF MaybeAcceptSnapshot

\* The page is loaded, asks, receives and renders.
LEMMA PageStep ==
    ASSUME IInv,
           \/ OpenPage \/ ApiSignStatus \/ FetchFails \/ HydrateFromServer
           \/ OnEnvelope \/ Rerender
    PROVE  IInv'
<1> USE DEF piVars, wireVars, serverVars, pageVars
<1>1. /\ Empty \in Held /\ Empty.age = None
      /\ NoReply \in [at : {"idle", "asked", "served"}, held : Held]
      /\ NoReply.held.age = None /\ NoReply.at = "idle" /\ Fresh(None)
    BY DEF Held, Empty, NoReply, Fresh
<1>2. CASE OpenPage
    <2>1. State(None) = "offline"
        BY DEF State
    <2>2. /\ UNCHANGED <<due, pi, file, link, server, latest, rows>>
          /\ open' = TRUE /\ shown' = None /\ source' = "" /\ badge' = FALSE
          /\ pill' = "offline" /\ listening' \subseteq listening
          /\ wire' = [wire EXCEPT !["page"] = <<>>]
          /\ reply' = [NoReply EXCEPT !.at = "asked"]
        BY <1>2, <2>1 DEF OpenPage
    <2>3. /\ Wired'
          /\ \A l \in Listener : \A i \in 1 .. Len(wire'[l]) :
                Fresh(wire'[l][i].age)
        BY <2>2, CutOff DEF Listener
    <2>4. /\ reply' \in [at : {"idle", "asked", "served"}, held : Held]
          /\ reply'.held.age = None
        BY <1>1, <2>2
    <2>5. Typed'
        BY <2>2, <2>4 DEF IInv, Typed, MaybeAge
    <2>6. Copied'
        BY <2>2, <2>3, <2>4 DEF IInv, Copied, Fresh
    <2> QED
        BY <2>2, <2>3, <2>5, <2>6 DEF IInv, Shut, Rendered
<1>3. CASE ApiSignStatus \/ FetchFails
    <2>1. /\ UNCHANGED <<due, pi, file, link, listening, wire, server, latest,
                         rows, open, shown, source, badge, pill>>
          /\ \/ reply' = [at |-> "served", held |-> latest] /\ reply.at = "asked"
             \/ reply' = NoReply
        BY <1>3 DEF ApiSignStatus, FetchFails
    <2>2. /\ reply' \in [at : {"idle", "asked", "served"}, held : Held]
          /\ Fresh(reply'.held.age)
          /\ reply.at = "idle" => reply'.at = "idle"
        <3>1. latest \in Held /\ Fresh(latest.age)
            BY DEF IInv, Typed, Copied
        <3>2. CASE reply' = [at |-> "served", held |-> latest] /\ reply.at = "asked"
            BY <3>1, <3>2
        <3>3. CASE reply' = NoReply
            BY <1>1, <3>3
        <3> QED
            BY <2>1, <3>2, <3>3
    <2>3. Typed' /\ Wired'
        BY <2>1, <2>2 DEF IInv, Typed, Wired
    <2>4. Copied'
        BY <2>1, <2>2 DEF IInv, Copied, Fresh
    <2> QED
        BY <2>1, <2>2, <2>3, <2>4 DEF IInv, Shut, Rendered
<1>4. CASE HydrateFromServer
    <2>1. /\ UNCHANGED <<due, pi, file, link, listening, wire, server, latest,
                         rows, open>>
          /\ reply.at = "served" /\ reply' = NoReply
          /\ source' = reply.held.source
          /\ badge' \in BOOLEAN
        BY <1>4 DEF HydrateFromServer
    <2>2. reply.held \in Held /\ Fresh(reply.held.age) /\ open
        BY <2>1 DEF IInv, Typed, Copied, Shut
    <2>3. source' \in {"", "live", "persisted"}
        <3>1. CASE reply.held = Empty
            <4>1. Empty.source = ""
                BY DEF Empty
            <4> QED
                BY <2>1, <3>1, <4>1
        <3>2. CASE reply.held \in [age : Age, source : {"live", "persisted"}]
            BY <2>1, <3>2
        <3> QED
            BY <2>2, <3>1, <3>2 DEF Held
    <2>4. /\ shown' \in MaybeAge /\ Fresh(shown')
          /\ pill' \in {"live", "unknown", "offline"}
          /\ pill' = "live" =>
                /\ shown' # None
                /\ shown' < LiveFor \/ ("page" \in due' /\ shown' <= LiveFor)
        <3>1. CASE reply.held.age = None
            BY <1>4, <2>1, <3>1 DEF HydrateFromServer, IInv, Typed, Copied, Rendered
        <3>2. CASE reply.held.age # None
            <4>1. reply.held.age \in Age
                BY <2>2, <3>2, HeldAge DEF MaybeAge
            <4> QED
                BY <1>4, <2>1, <2>2, <3>2, <4>1, Accepts DEF HydrateFromServer
        <3> QED
            BY <3>1, <3>2
    <2>5. Typed' /\ Wired'
        BY <1>1, <2>1, <2>3, <2>4 DEF IInv, Typed, Wired
    <2>6. Copied'
        BY <1>1, <2>1, <2>4 DEF IInv, Copied, Fresh
    <2>7. Shut' /\ Rendered'
        BY <2>1, <2>2, <2>4 DEF Shut, Rendered
    <2> QED
        BY <2>5, <2>6, <2>7 DEF IInv
<1>5. CASE OnEnvelope
    <2> DEFINE snapshot == Head(wire["page"])
    <2>1. /\ UNCHANGED <<due, pi, file, link, listening, server, latest, rows,
                         open, reply>>
          /\ wire["page"] # <<>>
          /\ wire' = [wire EXCEPT !["page"] = Tail(@)]
        BY <1>5 DEF OnEnvelope
    <2>2. /\ Wired'
          /\ \A k \in Listener : \A i \in 1 .. Len(wire'[k]) :
                Fresh(wire'[k][i].age)
          /\ snapshot \in Snapshot /\ Fresh(snapshot.age)
        BY <2>1, Arrives DEF Listener
    <2>3. snapshot.age \in Age /\ open
        BY <2>1, <2>2 DEF Snapshot, IInv, Shut
    <2>4. /\ shown' \in MaybeAge /\ Fresh(shown')
          /\ pill' \in {"live", "unknown", "offline"}
          /\ pill' = "live" =>
                /\ shown' # None
                /\ shown' < LiveFor \/ ("page" \in due' /\ shown' <= LiveFor)
        <3>1. CASE snapshot.whole
            BY <1>5, <2>1, <2>2, <2>3, <3>1, Accepts DEF OnEnvelope
        <3>2. CASE ~snapshot.whole
            BY <1>5, <2>1, <3>2 DEF OnEnvelope, IInv, Typed, Copied, Rendered
        <3> QED
            BY <3>1, <3>2
    <2>5. source' \in {"", "live", "persisted"} /\ badge' \in BOOLEAN
        BY <1>5 DEF OnEnvelope, LiveSource, IInv, Typed
    <2>6. Typed'
        BY <2>1, <2>4, <2>5 DEF IInv, Typed
    <2>7. Copied'
        BY <2>1, <2>2, <2>4 DEF IInv, Copied, Fresh
    <2>8. Shut' /\ Rendered'
        BY <2>1, <2>3, <2>4 DEF Shut, Rendered
    <2> QED
        BY <2>2, <2>6, <2>7, <2>8 DEF IInv
<1>6. CASE Rerender
    <2>1. /\ UNCHANGED <<pi, file, link, listening, wire, server, latest, rows,
                         open, shown, source, badge, reply>>
          /\ due' = due \ {"page"} /\ pill' = State(shown)
        BY <1>6 DEF Rerender
    <2>2. /\ pill' \in {"live", "unknown", "offline"}
          /\ pill' = "live" => shown # None /\ shown < LiveFor
        BY <2>1, StateOf DEF IInv, Typed
    <2>3. Typed' /\ Wired'
        BY <2>1, <2>2 DEF IInv, Typed, Wired
    <2>4. Copied'
        BY <2>1 DEF IInv, Copied, Fresh
    <2>5. Rendered'
        BY <2>1, <2>2 DEF Rendered
    <2>6. Shut'
        <3>1. "page" \in due
            BY <1>6 DEF Rerender
        <3> QED
            BY <2>1, <2>2, <3>1 DEF IInv, Shut
    <2> QED
        BY <2>3, <2>4, <2>5, <2>6 DEF IInv
<1> QED
    BY <1>2, <1>3, <1>4, <1>5, <1>6

----------------------------------------------------------------------------
\* The invariant of the copies of a snapshot is inductive.
THEOREM Inductive == Spec => []IInv
<1>1. IInv /\ [Next]_vars => IInv'
    <2> SUFFICES ASSUME IInv, [Next]_vars
                 PROVE  IInv'
        OBVIOUS
    <2>1. CASE Next
        BY <2>1, TickStep, WriteStep, ProcessStep, ServerStep, PageStep DEF Next
    <2>2. CASE UNCHANGED vars
        <3>1. /\ UNCHANGED <<due, pi, file, link, listening, wire, server>>
              /\ UNCHANGED <<latest, rows, open, shown, source, badge, pill, reply>>
            BY <2>2 DEF vars, piVars, wireVars, serverVars, pageVars
        <3>2. Typed'
            BY <3>1 DEF IInv, Typed
        <3>3. Wired'
            BY <3>1 DEF IInv, Wired
        <3>4. Copied'
            BY <3>1 DEF IInv, Copied, Fresh
        <3> QED
            BY <3>1, <3>2, <3>3, <3>4 DEF IInv, Shut, Rendered
    <2> QED
        BY <2>1, <2>2
<1> QED
    BY InitInvariant, <1>1, PTL DEF Spec

\* Every variable stays within its type, and no listener ever has more than
\* two snapshots on their way to it.
THEOREM TypeCorrect == Spec => []TypeOK
BY Inductive, TypesFollow, PTL

\* A pill that says Live is backed by a recent status file
\* (sign_status.js:61-130, 590-605; status.py:163-190).
THEOREM PillStaysHonest == Spec => []PillIsHonest
<1>1. IInv => PillIsHonest
    <2> SUFFICES ASSUME IInv, pill = "live"
                 PROVE  file # None /\ file <= LiveFor
        BY DEF PillIsHonest
    <2>1. shown \in Nat /\ file \in Nat /\ file <= shown /\ file # None
        <3>1. shown # None /\ file # None /\ file <= shown
            BY DEF IInv, Rendered, Copied, Fresh
        <3> QED
            BY <3>1, AgeIs DEF IInv, Typed
    <2>2. shown <= LiveFor /\ LiveFor \in Nat
        BY <2>1, ThresholdAssumption DEF IInv, Rendered
    <2> QED
        BY <2>1, <2>2
<1> QED
    BY <1>1, Inductive, PTL

\* The page never goes back to an older snapshot (sign_status.js:528-551).
THEOREM PageNeverGoesBack == Spec => PageMovesForward
<1> DEFINE Forward ==
        \/ Tick
        \/ OpenPage
        \/ shown = None
        \/ shown' # None /\ shown' <= shown
<1>1. IInv /\ [Next]_vars => [Forward]_vars
    <2> SUFFICES ASSUME IInv, Next, shown # None
                 PROVE  Tick \/ OpenPage \/ (shown' # None /\ shown' <= shown)
        OBVIOUS
    <2>1. shown \in Nat
        BY AgeIs DEF IInv, Typed
    <2>2. CASE HydrateFromServer
        <3>1. CASE reply.held.age = None
            BY <2>1, <2>2, <3>1 DEF HydrateFromServer
        <3>2. CASE reply.held.age # None
            <4>1. reply.held.age \in Age /\ Fresh(reply.held.age)
                BY <3>2, HeldAge DEF IInv, Typed, Copied, MaybeAge
            <4> QED
                BY <2>2, <3>2, <4>1, Accepts DEF HydrateFromServer
        <3> QED
            BY <3>1, <3>2
    <2>3. CASE OnEnvelope
        <3>1. /\ Head(wire["page"]) \in Snapshot
              /\ Fresh(Head(wire["page"]).age)
            BY <2>3, Arrives DEF OnEnvelope, Listener, piVars
        <3>2. Head(wire["page"]).age \in Age
            BY <3>1 DEF Snapshot
        <3> QED
            BY <2>1, <2>3, <3>1, <3>2, Accepts DEF OnEnvelope
    <2>4. CASE /\ ~Tick /\ ~OpenPage /\ ~HydrateFromServer /\ ~OnEnvelope
        <3>1. shown' = shown
            BY <2>4 DEF Next, WriteStatus, WriteFails, PiStops, PiStarts,
                        LinkChanges, Subscribe, Disconnect, OnStatusPayload,
                        ServerStops, RebuildFromS3, RestoreLastKnownStatus,
                        ApiSignStatus, FetchFails, Rerender, pageVars
        <3> QED
            BY <2>1, <3>1
    <2> QED
        BY <2>2, <2>3, <2>4
<1> QED
    BY Inductive, <1>1, PTL DEF Spec, PageMovesForward

============================================================================
