----------------------- MODULE MessageManagerProofs -----------------------
(***************************************************************************)
(* Theorems about MessageManager, for every set of messages, senders and   *)
(* configurations and every length of the buffer and the queue.            *)
(***************************************************************************)
EXTENDS MessageManager, FiniteSetTheorems, SequenceTheorems,
        TLAPS

----------------------------------------------------------------------------
\* Lemmas about the operators of the model.

\* The verdict on a message is a truth value.
LEMMA SuppressedIsBoolean ==
    ASSUME NEW c, NEW m
    PROVE  Suppressed(c, m) \in BOOLEAN
BY DEF Suppressed

\* Enriching a view sets its verdict and keeps its id.
LEMMA EnrichedView ==
    ASSUME NEW v \in View, NEW c
    PROVE  LET e == [v EXCEPT !.suppressed = Suppressed(c, v.id)] IN
           /\ e \in View
           /\ e.id = v.id /\ v.id \in Message
           /\ e.suppressed = Suppressed(c, v.id)
BY SuppressedIsBoolean DEF View

\* Push keeps a bounded sequence bounded, puts x last and drops at most the
\* first entry.
LEMMA PushKeeps ==
    ASSUME NEW S, NEW q \in Seq(S), NEW x \in S, NEW n \in Nat \ {0},
           Len(q) <= n
    PROVE  /\ Push(q, x, n) \in Seq(S)
           /\ Len(Push(q, x, n)) \in 1 .. n
           /\ Push(q, x, n)[Len(Push(q, x, n))] = x
           /\ \E d \in {0, 1} :
                 /\ d <= Len(q)
                 /\ Len(Push(q, x, n)) = Len(q) + 1 - d
                 /\ \A i \in 1 .. Len(q) - d : Push(q, x, n)[i] = q[i + d]
<1>1. CASE Len(q) < n
    <2>1. Push(q, x, n) = Append(q, x)
        BY <1>1 DEF Push
    <2>2. \A i \in 1 .. Len(q) - 0 : Append(q, x)[i] = q[i + 0]
        OBVIOUS
    <2> QED
        BY <1>1, <2>1, <2>2
<1>2. CASE ~(Len(q) < n)
    <2>1. Push(q, x, n) = Append(Tail(q), x)
        BY <1>2 DEF Push
    <2>2. Len(q) >= 1 /\ Len(q) = n
        BY <1>2
    <2>3. /\ Tail(q) \in Seq(S)
          /\ Len(Tail(q)) = Len(q) - 1
          /\ \A i \in 1 .. Len(q) - 1 : Tail(q)[i] = q[i + 1]
        BY <2>2
    <2>4. \A i \in 1 .. Len(q) - 1 : Append(Tail(q), x)[i] = q[i + 1]
        BY <2>3
    <2>5. /\ Append(Tail(q), x) \in Seq(S)
          /\ Len(Append(Tail(q), x)) = Len(q)
          /\ Append(Tail(q), x)[Len(q)] = x
        BY <2>2, <2>3
    <2> QED
        BY <2>1, <2>2, <2>4, <2>5
<1> QED
    BY <1>1, <1>2

\* An interval from 1 determines its end.
LEMMA SameInterval ==
    ASSUME NEW a \in Nat, NEW b \in Nat, 1 .. a = 1 .. b
    PROVE  a = b
<1>1. a > 0 => a \in 1 .. b
    OBVIOUS
<1>2. b > 0 => b \in 1 .. a
    OBVIOUS
<1> QED
    BY <1>1, <1>2

\* A function on 1 .. n is a sequence of length n.
LEMMA FunctionIsSeq ==
    ASSUME NEW S, NEW n \in Nat, NEW f \in [1 .. n -> S]
    PROVE  f \in Seq(S) /\ Len(f) = n
<1>1. f \in Seq(S)
    BY SeqDef
<1>2. Len(f) \in Nat /\ 1 .. Len(f) = 1 .. n
    BY <1>1, LenProperties
<1> QED
    BY <1>1, <1>2, SameInterval, Zenon

\* A page of a finite store, once coerced, fits the buffer, names each kept
\* message once and leaves none of them out.
LEMMA CoercedRowsFit ==
    ASSUME IsFiniteSet(store), store \subseteq Message,
           NEW page \in SUBSET store, IsPage(page, store),
           NEW r \in CoercedRows(page)
    PROVE  /\ r \in Seq(Message)
           /\ Len(r) <= BufferLen
           /\ \A i, j \in 1 .. Len(r) : r[i] = r[j] => i = j
           /\ \A m \in page \ Malformed : \E i \in 1 .. Len(r) : r[i] = m
<1> DEFINE kept == page \ Malformed
<1>1. IsFiniteSet(page) /\ IsFiniteSet(kept) /\ Cardinality(kept) <= Cardinality(page)
    BY FS_Subset
<1>2. Cardinality(page) \in Nat /\ Cardinality(kept) \in Nat
      /\ Cardinality(store) \in Nat
    BY <1>1, FS_CardinalityType
<1>3. Cardinality(kept) <= BufferLen
    BY <1>1, <1>2, BoundAssumption DEF IsPage
<1>4. /\ r \in [1 .. Cardinality(kept) -> kept]
      /\ \A m \in kept : \E i \in DOMAIN r : r[i] = m
      /\ \A i, j \in DOMAIN r : i < j => r[i] # r[j]
    BY DEF CoercedRows
<1>5. r \in Seq(Message) /\ Len(r) = Cardinality(kept)
    <2>1. r \in [1 .. Cardinality(kept) -> Message]
        BY <1>4
    <2> QED
        BY <1>2, <2>1, FunctionIsSeq
<1>6. DOMAIN r = 1 .. Len(r) /\ Len(r) \in Nat
    BY <1>5, LenProperties
<1>7. \A i, j \in 1 .. Len(r) : i < j => r[i] # r[j]
    BY <1>4, <1>6
<1>8. \A i, j \in 1 .. Len(r) : r[i] = r[j] => i = j
    BY <1>6, <1>7
<1>9. \A m \in kept : \E i \in 1 .. Len(r) : r[i] = m
    BY <1>4, <1>6, Zenon
<1> QED
    BY <1>3, <1>5, <1>8, <1>9

\* The three kinds of envelopes are envelopes.
LEMMA EnvelopeTypes ==
    /\ \A m \in Message : MessageEnvelope(m) \in Envelope
    /\ \A c \in Config : ConfigEnvelope(c) \in Envelope
    /\ \A a \in Action : CommandEnvelope(a) \in Envelope
BY DEF Envelope

\* An envelope that arrives is taken off a non-empty subscription.
LEMMA ArrivalTail ==
    ASSUME NEW e, Arrives(e), wire \in Seq(Envelope)
    PROVE  Tail(wire) \in Seq(Envelope)
BY DEF Arrives

\* The last step of the seed puts every view right under cfg.
LEMMA EndSeedConfigEnriches ==
    ASSUME NEW c, EndSeedConfig(c), msgs \in Seq(View)
    PROVE  /\ msgs' \in Seq(View) /\ Len(msgs') = Len(msgs)
           /\ \A i \in 1 .. Len(msgs) :
                 /\ msgs'[i].id = msgs[i].id
                 /\ msgs'[i].suppressed = Suppressed(c, msgs[i].id)
<1>1. /\ msgs' = [i \in 1 .. Len(msgs) |->
              [msgs[i] EXCEPT !.suppressed = Suppressed(c, msgs[i].id)]]
      /\ Len(msgs) \in Nat
    BY DEF EndSeedConfig
<1>2. \A i \in 1 .. Len(msgs) :
         /\ msgs'[i] \in View
         /\ msgs'[i].id = msgs[i].id
         /\ msgs'[i].suppressed = Suppressed(c, msgs[i].id)
    BY <1>1, EnrichedView, ElementOfSeq
<1>3. msgs' \in [1 .. Len(msgs) -> View]
    BY <1>1, <1>2
<1> QED
    BY <1>1, <1>2, <1>3, FunctionIsSeq

\* One step of the loop puts the view at the cursor right and leaves the
\* others alone.
LEMMA EnrichOneEnriches ==
    ASSUME EnrichOne, msgs \in Seq(View), cursor \in Nat \ {0}
    PROVE  /\ msgs' \in Seq(View) /\ Len(msgs') = Len(msgs)
           /\ \A i \in 1 .. Len(msgs) :
                 /\ msgs'[i].id = msgs[i].id
                 /\ msgs'[i].suppressed = IF i = cursor
                                          THEN Suppressed(config, msgs[i].id)
                                          ELSE msgs[i].suppressed
<1> DEFINE e == [msgs[cursor] EXCEPT !.suppressed =
                     Suppressed(config, msgs[cursor].id)]
<1>1. cursor \in 1 .. Len(msgs) /\ msgs' = [msgs EXCEPT ![cursor] = e]
    BY DEF EnrichOne
<1>2. /\ e \in View /\ e.id = msgs[cursor].id
      /\ e.suppressed = Suppressed(config, msgs[cursor].id)
    BY <1>1, EnrichedView, ElementOfSeq
<1>3. /\ msgs' \in Seq(View) /\ Len(msgs') = Len(msgs)
      /\ \A i \in 1 .. Len(msgs) : msgs'[i] = IF i = cursor THEN e ELSE msgs[i]
    BY <1>1, <1>2, ExceptSeq
<1> QED
    BY <1>2, <1>3

\* A dispatched message becomes the last view; at most the first view left.
LEMMA DispatchAppends ==
    ASSUME NEW m \in Message, DispatchMessage(m),
           msgs \in Seq(View), Len(msgs) <= BufferLen
    PROVE  /\ msgs' \in Seq(View) /\ Len(msgs') \in 1 .. BufferLen
           /\ \E d \in {0, 1} :
                 /\ d <= Len(msgs)
                 /\ Len(msgs') = Len(msgs) + 1 - d
                 /\ msgs'[Len(msgs')].id = m
                 /\ \A i \in 1 .. Len(msgs) - d : msgs'[i] = msgs[i + d]
<1> DEFINE v == [id |-> m, suppressed |-> FALSE]
<1>1. v \in View /\ v.id = m
    BY DEF View
<1>2. msgs' = Push(msgs, v, BufferLen)
    BY DEF DispatchMessage
<1> HIDE DEF v
<1> QED
    BY <1>1, <1>2, PushKeeps, BoundAssumption

----------------------------------------------------------------------------
\* Type correctness.  A handler under way has a position to enrich, and one of
\* a message has that message in the buffer; the store is finite.

Handling ==
    /\ dispatchPc # "idle" => cursor >= 1
    /\ dispatchPc = "message" => Len(msgs) >= 1

Typing == TypeOK /\ IsFiniteSet(store) /\ Handling

\* The empty sequence is typed and within every length.
LEMMA EmptyFits ==
    /\ \A S : <<>> \in Seq(S)
    /\ Len(<<>>) = 0 /\ Len(<<>>) <= BufferLen /\ Len(<<>>) <= QueueLen
BY BoundAssumption

\* A new process is typed.
LEMMA TypingInit == Init => Typing
<1> SUFFICES ASSUME Init
             PROVE  Typing
    OBVIOUS
<1>1. TypeOK
    BY ConfigAssumption, BoundAssumption, EmptyFits DEF Init, TypeOK
<1>2. IsFiniteSet(store)
    BY FS_EmptySet DEF Init
<1> QED
    BY <1>1, <1>2 DEF Init, Typing, Handling

\* No step of the server breaks the types.
LEMMA TypingServer ==
    ASSUME Typing, Server
    PROVE  Typing'
<1> USE DEF Typing, TypeOK, Handling, serverVars, brokerVars, seedVars,
            configVars, bufferVars, dispatchVars, missVars
<1>1. ASSUME NEW m \in Message, ServerReceive(m)
      PROVE  Typing'
    <2>1. IsFiniteSet(store')
        BY <1>1, FS_AddElement DEF ServerReceive
    <2> QED
        BY <1>1, <2>1, EnvelopeTypes DEF ServerReceive
<1>2. ASSUME NEW c \in Config, ServerSaveConfig(c)
      PROVE  Typing'
    BY <1>2, EnvelopeTypes DEF ServerSaveConfig
<1>3. ASSUME NEW a \in Action, ServerCommand(a)
      PROVE  Typing'
    BY <1>3, EnvelopeTypes DEF ServerCommand
<1>4. ASSUME NEW e \in Envelope, Publish(e)
      PROVE  Typing'
    BY <1>4 DEF Publish
<1>5. ASSUME NEW e \in Envelope, PublishLost(e)
      PROVE  Typing'
    BY <1>5 DEF PublishLost, Lose
<1> QED
    BY <1>1, <1>2, <1>3, <1>4, <1>5 DEF Server

\* No step of the broker breaks the types.
LEMMA TypingSubscription ==
    ASSUME Typing, Subscription
    PROVE  Typing'
<1> USE DEF Typing, TypeOK, Handling, serverVars, brokerVars, seedVars,
            configVars, bufferVars, dispatchVars, missVars
<1>1. CASE LinkUp
    BY <1>1 DEF LinkUp
<1>2. CASE LinkDown
    BY <1>2 DEF LinkDown, Lose
<1>3. CASE Redeliver
    BY <1>3 DEF Redeliver
<1> QED
    BY <1>1, <1>2, <1>3 DEF Subscription

\* No step of the seed breaks the types.
LEMMA TypingSeed ==
    ASSUME Typing, Seed
    PROVE  Typing'
<1> USE DEF Typing, TypeOK, Handling, serverVars, brokerVars, seedVars,
            configVars, bufferVars, dispatchVars, missVars
<1>1. CASE SeedFetchMessages
    <2> PICK page \in SUBSET store :
               /\ IsPage(page, store)
               /\ rows' \in CoercedRows(page)
               /\ missed' = store \ (page \union seenIds)
        BY <1>1 DEF SeedFetchMessages
    <2>1. rows' \in Seq(Message) /\ Len(rows') <= BufferLen
        BY CoercedRowsFit
    <2> QED
        BY <1>1, <2>1 DEF SeedFetchMessages
<1>2. CASE SeedApplyMessages
    <2>1. /\ msgs' \in Seq(View) /\ Len(msgs') = Len(rows)
          /\ seenIds' \subseteq Message
        BY <1>2 DEF SeedApplyMessages, View
    <2> QED
        BY <1>2, <2>1, EmptyFits DEF SeedApplyMessages
<1>3. CASE SeedMessagesFail
    BY <1>3, EmptyFits DEF SeedMessagesFail
<1>4. CASE SeedFetchConfig
    BY <1>4 DEF SeedFetchConfig
<1>5. ASSUME NEW c, EndSeedConfig(c)
      PROVE  /\ msgs' \in Seq(View) /\ Len(msgs') = Len(msgs)
             /\ fetchedConfig' \in Config
             /\ seedPc' = "done"
    BY <1>5, EndSeedConfigEnriches, ConfigAssumption DEF EndSeedConfig
<1>6. CASE SeedApplyConfig
    BY <1>6, <1>5 DEF SeedApplyConfig
<1>7. CASE SeedConfigFail
    BY <1>7, <1>5 DEF SeedConfigFail
<1> QED
    BY <1>1, <1>2, <1>3, <1>4, <1>6, <1>7 DEF Seed

\* A restart sets every variable of the process anew.
LEMMA TypingRestart ==
    ASSUME Typing, Restart
    PROVE  Typing'
<1>1. TypeOK'
    BY ConfigAssumption, EmptyFits DEF Restart, Typing, TypeOK, serverVars
<1>2. IsFiniteSet(store')
    BY DEF Restart, Typing, serverVars
<1> QED
    BY <1>1, <1>2 DEF Restart, Typing, Handling

\* No step of a handler breaks the types.
LEMMA TypingDispatch ==
    ASSUME Typing, Dispatch
    PROVE  Typing'
<1> USE DEF Typing, TypeOK, Handling, serverVars, brokerVars, seedVars,
            configVars, bufferVars, dispatchVars, missVars
<1>1. ASSUME NEW m \in Message, DispatchMessage(m)
      PROVE  Typing'
    <2>1. msgs' \in Seq(View) /\ Len(msgs') \in 1 .. BufferLen
        BY <1>1, DispatchAppends
    <2> QED
        BY <1>1, <2>1, BoundAssumption, ArrivalTail DEF DispatchMessage
<1>2. ASSUME NEW m \in Message, DispatchDropped(m)
      PROVE  Typing'
    BY <1>2, ArrivalTail DEF DispatchDropped
<1>3. ASSUME NEW c \in Config, DispatchConfig(c)
      PROVE  Typing'
    BY <1>3, ArrivalTail DEF DispatchConfig, Arrives
<1>4. CASE EnrichOne
    BY <1>4, EnrichOneEnriches DEF EnrichOne
<1>5. CASE DispatchEnd
    <2>1. newQueue' \in Seq(Message) /\ Len(newQueue') <= QueueLen
        <3>1. CASE dispatchPc = "message"
            <4>1. Len(msgs) \in 1 .. Len(msgs)
                BY <3>1
            <4>2. msgs[Len(msgs)].id \in Message
                BY <4>1, EnrichedView, ElementOfSeq
            <4> QED
                BY <1>5, <3>1, <4>2, PushKeeps, BoundAssumption
                   DEF DispatchEnd
        <3>2. CASE dispatchPc # "message"
            BY <1>5, <3>2 DEF DispatchEnd
        <3> QED
            BY <3>1, <3>2
    <2> QED
        BY <1>5, <2>1 DEF DispatchEnd
<1>6. ASSUME NEW a \in Action, DispatchCommand(a)
      PROVE  Typing'
    BY <1>6, ArrivalTail DEF DispatchCommand
<1>7. ASSUME NEW a \in Action, DispatchRestart(a)
      PROVE  Typing'
    BY <1>7, TypingRestart DEF DispatchRestart
<1> QED
    BY <1>1, <1>2, <1>3, <1>4, <1>5, <1>6, <1>7 DEF Dispatch

\* Typing is inductive.
LEMMA TypingStep ==
    ASSUME Typing, [Next]_vars
    PROVE  Typing'
<1>1. CASE Next
    BY <1>1, TypingServer, TypingSubscription, TypingSeed, TypingDispatch,
       TypingRestart DEF Next
<1>2. CASE UNCHANGED vars
    BY <1>2 DEF vars, Typing, TypeOK, Handling, serverVars, brokerVars,
                seedVars, configVars, bufferVars, dispatchVars, missVars
<1> QED
    BY <1>1, <1>2

\* Every reachable state has its types, and no buffer, queue or page exceeds
\* its length, whatever the server, the broker, the seed and the dispatcher do
\* (message_manager.py:189-214).
THEOREM TypeCorrect == Spec => []TypeOK
<1>1. Typing /\ [Next]_vars => Typing'
    BY TypingStep
<1>2. Typing => TypeOK
    BY DEF Typing
<1> QED
    BY TypingInit, <1>1, <1>2, PTL DEF Spec

----------------------------------------------------------------------------
\* The inductive invariant, one named part per concern.

\* The ids of the buffer and of a fetched page are told apart.
Unique ==
    /\ NoDuplicateIds
    /\ \A i, j \in 1 .. Len(rows) : rows[i] = rows[j] => i = j

\* Behind the cursor of a handler, and everywhere when there is none, views
\* carry the verdict of the configuration in force.
Enriched ==
    seedPc \notin {"fetch_config", "apply_config"} =>
        \A i \in 1 .. Len(msgs) :
            dispatchPc = "idle" \/ i < cursor =>
                msgs[i].suppressed = Suppressed(config, msgs[i].id)

\* The Pi takes nothing from the broker before its seed is over, and starts
\* its seed with an empty buffer.
SeedsFirst ==
    /\ ~isBrowser /\ seedPc # "done" =>
          link = "down" /\ wire = <<>> /\ dispatchPc = "idle"
    /\ ~isBrowser /\ seedPc \in {"fetch_messages", "apply_messages"} =>
          seenIds = {} /\ newQueue = <<>>

\* What the Pi queued it had seen, once, and the message under way is not in
\* the queue yet.
Queued ==
    ~isBrowser =>
        /\ \A i, j \in 1 .. Len(newQueue) : newQueue[i] = newQueue[j] => i = j
        /\ \A i \in 1 .. Len(newQueue) : newQueue[i] \in seenIds
        /\ dispatchPc = "message" =>
              \A i \in 1 .. Len(newQueue) : newQueue[i] # msgs[Len(msgs)].id

\* Where a stored message is on its way to the Pi: known, lost, in the page
\* just fetched, or in an envelope.
OnItsWay(m) ==
    \/ m \in seenIds \union missed
    \/ seedPc = "apply_messages" /\ \E i \in 1 .. Len(rows) : rows[i] = m
    \/ MessageEnvelope(m) \in outbox \union OnWire

Accounted ==
    ~isBrowser /\ seedPc # "fetch_messages" =>
        \A m \in store \ Malformed : OnItsWay(m)

\* A server that finishes one request before the next has one envelope to
\* publish at most, and a configuration among them is the one it saved.
IsConfig(e) == e.type = "config"
Serial ==
    SerialServer =>
        /\ \A e, f \in outbox : e = f
        /\ \A c \in Config : ConfigEnvelope(c) \in outbox => c = serverConfig

\* The last configuration in the subscription is the one the server saved, or
\* there is none.
ConfigOnWire == \E k \in 1 .. Len(wire) : IsConfig(wire[k])
NewestIsLast ==
    \E k \in 1 .. Len(wire) :
        /\ wire[k] = ConfigEnvelope(serverConfig)
        /\ \A j \in k + 1 .. Len(wire) : ~IsConfig(wire[j])

\* Unless it was lost, or is still to be published, the configuration of the
\* server is the one the seed of the Pi has fetched, the last in its
\* subscription, or the one in force.
Followed ==
    SerialServer /\ ~isBrowser /\ ~missedConfig /\ (\A e \in outbox : ~IsConfig(e)) =>
        /\ seedPc = "apply_config" => fetchedConfig = serverConfig
        /\ seedPc = "done" =>
              NewestIsLast \/ (~ConfigOnWire /\ config = serverConfig)

\* The sha the Pi reports is the one of the configuration in force.
Applied == appliedSha = config.sha

IInv ==
    /\ Typing
    /\ Unique
    /\ Enriched
    /\ SeedsFirst
    /\ Queued
    /\ Accounted
    /\ Serial
    /\ Followed
    /\ Applied

----------------------------------------------------------------------------
\* Only the seed and a new message change which ids the buffer holds.
LEMMA UniqueStep ==
    ASSUME Typing, Unique, [Next]_vars
    PROVE  Unique'
<1> USE DEF serverVars, brokerVars, seedVars, configVars, bufferVars,
            dispatchVars, missVars
<1>1. ASSUME UNCHANGED <<msgs, seenIds>>, rows' = rows \/ rows' = <<>>
      PROVE  Unique'
    BY <1>1 DEF Unique, NoDuplicateIds, BufferIds
<1>2. CASE SeedFetchMessages
    <2> PICK page \in SUBSET store :
               IsPage(page, store) /\ rows' \in CoercedRows(page)
        BY <1>2 DEF SeedFetchMessages
    <2>1. \A i, j \in 1 .. Len(rows') : rows'[i] = rows'[j] => i = j
        BY CoercedRowsFit DEF Typing, TypeOK
    <2> QED
        BY <1>2, <2>1 DEF SeedFetchMessages, Unique, NoDuplicateIds, BufferIds
<1>3. CASE SeedApplyMessages
    <2>1. /\ msgs' \in [1 .. Len(rows) -> View] /\ Len(rows) \in Nat
          /\ \A i \in 1 .. Len(rows) : msgs'[i].id = rows[i]
        BY <1>3 DEF SeedApplyMessages, Typing, TypeOK, View
    <2>2. Len(msgs') = Len(rows)
        BY <2>1, FunctionIsSeq
    <2> QED
        BY <1>3, <2>1, <2>2
           DEF SeedApplyMessages, Unique, NoDuplicateIds, BufferIds
\* Only the verdicts change.
<1>4. ASSUME Len(msgs') = Len(msgs), UNCHANGED <<seenIds, rows>>,
             \A i \in 1 .. Len(msgs) : msgs'[i].id = msgs[i].id
      PROVE  Unique'
    <2>1. BufferIds' = BufferIds
        BY <1>4 DEF BufferIds
    <2> QED
        BY <1>4, <2>1 DEF Unique, NoDuplicateIds
<1>5. ASSUME NEW c, EndSeedConfig(c)
      PROVE  /\ Len(msgs') = Len(msgs)
             /\ \A i \in 1 .. Len(msgs) :
                   /\ msgs'[i].id = msgs[i].id
                   /\ msgs'[i].suppressed = Suppressed(c, msgs[i].id)
    BY <1>5, EndSeedConfigEnriches DEF Typing, TypeOK
<1>6. CASE SeedApplyConfig \/ SeedConfigFail
    BY <1>4, <1>5, <1>6 DEF SeedApplyConfig, SeedConfigFail
<1>7. CASE EnrichOne
    BY <1>4, <1>7, EnrichOneEnriches DEF EnrichOne, Typing, TypeOK, Handling
<1>8. ASSUME NEW m \in Message, DispatchMessage(m)
      PROVE  Unique'
    <2>1. PICK d \in {0, 1} :
             /\ d <= Len(msgs)
             /\ Len(msgs') = Len(msgs) + 1 - d
             /\ msgs'[Len(msgs')].id = m
             /\ \A i \in 1 .. Len(msgs) - d : msgs'[i] = msgs[i + d]
        BY <1>8, DispatchAppends DEF Typing, TypeOK
    <2>2. \A i \in 1 .. Len(msgs) : msgs[i].id \in seenIds /\ msgs[i].id # m
        BY <1>8 DEF DispatchMessage, Unique, NoDuplicateIds, BufferIds
    <2>3. Len(msgs) \in Nat
        BY DEF Typing, TypeOK
    <2>4. \A i \in 1 .. Len(msgs') : i # Len(msgs') =>
             /\ i + d \in 1 .. Len(msgs)
             /\ msgs'[i].id = msgs[i + d].id
        BY <2>1, <2>3
    <2>5. \A i \in 1 .. Len(msgs') : i # Len(msgs') =>
             msgs'[i].id \in seenIds /\ msgs'[i].id # m
        BY <2>2, <2>4
    <2>6. \A i, j \in 1 .. Len(msgs) : msgs[i].id = msgs[j].id => i = j
        BY DEF Unique, NoDuplicateIds
    <2>7. \A i, j \in 1 .. Len(msgs') : msgs'[i].id = msgs'[j].id => i = j
        <3> SUFFICES ASSUME NEW i \in 1 .. Len(msgs'),
                            NEW j \in 1 .. Len(msgs'),
                            msgs'[i].id = msgs'[j].id
                     PROVE  i = j
            OBVIOUS
        <3>1. CASE i = Len(msgs') \/ j = Len(msgs')
            BY <2>1, <2>5, <3>1
        <3>2. CASE i # Len(msgs') /\ j # Len(msgs')
            <4>1. i + d = j + d
                BY <2>4, <2>6, <3>2
            <4> QED
                BY <4>1, <2>1
        <3> QED
            BY <3>1, <3>2
    <2>8. BufferIds' \subseteq seenIds'
        BY <1>8, <2>1, <2>5 DEF DispatchMessage, BufferIds
    <2> QED
        BY <1>8, <2>7, <2>8 DEF DispatchMessage, Unique, NoDuplicateIds
<1>9. CASE Restart
    BY <1>9 DEF Restart, Unique, NoDuplicateIds, BufferIds
<1>10. CASE Server
    <2>1. UNCHANGED <<msgs, seenIds, rows>>
        BY <1>10 DEF Server, ServerReceive, ServerSaveConfig, ServerCommand,
                     Publish, PublishLost
    <2> QED
        BY <1>1, <2>1
<1>11. CASE Subscription
    <2>1. UNCHANGED <<msgs, seenIds, rows>>
        BY <1>11 DEF Subscription, LinkUp, LinkDown, Redeliver
    <2> QED
        BY <1>1, <2>1
<1>12. CASE Seed
    <2>1. CASE SeedMessagesFail \/ SeedFetchConfig
        BY <1>1, <2>1 DEF SeedMessagesFail, SeedFetchConfig
    <2> QED
        BY <1>2, <1>3, <1>6, <1>12, <2>1 DEF Seed
<1>13. CASE Dispatch
    <2>1. ASSUME NEW m \in Message, DispatchDropped(m)
          PROVE  Unique'
        BY <1>1, <2>1 DEF DispatchDropped
    <2>2. ASSUME NEW c \in Config, DispatchConfig(c)
          PROVE  Unique'
        BY <1>1, <2>2 DEF DispatchConfig
    <2>3. CASE DispatchEnd
        BY <1>1, <2>3 DEF DispatchEnd
    <2>4. ASSUME NEW a \in Action, DispatchCommand(a) \/ DispatchRestart(a)
          PROVE  Unique'
        BY <1>1, <1>9, <2>4 DEF DispatchCommand, DispatchRestart
    <2> QED
        BY <1>7, <1>8, <1>13, <2>1, <2>2, <2>3, <2>4 DEF Dispatch
<1>14. CASE UNCHANGED vars
    BY <1>1, <1>14 DEF vars
<1> QED
    BY <1>9, <1>10, <1>11, <1>12, <1>13, <1>14 DEF Next

----------------------------------------------------------------------------
\* A handler enriches what it adds, and a config handler starts over.
LEMMA EnrichedStep ==
    ASSUME Typing, Enriched, [Next]_vars
    PROVE  Enriched'
<1> USE DEF serverVars, brokerVars, seedVars, configVars, bufferVars,
            dispatchVars, missVars
<1>1. ASSUME UNCHANGED <<msgs, config, dispatchPc, cursor>>,
             seedPc' \in {"fetch_config", "apply_config"} \/ UNCHANGED seedPc
             \/ (seedPc = "fetch_messages" /\ seedPc' = "apply_messages")
      PROVE  Enriched'
    BY <1>1 DEF Enriched
<1>2. CASE SeedApplyMessages
    BY <1>2 DEF SeedApplyMessages, Enriched
<1>3. CASE SeedApplyConfig
    BY <1>3, EndSeedConfigEnriches
       DEF SeedApplyConfig, Enriched, Typing, TypeOK
<1>4. CASE SeedConfigFail
    BY <1>4, EndSeedConfigEnriches
       DEF SeedConfigFail, Enriched, Typing, TypeOK
<1>5. ASSUME NEW m \in Message, DispatchMessage(m)
      PROVE  Enriched'
    <2>1. PICK d \in {0, 1} :
             /\ d <= Len(msgs)
             /\ Len(msgs') = Len(msgs) + 1 - d
             /\ \A i \in 1 .. Len(msgs) - d : msgs'[i] = msgs[i + d]
        BY <1>5, DispatchAppends DEF Typing, TypeOK
    <2>2. Len(msgs) \in Nat /\ cursor' = Len(msgs')
        BY <1>5 DEF DispatchMessage, Typing, TypeOK
    <2>3. \A i \in 1 .. Len(msgs') : i < cursor' =>
             i + d \in 1 .. Len(msgs) /\ msgs'[i] = msgs[i + d]
        BY <2>1, <2>2
    <2> QED
        BY <1>5, <2>3 DEF DispatchMessage, Arrives, Enriched
<1>6. ASSUME NEW c \in Config, DispatchConfig(c)
      PROVE  Enriched'
    BY <1>6 DEF DispatchConfig, Enriched, Typing, TypeOK
<1>7. CASE EnrichOne
    <2>1. cursor \in Nat \ {0} /\ msgs \in Seq(View)
        BY <1>7 DEF EnrichOne, Typing, TypeOK, Handling
    <2>2. /\ Len(msgs') = Len(msgs)
          /\ \A i \in 1 .. Len(msgs) :
                /\ msgs'[i].id = msgs[i].id
                /\ i # cursor => msgs'[i].suppressed = msgs[i].suppressed
                /\ i = cursor => msgs'[i].suppressed =
                                     Suppressed(config, msgs[i].id)
        BY <1>7, <2>1, EnrichOneEnriches
    <2>3. \A i \in 1 .. Len(msgs) : i < cursor + 1 => i < cursor \/ i = cursor
        BY <2>1
    <2> QED
        BY <1>7, <2>2, <2>3 DEF EnrichOne, Enriched
<1>8. CASE DispatchEnd
    BY <1>8 DEF DispatchEnd, Enriched, Typing, TypeOK
<1>9. CASE Restart
    BY <1>9 DEF Restart, Enriched
<1>10. CASE Server
    BY <1>1, <1>10 DEF Server, ServerReceive, ServerSaveConfig,
                       ServerCommand, Publish, PublishLost
<1>11. CASE Subscription
    BY <1>1, <1>11 DEF Subscription, LinkUp, LinkDown, Redeliver
<1>12. CASE SeedFetchMessages \/ SeedMessagesFail \/ SeedFetchConfig
    BY <1>1, <1>12 DEF SeedFetchMessages, SeedMessagesFail, SeedFetchConfig
<1>13. ASSUME NEW m \in Message, DispatchDropped(m)
       PROVE  Enriched'
    BY <1>1, <1>13 DEF DispatchDropped
<1>14. ASSUME NEW a \in Action, DispatchCommand(a) \/ DispatchRestart(a)
       PROVE  Enriched'
    BY <1>1, <1>9, <1>14 DEF DispatchCommand, DispatchRestart
<1>15. CASE UNCHANGED vars
    BY <1>1, <1>15 DEF vars
<1>16. CASE Seed
    BY <1>2, <1>3, <1>4, <1>12, <1>16 DEF Seed
<1>17. CASE Dispatch
    BY <1>5, <1>6, <1>7, <1>8, <1>13, <1>14, <1>17 DEF Dispatch
<1> QED
    BY <1>9, <1>10, <1>11, <1>15, <1>16, <1>17 DEF Next

----------------------------------------------------------------------------
\* Nothing is sent to the Pi, and no handler runs, before its seed ends.
LEMMA SeedsFirstStep ==
    ASSUME Typing, SeedsFirst, [Next]_vars
    PROVE  SeedsFirst'
<1> USE DEF SeedsFirst, serverVars, brokerVars, seedVars, configVars,
            bufferVars, dispatchVars, missVars
<1>1. CASE Server
    BY <1>1 DEF Server, ServerReceive, ServerSaveConfig, ServerCommand,
                Publish, PublishLost
<1>2. CASE Subscription
    BY <1>2 DEF Subscription, LinkUp, LinkDown, Redeliver
<1>3. CASE Seed
    BY <1>3 DEF Seed, SeedFetchMessages, SeedApplyMessages,
                SeedMessagesFail, SeedFetchConfig, SeedApplyConfig,
                SeedConfigFail, EndSeedConfig
\* No handler is under way or can begin before the seed of the Pi is over.
<1>4. CASE Dispatch /\ ~Restart
    <2>1. \/ wire # <<>>
          \/ dispatchPc # "idle"
        BY <1>4 DEF Dispatch, DispatchMessage, DispatchDropped,
                    DispatchConfig, EnrichOne, DispatchEnd, DispatchCommand,
                    DispatchRestart, Arrives
    <2>2. isBrowser' = isBrowser /\ seedPc' = seedPc
        BY <1>4 DEF Dispatch, DispatchMessage, DispatchDropped,
                    DispatchConfig, EnrichOne, DispatchEnd, DispatchCommand,
                    DispatchRestart
    <2> QED
        BY <2>1, <2>2
<1>5. CASE Restart
    BY <1>5 DEF Restart
<1>6. CASE UNCHANGED vars
    BY <1>6 DEF vars
<1> QED
    BY <1>1, <1>2, <1>3, <1>4, <1>5, <1>6 DEF Next

----------------------------------------------------------------------------
\* Only the end of a message handler queues, and what it queues is new.
LEMMA QueuedStep ==
    ASSUME Typing, Unique, SeedsFirst, Queued, [Next]_vars
    PROVE  Queued'
<1> USE DEF serverVars, brokerVars, seedVars, configVars, bufferVars,
            dispatchVars, missVars
<1>1. ASSUME UNCHANGED <<isBrowser, newQueue, seenIds, dispatchPc, msgs>>
      PROVE  Queued'
    BY <1>1 DEF Queued
\* The seed of the Pi works on an empty queue and an idle handler.
<1>2. CASE Seed
    <2>1. CASE SeedApplyMessages
        <3>1. ~isBrowser => newQueue' = <<>>
            BY <2>1 DEF SeedApplyMessages, SeedsFirst
        <3> QED
            BY <2>1, <3>1 DEF SeedApplyMessages, Queued
    <2>2. CASE SeedApplyConfig \/ SeedConfigFail
        BY <2>2 DEF SeedApplyConfig, SeedConfigFail, EndSeedConfig, Queued
    <2>3. CASE SeedFetchMessages \/ SeedMessagesFail \/ SeedFetchConfig
        BY <1>1, <2>3
           DEF SeedFetchMessages, SeedMessagesFail, SeedFetchConfig
    <2> QED
        BY <1>2, <2>1, <2>2, <2>3 DEF Seed
<1>3. ASSUME NEW m \in Message, DispatchMessage(m)
      PROVE  Queued'
    <2>1. msgs'[Len(msgs')].id = m
        BY <1>3, DispatchAppends DEF Typing, TypeOK
    <2> QED
        BY <1>3, <2>1 DEF DispatchMessage, Queued
<1>4. CASE EnrichOne
    <2>1. cursor \in Nat \ {0} /\ msgs \in Seq(View) /\ Len(msgs) \in Nat
        BY <1>4 DEF EnrichOne, Typing, TypeOK, Handling
    <2>2. /\ Len(msgs') = Len(msgs)
          /\ \A i \in 1 .. Len(msgs) : msgs'[i].id = msgs[i].id
        BY <1>4, <2>1, EnrichOneEnriches
    <2>3. Len(msgs) \in 1 .. Len(msgs)
        BY <1>4, <2>1 DEF EnrichOne
    <2>4. msgs'[Len(msgs')].id = msgs[Len(msgs)].id
        BY <2>2, <2>3
    <2> QED
        BY <1>4, <2>4 DEF EnrichOne, Queued
<1>5. CASE DispatchEnd /\ dispatchPc = "message"
    <2> DEFINE x == msgs[Len(msgs)].id
    <2>1. Len(msgs) \in 1 .. Len(msgs)
        BY <1>5 DEF Typing, TypeOK, Handling
    <2>2. x \in Message
        BY <2>1, EnrichedView, ElementOfSeq DEF Typing, TypeOK
    <2>3. newQueue' = Push(newQueue, x, QueueLen)
        BY <1>5 DEF DispatchEnd
    <2> HIDE DEF x
    <2>4. PICK d \in {0, 1} :
             /\ d <= Len(newQueue)
             /\ Len(newQueue') = Len(newQueue) + 1 - d
             /\ newQueue'[Len(newQueue')] = x
             /\ \A i \in 1 .. Len(newQueue) - d : newQueue'[i] = newQueue[i + d]
        BY <2>2, <2>3, PushKeeps, BoundAssumption DEF Typing, TypeOK
    <2>5. Len(newQueue) \in Nat
        BY DEF Typing, TypeOK
    <2>6. \A i \in 1 .. Len(newQueue') : i # Len(newQueue') =>
             i + d \in 1 .. Len(newQueue) /\ newQueue'[i] = newQueue[i + d]
        BY <2>4, <2>5
    <2>7. ~isBrowser =>
             /\ x \in seenIds
             /\ \A i \in 1 .. Len(newQueue) : newQueue[i] \in seenIds /\ newQueue[i] # x
             /\ \A i, j \in 1 .. Len(newQueue) : newQueue[i] = newQueue[j] => i = j
        BY <1>5, <2>1 DEF x, Queued, Unique, NoDuplicateIds, BufferIds
    <2>8. ASSUME ~isBrowser,
                 NEW i \in 1 .. Len(newQueue'), NEW j \in 1 .. Len(newQueue'),
                 newQueue'[i] = newQueue'[j]
          PROVE  i = j
        <3>1. CASE i = Len(newQueue') \/ j = Len(newQueue')
            BY <2>4, <2>6, <2>7, <2>8, <3>1
        <3>2. CASE i # Len(newQueue') /\ j # Len(newQueue')
            <4>1. i + d = j + d
                BY <2>6, <2>7, <2>8, <3>2
            <4> QED
                BY <4>1, <2>4, <2>5
        <3> QED
            BY <3>1, <3>2
    <2>9. ~isBrowser => \A i \in 1 .. Len(newQueue') : newQueue'[i] \in seenIds
        BY <2>4, <2>6, <2>7
    <2> QED
        BY <1>5, <2>8, <2>9 DEF DispatchEnd, Queued
<1>6. CASE DispatchEnd /\ dispatchPc # "message"
    BY <1>6 DEF DispatchEnd, Queued
<1>7. CASE Restart
    BY <1>7 DEF Restart, Queued
<1>8. CASE Server
    BY <1>1, <1>8 DEF Server, ServerReceive, ServerSaveConfig,
                      ServerCommand, Publish, PublishLost
<1>9. CASE Subscription
    BY <1>1, <1>9 DEF Subscription, LinkUp, LinkDown, Redeliver
<1>10. ASSUME NEW m \in Message, DispatchDropped(m)
       PROVE  Queued'
    BY <1>1, <1>10 DEF DispatchDropped
<1>11. ASSUME NEW c \in Config, DispatchConfig(c)
       PROVE  Queued'
    BY <1>11 DEF DispatchConfig, Queued
<1>12. ASSUME NEW a \in Action, DispatchCommand(a) \/ DispatchRestart(a)
       PROVE  Queued'
    BY <1>1, <1>7, <1>12 DEF DispatchCommand, DispatchRestart
<1>13. CASE UNCHANGED vars
    BY <1>1, <1>13 DEF vars
<1>14. CASE Dispatch
    BY <1>3, <1>4, <1>5, <1>6, <1>10, <1>11, <1>12, <1>14 DEF Dispatch
<1> QED
    BY <1>2, <1>7, <1>8, <1>9, <1>13, <1>14 DEF Next

----------------------------------------------------------------------------
\* What is on the wire after an envelope joins, is repeated or is taken off.
LEMMA OnWireChanges ==
    ASSUME wire \in Seq(Envelope)
    PROVE  /\ \A e \in Envelope : wire' = Append(wire, e) =>
                  OnWire' = OnWire \union {e}
           /\ wire # <<>> /\ wire' = <<Head(wire)>> \o wire =>
                  OnWire \subseteq OnWire'
           /\ wire # <<>> /\ wire' = Tail(wire) =>
                  OnWire \subseteq OnWire' \union {Head(wire)}
           /\ wire' = wire => OnWire' = OnWire
<1>1. ASSUME NEW e \in Envelope, wire' = Append(wire, e)
      PROVE  OnWire' = OnWire \union {e}
    <2>1. /\ Len(wire') = Len(wire) + 1 /\ Len(wire) \in Nat
          /\ wire'[Len(wire) + 1] = e
          /\ \A i \in 1 .. Len(wire) : wire'[i] = wire[i]
        BY <1>1
    <2> QED
        BY <2>1 DEF OnWire
<1>2. ASSUME wire # <<>>, wire' = <<Head(wire)>> \o wire
      PROVE  OnWire \subseteq OnWire'
    <2>1. /\ Len(wire) \in Nat /\ Len(wire') = Len(wire) + 1
          /\ \A i \in 1 .. Len(wire) : wire'[i + 1] = wire[i]
        BY <1>2
    <2> QED
        BY <2>1 DEF OnWire
<1>3. ASSUME wire # <<>>, wire' = Tail(wire)
      PROVE  OnWire \subseteq OnWire' \union {Head(wire)}
    <2>1. /\ Len(wire) \in Nat \ {0} /\ Len(wire') = Len(wire) - 1
          /\ Head(wire) = wire[1]
          /\ \A i \in 1 .. Len(wire) - 1 : wire'[i] = wire[i + 1]
        BY <1>3
    <2>2. \A i \in 1 .. Len(wire) : i = 1 \/ (i - 1 \in 1 .. Len(wire')
                                               /\ wire[i] = wire'[i - 1])
        BY <2>1
    <2> QED
        BY <2>1, <2>2 DEF OnWire
<1> QED
    BY <1>1, <1>2, <1>3 DEF OnWire

\* No envelope is of two kinds, and each names what it carries.
LEMMA EnvelopesDiffer ==
    /\ \A m, n : MessageEnvelope(m) = MessageEnvelope(n) => m = n
    /\ \A m, c : MessageEnvelope(m) # ConfigEnvelope(c)
    /\ \A m, a : MessageEnvelope(m) # CommandEnvelope(a)
BY DEF MessageEnvelope, ConfigEnvelope, CommandEnvelope

\* No step loses track of a stored message.
LEMMA AccountedStep ==
    ASSUME Typing, SeedsFirst, Accounted, [Next]_vars
    PROVE  Accounted'
<1> USE DEF serverVars, brokerVars, seedVars, configVars, bufferVars,
            dispatchVars, missVars
\* A step that loses nothing of what accounts for a message.
<1>1. ASSUME UNCHANGED <<isBrowser, store, seedPc, rows>>,
             seenIds \subseteq seenIds', missed \subseteq missed',
             \A m \in store \ Malformed :
                MessageEnvelope(m) \in outbox \union OnWire =>
                    \/ MessageEnvelope(m) \in outbox' \union OnWire'
                    \/ m \in seenIds' \union missed'
      PROVE  Accounted'
    BY <1>1 DEF Accounted, OnItsWay
<1>2. ASSUME NEW m \in Message, ServerReceive(m)
      PROVE  Accounted'
    <2>1. OnWire' = OnWire
        BY <1>2 DEF ServerReceive, OnWire
    <2> QED
        BY <1>2, <2>1 DEF ServerReceive, Accounted, OnItsWay
<1>3. ASSUME NEW e, ServerSaveConfig(e) \/ ServerCommand(e)
      PROVE  Accounted'
    <2>1. OnWire' = OnWire /\ outbox \subseteq outbox'
        BY <1>3 DEF ServerSaveConfig, ServerCommand, OnWire
    <2> QED
        BY <1>1, <1>3, <2>1 DEF ServerSaveConfig, ServerCommand
<1>4. ASSUME NEW e \in Envelope, Publish(e)
      PROVE  Accounted'
    <2>1. OnWire' = OnWire \union {e}
        BY <1>4, OnWireChanges DEF Publish, Typing, TypeOK
    <2> QED
        BY <1>1, <1>4, <2>1 DEF Publish
<1>5. ASSUME NEW e \in Envelope, PublishLost(e)
      PROVE  Accounted'
    <2>1. OnWire' = OnWire
        BY <1>5 DEF PublishLost, OnWire
    <2>2. \A m \in Message : MessageEnvelope(m) = e => m \in seenIds \union missed'
        BY <1>5 DEF PublishLost, Lose
    <2>3. store \subseteq Message
        BY DEF Typing, TypeOK
    <2> QED
        BY <1>1, <1>5, <2>1, <2>2, <2>3 DEF PublishLost, Lose
<1>6. CASE LinkUp
    BY <1>1, <1>6 DEF LinkUp, OnWire
<1>7. CASE LinkDown
    <2>1. \A m \in Message : MessageEnvelope(m) \in OnWire =>
             m \in seenIds \union missed'
        BY <1>7 DEF LinkDown, Lose
    <2>2. store \subseteq Message
        BY DEF Typing, TypeOK
    <2> QED
        BY <1>1, <1>7, <2>1, <2>2 DEF LinkDown, Lose
<1>8. CASE Redeliver
    <2>1. OnWire \subseteq OnWire'
        BY <1>8, OnWireChanges DEF Redeliver, Typing, TypeOK
    <2> QED
        BY <1>1, <1>8, <2>1 DEF Redeliver
<1>9. CASE Seed
    <2>1. OnWire' = OnWire /\ outbox' = outbox /\ store' = store
          /\ isBrowser' = isBrowser
        BY <1>9 DEF Seed, SeedFetchMessages, SeedApplyMessages,
                    SeedMessagesFail, SeedFetchConfig, SeedApplyConfig,
                    SeedConfigFail, OnWire
    <2>2. CASE SeedFetchMessages
        <3> PICK page \in SUBSET store :
                   /\ IsPage(page, store)
                   /\ rows' \in CoercedRows(page)
                   /\ missed' = store \ (page \union seenIds)
            BY <2>2 DEF SeedFetchMessages
        <3>1. \A m \in page \ Malformed : \E i \in 1 .. Len(rows') : rows'[i] = m
            BY CoercedRowsFit DEF Typing, TypeOK
        <3>2. \A m \in store \ page : m \in missed' \union seenIds'
            BY <2>2 DEF SeedFetchMessages
        <3>3. seedPc' = "apply_messages"
            BY <2>2 DEF SeedFetchMessages
        <3> QED
            BY <2>1, <3>1, <3>2, <3>3 DEF Accounted, OnItsWay
    <2>3. CASE SeedApplyMessages
        <3>1. \A m : (\E i \in 1 .. Len(rows) : rows[i] = m) => m \in seenIds'
            BY <2>3 DEF SeedApplyMessages
        <3>2. ~isBrowser => seenIds = {}
            BY <2>3 DEF SeedApplyMessages, SeedsFirst
        <3>3. missed' = missed /\ seedPc = "apply_messages"
            BY <2>3 DEF SeedApplyMessages
        <3> QED
            BY <2>1, <3>1, <3>2, <3>3 DEF Accounted, OnItsWay
    <2>4. CASE SeedMessagesFail
        BY <2>1, <2>4 DEF SeedMessagesFail, Accounted, OnItsWay
    <2>5. CASE SeedFetchConfig \/ SeedApplyConfig \/ SeedConfigFail
        <3>1. /\ seenIds' = seenIds /\ missed' = missed
              /\ seedPc \in {"fetch_config", "apply_config"}
            BY <2>5 DEF SeedFetchConfig, SeedApplyConfig, SeedConfigFail
        <3> QED
            BY <2>1, <3>1 DEF Accounted, OnItsWay
    <2> QED
        BY <1>9, <2>2, <2>3, <2>4, <2>5 DEF Seed
\* An envelope taken off the wire: a message in it is known now.
<1>10. ASSUME NEW e, Arrives(e), wire' = Tail(wire),
              UNCHANGED <<isBrowser, store, seedPc, rows, outbox, missed>>,
              seenIds \subseteq seenIds',
              \A m \in store \ Malformed : e = MessageEnvelope(m) => m \in seenIds'
       PROVE  Accounted'
    <2>1. OnWire \subseteq OnWire' \union {e}
        BY <1>10, OnWireChanges DEF Arrives, Typing, TypeOK
    <2> QED
        BY <1>1, <1>10, <2>1
<1>11. ASSUME NEW m \in Message, DispatchMessage(m) \/ DispatchDropped(m)
       PROVE  Accounted'
    BY <1>10, <1>11, EnvelopesDiffer DEF DispatchMessage, DispatchDropped
<1>12. ASSUME NEW c \in Config, DispatchConfig(c)
       PROVE  Accounted'
    BY <1>10, <1>12, EnvelopesDiffer DEF DispatchConfig
<1>13. CASE EnrichOne \/ DispatchEnd
    BY <1>1, <1>13 DEF EnrichOne, DispatchEnd, OnWire
<1>14. ASSUME NEW a \in Action, DispatchCommand(a)
       PROVE  Accounted'
    BY <1>10, <1>14, EnvelopesDiffer DEF DispatchCommand
<1>15. CASE Restart
    BY <1>15 DEF Restart, Accounted
<1>16. ASSUME NEW a \in Action, DispatchRestart(a)
       PROVE  Accounted'
    BY <1>15, <1>16 DEF DispatchRestart
<1>17. CASE UNCHANGED vars
    BY <1>1, <1>17 DEF vars, OnWire
<1>18. CASE Server
    BY <1>2, <1>3, <1>4, <1>5, <1>18 DEF Server
<1>19. CASE Subscription
    BY <1>6, <1>7, <1>8, <1>19 DEF Subscription
<1>20. CASE Dispatch
    BY <1>11, <1>12, <1>13, <1>14, <1>16, <1>20 DEF Dispatch
<1> QED
    BY <1>9, <1>15, <1>17, <1>18, <1>19, <1>20 DEF Next

----------------------------------------------------------------------------
\* The types of envelopes tell configurations from the others.
LEMMA ConfigsAre ==
    /\ \A c : IsConfig(ConfigEnvelope(c))
    /\ \A m : ~IsConfig(MessageEnvelope(m))
    /\ \A a : ~IsConfig(CommandEnvelope(a))
    /\ \A e \in Envelope : IsConfig(e) => \E c \in Config : e = ConfigEnvelope(c)
    /\ \A c, d : ConfigEnvelope(c) = ConfigEnvelope(d) => c = d
BY DEF IsConfig, Envelope, ConfigEnvelope, MessageEnvelope, CommandEnvelope

\* What a change of the subscription does to the configurations in it.
LEMMA LastConfigChanges ==
    ASSUME wire \in Seq(Envelope), UNCHANGED serverConfig
    PROVE  /\ \A e \in Envelope : wire' = Append(wire, e) =>
                 IF IsConfig(e) THEN e = ConfigEnvelope(serverConfig) => NewestIsLast'
                 ELSE /\ NewestIsLast => NewestIsLast'
                      /\ ~ConfigOnWire => ~ConfigOnWire'
           /\ wire # <<>> /\ wire' = <<Head(wire)>> \o wire =>
                 /\ NewestIsLast => NewestIsLast'
                 /\ ~ConfigOnWire => ~ConfigOnWire'
           /\ wire # <<>> /\ wire' = Tail(wire) =>
                 /\ NewestIsLast =>
                       \/ NewestIsLast'
                       \/ ~ConfigOnWire' /\ Head(wire) = ConfigEnvelope(serverConfig)
                 /\ ~ConfigOnWire => ~ConfigOnWire' /\ ~IsConfig(Head(wire))
<1> DEFINE n == Len(wire)
<1>1. n \in Nat
    BY LenProperties
<1>2. ASSUME NEW e \in Envelope, wire' = Append(wire, e)
      PROVE  IF IsConfig(e) THEN e = ConfigEnvelope(serverConfig) => NewestIsLast'
             ELSE /\ NewestIsLast => NewestIsLast'
                  /\ ~ConfigOnWire => ~ConfigOnWire'
    <2>1. /\ Len(wire') = n + 1 /\ wire'[n + 1] = e
          /\ \A i \in 1 .. n : wire'[i] = wire[i]
        BY <1>2, AppendProperties
    <2> HIDE DEF n
    <2>2. \A j \in 1 .. n + 1 : j = n + 1 \/ j \in 1 .. n
        BY <1>1
    <2>3. CASE IsConfig(e)
        <3>1. n + 1 \in 1 .. n + 1 /\ (n + 1) + 1 .. n + 1 = {}
            BY <1>1
        <3> QED
            BY <2>1, <2>3, <3>1 DEF NewestIsLast
    <2>4. ASSUME ~IsConfig(e), NewestIsLast
          PROVE  NewestIsLast'
        <3>1. PICK k \in 1 .. n : /\ wire[k] = ConfigEnvelope(serverConfig)
                                  /\ \A j \in k + 1 .. n : ~IsConfig(wire[j])
            BY <2>4 DEF NewestIsLast, n
        <3>2. k \in 1 .. n + 1 /\ wire'[k] = ConfigEnvelope(serverConfig')
            BY <1>1, <2>1, <3>1
        <3>3. \A j \in k + 1 .. n + 1 : j = n + 1 \/ (j \in 1 .. n /\ j \in k + 1 .. n)
            BY <1>1, <3>1
        <3>4. \A j \in k + 1 .. n + 1 : ~IsConfig(wire'[j])
            BY <2>1, <2>4, <3>1, <3>3
        <3> QED
            BY <2>1, <3>2, <3>4 DEF NewestIsLast
    <2>5. ASSUME ~IsConfig(e), ~ConfigOnWire
          PROVE  ~ConfigOnWire'
        BY <2>1, <2>2, <2>5 DEF ConfigOnWire, n
    <2> QED
        BY <2>3, <2>4, <2>5
<1>3. ASSUME wire # <<>>, wire' = <<Head(wire)>> \o wire
      PROVE  /\ NewestIsLast => NewestIsLast'
             /\ ~ConfigOnWire => ~ConfigOnWire'
    <2>1. /\ Len(wire') = n + 1 /\ n >= 1 /\ wire'[1] = wire[1]
          /\ \A i \in 1 .. n : wire'[i + 1] = wire[i]
        BY <1>3
    <2> HIDE DEF n
    <2>2. \A j \in 1 .. n + 1 : j = 1 \/ (j - 1 \in 1 .. n /\ wire'[j] = wire[j - 1])
        <3>1. \A j \in 1 .. n + 1 : j = 1 \/ (j - 1 \in 1 .. n /\ (j - 1) + 1 = j)
            BY <1>1
        <3> QED
            BY <2>1, <3>1
    <2>3. ASSUME NewestIsLast
          PROVE  NewestIsLast'
        <3>1. PICK k \in 1 .. n : /\ wire[k] = ConfigEnvelope(serverConfig)
                                  /\ \A j \in k + 1 .. n : ~IsConfig(wire[j])
            BY <2>3 DEF NewestIsLast, n
        <3>2. k + 1 \in 1 .. n + 1 /\ wire'[k + 1] = ConfigEnvelope(serverConfig')
            BY <1>1, <2>1, <3>1
        <3>3. \A j \in (k + 1) + 1 .. n + 1 : j # 1 /\ j \in 1 .. n + 1 /\ j - 1 \in k + 1 .. n
            BY <1>1, <3>1
        <3>4. \A j \in (k + 1) + 1 .. n + 1 : ~IsConfig(wire'[j])
            BY <2>2, <3>1, <3>3
        <3> QED
            BY <2>1, <3>2, <3>4 DEF NewestIsLast
    <2>4. ASSUME ~ConfigOnWire
          PROVE  ~ConfigOnWire'
        <3>1. 1 \in 1 .. n
            BY <1>1, <2>1
        <3> QED
            BY <2>1, <2>2, <2>4, <3>1 DEF ConfigOnWire, n
    <2> QED
        BY <2>3, <2>4
<1>4. ASSUME wire # <<>>, wire' = Tail(wire)
      PROVE  /\ NewestIsLast =>
                   \/ NewestIsLast'
                   \/ ~ConfigOnWire' /\ Head(wire) = ConfigEnvelope(serverConfig)
             /\ ~ConfigOnWire => ~ConfigOnWire' /\ ~IsConfig(Head(wire))
    <2>1. /\ Len(wire') = n - 1 /\ n >= 1 /\ Head(wire) = wire[1]
          /\ \A i \in 1 .. n - 1 : wire'[i] = wire[i + 1]
        BY <1>4
    <2> HIDE DEF n
    <2>2. \A i \in 1 .. n - 1 : i + 1 \in 1 .. n
        BY <1>1
    <2>3. ASSUME NewestIsLast
          PROVE  \/ NewestIsLast'
                 \/ ~ConfigOnWire' /\ Head(wire) = ConfigEnvelope(serverConfig)
        <3>1. PICK k \in 1 .. n : /\ wire[k] = ConfigEnvelope(serverConfig)
                                  /\ \A j \in k + 1 .. n : ~IsConfig(wire[j])
            BY <2>3 DEF NewestIsLast, n
        <3>2. CASE k = 1
            <4>1. \A i \in 1 .. n - 1 : i + 1 \in k + 1 .. n
                BY <1>1, <3>2
            <4> QED
                BY <2>1, <3>1, <3>2, <4>1 DEF ConfigOnWire
        <3>3. CASE k # 1
            <4>1. k - 1 \in 1 .. n - 1 /\ (k - 1) + 1 = k
                BY <1>1, <3>1, <3>3
            <4>2. wire'[k - 1] = ConfigEnvelope(serverConfig')
                BY <2>1, <3>1, <4>1
            <4>3. \A j \in (k - 1) + 1 .. n - 1 : j \in 1 .. n - 1 /\ j + 1 \in k + 1 .. n
                BY <1>1, <3>1, <4>1
            <4>4. \A j \in (k - 1) + 1 .. n - 1 : ~IsConfig(wire'[j])
                BY <2>1, <3>1, <4>3
            <4> QED
                BY <2>1, <4>1, <4>2, <4>4 DEF NewestIsLast
        <3> QED
            BY <3>2, <3>3
    <2>4. ASSUME ~ConfigOnWire
          PROVE  ~ConfigOnWire' /\ ~IsConfig(Head(wire))
        <3>1. 1 \in 1 .. n
            BY <1>1, <2>1
        <3> QED
            BY <2>1, <2>2, <2>4, <3>1 DEF ConfigOnWire, n
    <2> QED
        BY <2>3, <2>4
<1> QED
    BY <1>2, <1>3, <1>4

\* A request begins when the one before it has published.
LEMMA SerialStep ==
    ASSUME Serial, [Next]_vars
    PROVE  Serial'
<1> USE DEF serverVars, brokerVars, seedVars, configVars, bufferVars,
            dispatchVars, missVars
<1>1. ASSUME outbox' \subseteq outbox, UNCHANGED serverConfig
      PROVE  Serial'
    BY <1>1 DEF Serial
<1>2. ASSUME NEW m \in Message, ServerReceive(m)
      PROVE  Serial'
    BY <1>2, ConfigsAre DEF ServerReceive, Serial
<1>3. ASSUME NEW c \in Config, ServerSaveConfig(c)
      PROVE  Serial'
    BY <1>3, ConfigsAre DEF ServerSaveConfig, Serial
<1>4. ASSUME NEW a \in Action, ServerCommand(a)
      PROVE  Serial'
    BY <1>4, ConfigsAre DEF ServerCommand, Serial
<1>5. ASSUME NEW e \in Envelope, Publish(e) \/ PublishLost(e)
      PROVE  Serial'
    BY <1>1, <1>5 DEF Publish, PublishLost
<1>6. CASE Server
    BY <1>2, <1>3, <1>4, <1>5, <1>6 DEF Server
<1>7. CASE Subscription \/ Seed \/ Dispatch \/ Restart \/ UNCHANGED vars
    <2>1. UNCHANGED <<outbox, serverConfig>>
        BY <1>7 DEF Subscription, LinkUp, LinkDown, Redeliver, Seed,
                    SeedFetchMessages, SeedApplyMessages, SeedMessagesFail,
                    SeedFetchConfig, SeedApplyConfig, SeedConfigFail,
                    Dispatch, DispatchMessage, DispatchDropped, DispatchConfig,
                    EnrichOne, DispatchEnd, DispatchCommand, DispatchRestart,
                    Restart, vars
    <2> QED
        BY <1>1, <2>1
<1> QED
    BY <1>6, <1>7 DEF Next

\* Each path that sets the configuration sets the sha the Pi reports.
LEMMA AppliedStep ==
    ASSUME Applied, [Next]_vars
    PROVE  Applied'
<1> USE DEF Applied, serverVars, brokerVars, seedVars, configVars, bufferVars,
            dispatchVars, missVars
<1>1. CASE Server
    BY <1>1 DEF Server, ServerReceive, ServerSaveConfig, ServerCommand, Publish,
                PublishLost
<1>2. CASE Subscription
    BY <1>2 DEF Subscription, LinkUp, LinkDown, Redeliver
<1>3. CASE Seed
    BY <1>3 DEF Seed, SeedFetchMessages, SeedApplyMessages, SeedMessagesFail,
                SeedFetchConfig, SeedApplyConfig, SeedConfigFail
<1>4. CASE Dispatch
    BY <1>4 DEF Dispatch, DispatchMessage, DispatchDropped, DispatchConfig,
                EnrichOne, DispatchEnd, DispatchCommand, DispatchRestart, Restart
<1>5. CASE Restart
    BY <1>5 DEF Restart
<1>6. CASE UNCHANGED vars
    BY <1>6 DEF vars
<1> QED
    BY <1>1, <1>2, <1>3, <1>4, <1>5, <1>6 DEF Next

\* The Pi follows the server: the seed starts it with what the server has, and
\* the last envelope to arrive is the last one saved.
LEMMA FollowedStep ==
    ASSUME Typing, SeedsFirst, Serial, Followed, [Next]_vars
    PROVE  Followed'
<1> USE DEF serverVars, brokerVars, seedVars, configVars, bufferVars,
            dispatchVars, missVars
<1>1. wire \in Seq(Envelope) /\ outbox \subseteq Envelope /\ missedConfig \in BOOLEAN
    BY DEF Typing, TypeOK
\* A step that leaves the configurations alone.
<1>2. ASSUME UNCHANGED <<isBrowser, serverConfig, wire, seedPc, fetchedConfig, config>>,
             missedConfig => missedConfig',
             ~missedConfig' /\ (\A e \in outbox' : ~IsConfig(e)) =>
                \A e \in outbox : ~IsConfig(e)
      PROVE  Followed'
    BY <1>1, <1>2 DEF Followed, NewestIsLast, ConfigOnWire
<1>3. ASSUME NEW m \in Message, ServerReceive(m)
      PROVE  Followed'
    BY <1>2, <1>3 DEF ServerReceive
<1>4. ASSUME NEW c \in Config, ServerSaveConfig(c)
      PROVE  Followed'
    BY <1>4, ConfigsAre DEF ServerSaveConfig, Followed
<1>5. ASSUME NEW a \in Action, ServerCommand(a)
      PROVE  Followed'
    BY <1>2, <1>5 DEF ServerCommand
<1>6. ASSUME NEW e \in Envelope, PublishLost(e), SerialServer
      PROVE  Followed'
    <2>1. \A f \in outbox : f = e
        BY <1>6 DEF Serial, PublishLost
    <2>2. IsConfig(e) => missedConfig'
        BY <1>6, ConfigsAre DEF Serial, PublishLost, Lose
    <2>3. missedConfig => missedConfig'
        BY <1>6 DEF PublishLost, Lose
    <2> QED
        BY <1>2, <1>6, <2>1, <2>2, <2>3 DEF PublishLost
<1>7. ASSUME NEW e \in Envelope, Publish(e), SerialServer
      PROVE  Followed'
    <2>1. \A f \in outbox : f = e
        BY <1>7 DEF Serial, Publish
    <2>2. /\ wire' = Append(wire, e)
          /\ UNCHANGED <<isBrowser, serverConfig, seedPc, fetchedConfig, config>>
          /\ link = "up"
        BY <1>7 DEF Publish
    <2>3. ~isBrowser => seedPc = "done"
        BY <2>2 DEF SeedsFirst
    <2>4. CASE IsConfig(e)
        <3>1. e = ConfigEnvelope(serverConfig)
            BY <1>7, <2>4, ConfigsAre DEF Serial, Publish
        <3>2. NewestIsLast'
            BY <1>1, <2>2, <2>4, <3>1, LastConfigChanges
        <3> QED
            BY <2>2, <2>3, <3>2 DEF Followed
    <2>5. CASE ~IsConfig(e)
        <3>1. /\ NewestIsLast => NewestIsLast'
              /\ ~ConfigOnWire => ~ConfigOnWire'
            BY <1>1, <2>2, <2>5, LastConfigChanges
        <3>2. missedConfig' = missedConfig
            BY <1>1, <1>7, <2>5, ConfigsAre DEF Publish
        <3> QED
            BY <2>1, <2>2, <2>3, <2>5, <3>1, <3>2 DEF Followed
    <2> QED
        BY <2>4, <2>5
<1>8. CASE ~SerialServer
    BY <1>8 DEF Followed
<1>9. CASE Server
    BY <1>3, <1>4, <1>5, <1>6, <1>7, <1>8, <1>9 DEF Server
<1>10. CASE LinkUp
    BY <1>2, <1>10 DEF LinkUp
<1>11. CASE LinkDown
    <2>1. ~isBrowser => seedPc = "done"
        BY <1>11 DEF LinkDown, SeedsFirst
    <2>2. /\ wire' = <<>>
          /\ missedConfig' = (missedConfig \/ ConfigEnvelope(serverConfig) \in OnWire)
          /\ UNCHANGED <<isBrowser, serverConfig, outbox, seedPc, fetchedConfig, config>>
        BY <1>11 DEF LinkDown, Lose
    <2>3. NewestIsLast => missedConfig'
        BY <2>2 DEF NewestIsLast, OnWire
    <2>4. ~ConfigOnWire'
        BY <2>2 DEF ConfigOnWire
    <2> QED
        BY <1>1, <2>1, <2>2, <2>3, <2>4 DEF Followed
<1>12. CASE Redeliver
    <2>1. /\ NewestIsLast => NewestIsLast'
          /\ ~ConfigOnWire => ~ConfigOnWire'
        BY <1>1, <1>12, LastConfigChanges DEF Redeliver
    <2> QED
        BY <1>12, <2>1 DEF Redeliver, Followed
<1>13. CASE Subscription
    BY <1>10, <1>11, <1>12, <1>13 DEF Subscription
<1>14. CASE SeedFetchMessages \/ SeedApplyMessages \/ SeedMessagesFail
    <2>1. seedPc' \notin {"apply_config", "done"}
        BY <1>14 DEF SeedFetchMessages, SeedApplyMessages, SeedMessagesFail
    <2> QED
        BY <2>1 DEF Followed
<1>15. CASE SeedFetchConfig
    BY <1>15 DEF SeedFetchConfig, Followed
<1>16. CASE SeedApplyConfig
    <2>1. ~isBrowser => ~ConfigOnWire'
        BY <1>16 DEF SeedApplyConfig, SeedsFirst, ConfigOnWire
    <2> QED
        BY <1>16, <2>1 DEF SeedApplyConfig, EndSeedConfig, Followed
<1>17. CASE SeedConfigFail
    BY <1>17 DEF SeedConfigFail, Followed
<1>18. CASE Seed
    BY <1>14, <1>15, <1>16, <1>17, <1>18 DEF Seed
\* An envelope of another kind is taken off the subscription.
<1>19. ASSUME NEW e, Arrives(e), ~IsConfig(e), wire' = Tail(wire),
              UNCHANGED <<isBrowser, serverConfig, seedPc, fetchedConfig, config,
                          outbox, missedConfig>>
       PROVE  Followed'
    <2>1. /\ NewestIsLast => NewestIsLast'
          /\ ~ConfigOnWire => ~ConfigOnWire'
        BY <1>1, <1>19, LastConfigChanges, ConfigsAre DEF Arrives
    <2> QED
        BY <1>19, <2>1 DEF Followed
<1>20. ASSUME NEW m \in Message, DispatchMessage(m) \/ DispatchDropped(m)
       PROVE  Followed'
    BY <1>19, <1>20, ConfigsAre DEF DispatchMessage, DispatchDropped
<1>21. ASSUME NEW c \in Config, DispatchConfig(c)
       PROVE  Followed'
    <2>1. /\ wire # <<>> /\ wire' = Tail(wire) /\ Head(wire) = ConfigEnvelope(c)
          /\ config' = c
          /\ UNCHANGED <<isBrowser, serverConfig, seedPc, fetchedConfig, outbox,
                         missedConfig>>
        BY <1>21 DEF DispatchConfig, Arrives
    <2>2. /\ NewestIsLast => \/ NewestIsLast'
                             \/ ~ConfigOnWire' /\ c = serverConfig
          /\ ConfigOnWire
        BY <1>1, <2>1, LastConfigChanges, ConfigsAre
    <2> QED
        BY <2>1, <2>2 DEF Followed
<1>22. CASE EnrichOne \/ DispatchEnd
    BY <1>2, <1>22 DEF EnrichOne, DispatchEnd
<1>23. ASSUME NEW a \in Action, DispatchCommand(a)
       PROVE  Followed'
    BY <1>19, <1>23, ConfigsAre DEF DispatchCommand
<1>24. CASE Restart
    BY <1>24 DEF Restart, Followed
<1>25. CASE Dispatch
    BY <1>20, <1>21, <1>22, <1>23, <1>24, <1>25 DEF Dispatch, DispatchRestart
<1>26. CASE UNCHANGED vars
    BY <1>2, <1>26 DEF vars
<1> QED
    BY <1>9, <1>13, <1>18, <1>24, <1>25, <1>26 DEF Next

----------------------------------------------------------------------------
\* The theorems.

\* IInv is inductive.
THEOREM Inductive == Spec => []IInv
<1>1. Init => IInv
    <2> SUFFICES ASSUME Init
                 PROVE  IInv
        OBVIOUS
    <2>1. Typing
        BY TypingInit
    <2>2. Unique /\ Enriched /\ Queued
        BY DEF Init, Unique, NoDuplicateIds, BufferIds, Enriched, Queued
    <2>3. SeedsFirst /\ Accounted
        BY DEF Init, SeedsFirst, Accounted
    <2>4. Serial /\ Followed /\ Applied
        BY DEF Init, Serial, Followed, Applied
    <2> QED
        BY <2>1, <2>2, <2>3, <2>4 DEF IInv
<1>2. IInv /\ [Next]_vars => IInv'
    <2> SUFFICES ASSUME IInv, [Next]_vars
                 PROVE  IInv'
        OBVIOUS
    <2> QED
        BY TypingStep, UniqueStep, EnrichedStep, SeedsFirstStep, QueuedStep,
           AccountedStep, SerialStep, FollowedStep, AppliedStep DEF IInv
<1> QED
    BY <1>1, <1>2, PTL DEF Spec

\* The buffer never holds a message twice, and add() recognises every message
\* in it, whatever the seed and the broker deliver (message_manager.py:415-484).
THEOREM NoDuplicates == Spec => []NoDuplicateIds
<1>1. IInv => NoDuplicateIds
    BY DEF IInv, Unique
<1> QED
    BY Inductive, <1>1, PTL

\* A message joins the queue of the Pi at most once, however often the broker
\* delivers it (message_manager.py:452-484).
THEOREM QueuedAtMostOnce == Spec => []QueuedOnce
<1>1. IInv => QueuedOnce
    BY DEF IInv, Queued, QueuedOnce
<1> QED
    BY Inductive, <1>1, PTL

\* Between handlers, once both fetches of the seed are over or before its rows
\* are in, each view carries the verdict of the configuration in force.
THEOREM EnrichmentIsCurrent == Spec => []EnrichedAtRest
<1>1. IInv => EnrichedAtRest
    BY DEF IInv, Enriched, EnrichedAtRest
<1> QED
    BY Inductive, <1>1, PTL

\* The seeded Pi knows every well-formed stored message, unless it is on its
\* way or was lost by the broker, a failed publish or a failed fetch.
THEOREM NothingIsForgotten == Spec => []NothingElseLost
<1>1. IInv => NothingElseLost
    BY DEF IInv, Accounted, OnItsWay, NothingElseLost
<1> QED
    BY Inductive, <1>1, PTL

\* With a server that finishes one request before the next, the Pi runs the
\* configuration the server saved once none is on its way to it and the newest
\* was not lost, and reports its sha (message_manager.py:516-665,
\* 800-827).
THEOREM ConfigStaysCurrent == SerialServer => (Spec => []ConfigCurrent)
<1> SUFFICES ASSUME SerialServer
             PROVE  Spec => []ConfigCurrent
    OBVIOUS
<1>1. IInv => ConfigCurrent
    <2> SUFFICES ASSUME IInv, ~isBrowser, seedPc = "done", ~missedConfig,
                        \A c \in Config : ConfigEnvelope(c) \notin outbox \union OnWire
                 PROVE  config = serverConfig /\ appliedSha = serverConfig.sha
        BY DEF ConfigCurrent
    <2>1. \A e \in outbox : ~IsConfig(e)
        BY ConfigsAre DEF IInv, Typing, TypeOK
    <2>2. ~NewestIsLast
        BY DEF NewestIsLast, OnWire, IInv, Typing, TypeOK
    <2> QED
        BY <2>1, <2>2 DEF IInv, Followed, Applied
<1> QED
    BY <1>1, Inductive, PTL

\* An evicted message stays out of the buffer, short of a seed.
THEOREM EvictedForGood == Spec => EvictedStaysOut
<1>1. IInv /\ [Next]_vars =>
         [\A m \in seenIds \ BufferIds :
             m \in BufferIds' => seedPc = "apply_messages"]_vars
    <2> SUFFICES ASSUME IInv, Next, NEW m \in seenIds \ BufferIds,
                        m \in BufferIds'
                 PROVE  seedPc = "apply_messages"
        OBVIOUS
    <2> USE DEF serverVars, brokerVars, seedVars, configVars, bufferVars,
                dispatchVars, missVars
    <2>1. msgs \in Seq(View) /\ Len(msgs) <= BufferLen
        BY DEF IInv, Typing, TypeOK
    <2>2. msgs' # msgs
        BY DEF BufferIds
    <2>3. ASSUME NEW c, EndSeedConfig(c)
          PROVE  FALSE
        BY <2>1, <2>3, EndSeedConfigEnriches DEF BufferIds
    <2>4. CASE EnrichOne
        <3>1. cursor \in Nat \ {0}
            BY <2>4 DEF EnrichOne, IInv, Typing, TypeOK, Handling
        <3>2. /\ Len(msgs') = Len(msgs)
              /\ \A i \in 1 .. Len(msgs) : msgs'[i].id = msgs[i].id
            BY <2>1, <2>4, <3>1, EnrichOneEnriches
        <3> QED
            BY <3>2 DEF BufferIds
    <2>5. ASSUME NEW n \in Message, DispatchMessage(n)
          PROVE  FALSE
        <3>1. PICK d \in {0, 1} :
                 /\ d <= Len(msgs)
                 /\ Len(msgs') = Len(msgs) + 1 - d
                 /\ msgs'[Len(msgs')].id = n
                 /\ \A i \in 1 .. Len(msgs) - d : msgs'[i] = msgs[i + d]
            BY <2>1, <2>5, DispatchAppends
        <3>2. n # m
            BY <2>5 DEF DispatchMessage
        <3>3. Len(msgs) \in Nat
            BY <2>1
        <3>4. \A i \in 1 .. Len(msgs') : i # Len(msgs') =>
                 i + d \in 1 .. Len(msgs) /\ msgs'[i] = msgs[i + d]
            BY <3>1, <3>3
        <3> QED
            BY <3>1, <3>2, <3>4 DEF BufferIds
    <2>6. CASE Restart
        BY <2>6 DEF Restart, BufferIds
    <2>7. CASE Server
        BY <2>2, <2>7 DEF Server, ServerReceive, ServerSaveConfig,
                          ServerCommand, Publish, PublishLost
    <2>8. CASE Subscription
        BY <2>2, <2>8 DEF Subscription, LinkUp, LinkDown, Redeliver
    <2>9. CASE Seed
        BY <2>2, <2>3, <2>9 DEF Seed, SeedFetchMessages, SeedApplyMessages,
                                SeedMessagesFail, SeedFetchConfig,
                                SeedApplyConfig, SeedConfigFail
    <2>10. CASE Dispatch
        BY <2>2, <2>4, <2>5, <2>6, <2>10
           DEF Dispatch, DispatchDropped, DispatchConfig, DispatchEnd,
               DispatchCommand, DispatchRestart
    <2> QED
        BY <2>6, <2>7, <2>8, <2>9, <2>10 DEF Next
<1> QED
    BY Inductive, <1>1, PTL DEF Spec, EvictedStaysOut

============================================================================
