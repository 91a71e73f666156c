-------------------------- MODULE MessageManager --------------------------
(***************************************************************************)
(* The MessageManager of a display process (the Raspberry Pi, or the       *)
(* browser preview when isBrowser), with the server whose REST snapshot    *)
(* seeds it and the broker subscription that feeds it afterwards.          *)
(*                                                                         *)
(* Two writers touch the buffer: the seed coroutine, whose two fetches are *)
(* awaits, and the dispatcher (the paho thread, or the WebSocket callback  *)
(* of the browser).  A dispatch is several steps because another thread of *)
(* the Pi, the display loop, reads the buffer between them.                *)
(***************************************************************************)
EXTENDS FilteredMessages, Sequences, FiniteSets

CONSTANTS
    Config,         \* the configurations the operator saves
    DefaultConfig,  \* SignConfig(): what a new process starts with
    Malformed,      \* messages whose dict _coerce_message_dict rejects
    Registered,     \* command actions with a registered handler
    Action,         \* all command actions an envelope may carry
    BufferLen,      \* maxlen of the ring buffer and rows a seed takes
    QueueLen,       \* maxlen of the queue of fresh arrivals
    Runtimes,       \* the values of is_browser in the model
    SerialServer,   \* the server finishes one request before the next
    MaxWire         \* bound: envelopes in flight to this subscriber

ASSUME ConfigAssumption == DefaultConfig \in Config
ASSUME MalformedAssumption == Malformed \subseteq Message
ASSUME ActionAssumption == Registered \subseteq Action
ASSUME BoundAssumption ==
    /\ BufferLen \in Nat \ {0}
    /\ QueueLen \in Nat \ {0}
    /\ MaxWire \in Nat
    /\ Runtimes \subseteq BOOLEAN
    /\ SerialServer \in BOOLEAN

VARIABLES
    isBrowser,      \* the constructor's is_browser: browser preview or Pi
    store,          \* server: the messages in SQLite
    serverConfig,   \* server: the saved configuration
    outbox,         \* server: envelopes whose request has yet to publish
    link,           \* is this process subscribed to the topic?
    wire,           \* envelopes the broker has for this subscription
    seedPc,         \* where the seed coroutine stands
    rows,           \* the coerced rows of the /api/messages response
    fetchedConfig,  \* the /api/config response
    config,         \* MessageManager._config
    appliedSha,     \* MessageManager._last_applied_config_sha
    msgs,           \* InMemoryMessages._msgs, oldest insertion first
    seenIds,        \* InMemoryMessages._seen_ids
    newQueue,       \* MessageManager._new_messages_queue
    dispatchPc,     \* where the dispatcher stands in its handler
    cursor,         \* next position _enrich_messages will treat
    missed,         \* history: messages this process was never sent
    missedConfig    \* history: the newest configuration was never sent

serverVars == <<store, serverConfig, outbox>>
brokerVars == <<link, wire>>
seedVars == <<seedPc, rows, fetchedConfig>>
configVars == <<config, appliedSha>>
bufferVars == <<msgs, seenIds, newQueue>>
dispatchVars == <<dispatchPc, cursor>>
missVars == <<missed, missedConfig>>
vars == <<isBrowser, serverVars, brokerVars, seedVars, configVars, bufferVars,
          dispatchVars, missVars>>

MessageEnvelope(m) == [type |-> "message", payload |-> m]
ConfigEnvelope(c) == [type |-> "config", payload |-> c]
CommandEnvelope(a) == [type |-> "command", payload |-> a]

Envelope ==
    {MessageEnvelope(m) : m \in Message} \union
    {ConfigEnvelope(c) : c \in Config} \union
    {CommandEnvelope(a) : a \in Action}

View == [id : Message, suppressed : BOOLEAN]

OnWire == {wire[i] : i \in 1 .. Len(wire)}
BufferIds == {msgs[i].id : i \in 1 .. Len(msgs)}

\* The ids get_messages(suppress=True) returns to a reader right now.
ReadableIds == {msgs[i].id : i \in {j \in 1 .. Len(msgs) : ~msgs[j].suppressed}}

\* A mutant of Push: a list in the place of the bounded deque.
PushUnbounded(q, x, n) == Append(q, x)

\* deque(maxlen=n).append(x): the oldest entry makes room.
Push(q, x, n) == IF Len(q) < n THEN Append(q, x) ELSE Append(Tail(q), x)

----------------------------------------------------------------------------
\* The server: requests store first and publish later, on their own threads.

\* data[:100] of /api/messages: a newest-first page of the store, in which
\* equal stamps come in any order.
IsPage(page, stored) ==
    /\ Cardinality(page) = IF Cardinality(stored) < BufferLen
                           THEN Cardinality(stored) ELSE BufferLen
    /\ \A p \in page, q \in stored \ page : ReceivedAt[p] >= ReceivedAt[q]

\* The rows left of a page after _coerce_message_dict, still newest first.
CoercedRows(page) ==
    LET kept == page \ Malformed IN
    {r \in [1 .. Cardinality(kept) -> kept] :
        /\ \A m \in kept : \E i \in DOMAIN r : r[i] = m
        /\ \A i, j \in DOMAIN r :
              i < j => r[i] # r[j] /\ ReceivedAt[r[i]] >= ReceivedAt[r[j]]}

\* An inbound message is stored; its publish is still to come.
ServerReceive(m) ==
    /\ m \notin store
    /\ SerialServer => /\ outbox = {}
                       /\ \A n \in store : ReceivedAt[n] <= ReceivedAt[m]
    /\ store' = store \union {m}
    /\ outbox' = outbox \union {MessageEnvelope(m)}
    /\ UNCHANGED <<isBrowser, serverConfig, brokerVars, seedVars,
                   configVars, bufferVars, dispatchVars, missVars>>

\* _save_and_publish up to its publish.
ServerSaveConfig(c) ==
    /\ c # serverConfig
    /\ SerialServer => outbox = {}
    /\ serverConfig' = c
    /\ outbox' = outbox \union {ConfigEnvelope(c)}
    /\ UNCHANGED <<isBrowser, store, brokerVars, seedVars, configVars,
                   bufferVars, dispatchVars, missVars>>

ServerCommand(a) ==
    /\ SerialServer => outbox = {}
    /\ outbox' = outbox \union {CommandEnvelope(a)}
    /\ UNCHANGED <<isBrowser, store, serverConfig, brokerVars, seedVars,
                   configVars, bufferVars, dispatchVars, missVars>>

\* publish_envelope reached this subscription.
Publish(e) ==
    /\ e \in outbox
    /\ link = "up"
    /\ Len(wire) < MaxWire
    /\ outbox' = outbox \ {e}
    /\ wire' = Append(wire, e)
    /\ missedConfig' = (missedConfig /\ e # ConfigEnvelope(serverConfig))
    /\ UNCHANGED <<isBrowser, store, serverConfig, link, seedVars,
                   configVars, bufferVars, dispatchVars, missed>>

\* What the loss of the envelopes in es adds to the history variables.
Lose(es) ==
    /\ missed' = missed \union
                 {m \in Message \ seenIds : MessageEnvelope(m) \in es}
    /\ missedConfig' = (missedConfig \/ ConfigEnvelope(serverConfig) \in es)

\* publish_envelope failed (its result is only logged), or nobody listened.
PublishLost(e) ==
    /\ e \in outbox
    /\ outbox' = outbox \ {e}
    /\ Lose({e})
    /\ UNCHANGED <<isBrowser, store, serverConfig, brokerVars, seedVars,
                   configVars, bufferVars, dispatchVars>>

----------------------------------------------------------------------------
\* The subscription: a clean session, QoS 1, retried for ever.

\* A mutant of LinkUp: the Pi starts its client before it seeds.
LinkUpBeforeSeed ==
    /\ link = "down"
    /\ link' = "up"
    /\ UNCHANGED <<isBrowser, serverVars, wire, seedVars, configVars,
                   bufferVars, dispatchVars, missVars>>

\* The Pi starts its client after asyncio.run(manager.seed()) has returned;
\* the browser starts it before its page awaits the seed.
LinkUp ==
    /\ link = "down"
    /\ isBrowser \/ seedPc = "done"
    /\ link' = "up"
    /\ UNCHANGED <<isBrowser, serverVars, wire, seedVars, configVars,
                   bufferVars, dispatchVars, missVars>>

\* clean_session=True: the broker forgets what it had for this subscriber.
LinkDown ==
    /\ link = "up"
    /\ link' = "down"
    /\ wire' = <<>>
    /\ Lose(OnWire)
    /\ UNCHANGED <<isBrowser, serverVars, seedVars, configVars, bufferVars,
                   dispatchVars>>

\* QoS 1 is at least once: the broker sends an envelope again.
Redeliver ==
    /\ wire # <<>>
    /\ Len(wire) < MaxWire
    /\ wire' = <<Head(wire)>> \o wire
    /\ UNCHANGED <<isBrowser, serverVars, link, seedVars, configVars,
                   bufferVars, dispatchVars, missVars>>

----------------------------------------------------------------------------
\* seed(): two awaits, each followed by a synchronous stretch.  A failed
\* fetch is logged and the coroutine goes on.

\* Enrich the whole buffer under cfg; the response is of no more use.
EndSeedConfig(cfg) ==
    /\ msgs' = [i \in 1 .. Len(msgs) |->
                  [msgs[i] EXCEPT !.suppressed = Suppressed(cfg, msgs[i].id)]]
    /\ fetchedConfig' = DefaultConfig
    /\ seedPc' = "done"

SeedFetchMessages ==
    /\ seedPc = "fetch_messages"
    /\ \E page \in SUBSET store :
         /\ IsPage(page, store)
         /\ rows' \in CoercedRows(page)
         /\ missed' = store \ (page \union seenIds)
    /\ seedPc' = "apply_messages"
    /\ UNCHANGED <<isBrowser, serverVars, brokerVars, fetchedConfig,
                   configVars, bufferVars, dispatchVars, missedConfig>>

\* A mutant of SeedApplyMessages: the rows go into the buffer and not into the
\* seen ids.
SeedApplyUnseen ==
    /\ seedPc = "apply_messages"
    /\ dispatchPc = "idle"
    /\ msgs' = [i \in 1 .. Len(rows) |-> [id |-> rows[i], suppressed |-> FALSE]]
    /\ seenIds' = {}
    /\ rows' = <<>>
    /\ seedPc' = "fetch_config"
    /\ UNCHANGED <<isBrowser, serverVars, brokerVars, fetchedConfig,
                   configVars, newQueue, dispatchVars, missVars>>

\* clear() then add_many(): the ids and the buffer start over.
SeedApplyMessages ==
    /\ seedPc = "apply_messages"
    /\ dispatchPc = "idle"
    /\ msgs' = [i \in 1 .. Len(rows) |-> [id |-> rows[i], suppressed |-> FALSE]]
    /\ seenIds' = {rows[i] : i \in 1 .. Len(rows)}
    /\ rows' = <<>>
    /\ seedPc' = "fetch_config"
    /\ UNCHANGED <<isBrowser, serverVars, brokerVars, fetchedConfig,
                   configVars, newQueue, dispatchVars, missVars>>

SeedMessagesFail ==
    /\ seedPc \in {"fetch_messages", "apply_messages"}
    /\ dispatchPc = "idle"
    /\ rows' = <<>>
    /\ missed' = missed \union (store \ seenIds)
    /\ seedPc' = "fetch_config"
    /\ UNCHANGED <<isBrowser, serverVars, brokerVars, fetchedConfig,
                   configVars, bufferVars, dispatchVars, missedConfig>>

SeedFetchConfig ==
    /\ seedPc = "fetch_config"
    /\ fetchedConfig' = serverConfig
    /\ missedConfig' = FALSE
    /\ seedPc' = "apply_config"
    /\ UNCHANGED <<isBrowser, serverVars, brokerVars, rows, configVars,
                   bufferVars, dispatchVars, missed>>

\* A mutant of SeedApplyConfig: the REST path leaves the reported sha alone,
\* the bug of issue #71.
SeedConfigNoSha ==
    /\ seedPc = "apply_config"
    /\ dispatchPc = "idle"
    /\ config' = fetchedConfig
    /\ EndSeedConfig(fetchedConfig)
    /\ UNCHANGED <<isBrowser, serverVars, brokerVars, rows, appliedSha,
                   seenIds, newQueue, dispatchVars, missVars>>

SeedApplyConfig ==
    /\ seedPc = "apply_config"
    /\ dispatchPc = "idle"
    /\ config' = fetchedConfig
    /\ appliedSha' = fetchedConfig.sha
    /\ EndSeedConfig(fetchedConfig)
    /\ UNCHANGED <<isBrowser, serverVars, brokerVars, rows, seenIds,
                   newQueue, dispatchVars, missVars>>

SeedConfigFail ==
    /\ seedPc \in {"fetch_config", "apply_config"}
    /\ dispatchPc = "idle"
    /\ missedConfig' = TRUE
    /\ EndSeedConfig(config)
    /\ UNCHANGED <<isBrowser, serverVars, brokerVars, rows, configVars,
                   seenIds, newQueue, dispatchVars, missed>>

----------------------------------------------------------------------------
\* dispatch(): one envelope at a time, in the order the broker sent them.

\* The envelope e is at the head of the subscription and the handler free.
Arrives(e) == dispatchPc = "idle" /\ wire # <<>> /\ e = Head(wire)

\* A mutant of DispatchMessage: only what is in the buffer is a duplicate.
DispatchUnbuffered(m) ==
    /\ Arrives(MessageEnvelope(m))
    /\ m \notin Malformed
    /\ m \notin BufferIds
    /\ wire' = Tail(wire)
    /\ seenIds' = seenIds \union {m}
    /\ msgs' = Push(msgs, [id |-> m, suppressed |-> FALSE], BufferLen)
    /\ dispatchPc' = "message"
    /\ cursor' = Len(msgs')
    /\ UNCHANGED <<isBrowser, serverVars, link, seedVars, configVars,
                   newQueue, missVars>>

\* _handle_message for a message not seen before: add() appends a view whose
\* suppressed flag is still the constructor's False.
DispatchMessage(m) ==
    /\ Arrives(MessageEnvelope(m))
    /\ m \notin Malformed
    /\ m \notin seenIds
    /\ wire' = Tail(wire)
    /\ seenIds' = seenIds \union {m}
    /\ msgs' = Push(msgs, [id |-> m, suppressed |-> FALSE], BufferLen)
    /\ dispatchPc' = "message"
    /\ cursor' = Len(msgs')
    /\ UNCHANGED <<isBrowser, serverVars, link, seedVars, configVars,
                   newQueue, missVars>>

\* A mutant of DispatchDropped: a re-delivery is queued as a fresh arrival.
RequeueDropped(m) ==
    /\ Arrives(MessageEnvelope(m))
    /\ m \in Malformed \union seenIds
    /\ wire' = Tail(wire)
    /\ newQueue' = Push(newQueue, m, QueueLen)
    /\ UNCHANGED <<isBrowser, serverVars, link, seedVars, configVars, msgs,
                   seenIds, dispatchVars, missVars>>

\* A malformed message, or a re-delivery add() drops.
DispatchDropped(m) ==
    /\ Arrives(MessageEnvelope(m))
    /\ m \in Malformed \union seenIds
    /\ wire' = Tail(wire)
    /\ UNCHANGED <<isBrowser, serverVars, link, seedVars, configVars,
                   bufferVars, dispatchVars, missVars>>

\* A mutant of DispatchConfig: only the newest view is enriched again.
ConfigEnrichesLast(c) ==
    /\ Arrives(ConfigEnvelope(c))
    /\ wire' = Tail(wire)
    /\ config' = c
    /\ appliedSha' = c.sha
    /\ dispatchPc' = "config"
    /\ cursor' = IF msgs = <<>> THEN 1 ELSE Len(msgs)
    /\ UNCHANGED <<isBrowser, serverVars, link, seedVars, bufferVars,
                   missVars>>

\* _handle_config up to its re-enrichment of the whole buffer.
DispatchConfig(c) ==
    /\ Arrives(ConfigEnvelope(c))
    /\ wire' = Tail(wire)
    /\ config' = c
    /\ appliedSha' = c.sha
    /\ dispatchPc' = "config"
    /\ cursor' = 1
    /\ UNCHANGED <<isBrowser, serverVars, link, seedVars, bufferVars,
                   missVars>>

\* One iteration of the loop of _enrich_messages.
EnrichOne ==
    /\ dispatchPc # "idle"
    /\ cursor <= Len(msgs)
    /\ msgs' = [msgs EXCEPT ![cursor].suppressed =
                                Suppressed(config, msgs[cursor].id)]
    /\ cursor' = cursor + 1
    /\ UNCHANGED <<isBrowser, serverVars, brokerVars, seedVars, configVars,
                   seenIds, newQueue, dispatchPc, missVars>>

\* The rest of the handler: a new message joins the queue of fresh arrivals.
DispatchEnd ==
    /\ dispatchPc # "idle"
    /\ cursor > Len(msgs)
    /\ newQueue' = IF dispatchPc = "message"
                   THEN Push(newQueue, msgs[Len(msgs)].id, QueueLen)
                   ELSE newQueue
    /\ dispatchPc' = "idle"
    /\ cursor' = 0
    /\ UNCHANGED <<isBrowser, serverVars, brokerVars, seedVars, configVars,
                   msgs, seenIds, missVars>>

\* A command nobody registered for, or whose handler returned or raised.
DispatchCommand(a) ==
    /\ Arrives(CommandEnvelope(a))
    /\ wire' = Tail(wire)
    /\ UNCHANGED <<isBrowser, serverVars, link, seedVars, configVars,
                   bufferVars, dispatchVars, missVars>>

\* A new process: nothing of the manager's state outlives the old one.
Restart ==
    /\ link' = "down"
    /\ wire' = <<>>
    /\ seedPc' = "fetch_messages"
    /\ rows' = <<>>
    /\ fetchedConfig' = DefaultConfig
    /\ config' = DefaultConfig
    /\ appliedSha' = DefaultConfig.sha
    /\ msgs' = <<>>
    /\ seenIds' = {}
    /\ newQueue' = <<>>
    /\ dispatchPc' = "idle"
    /\ cursor' = 0
    /\ missed' = {}
    /\ missedConfig' = FALSE
    /\ UNCHANGED <<isBrowser, serverVars>>

\* The four registered handlers all end in an exec or a reboot.
DispatchRestart(a) ==
    /\ Arrives(CommandEnvelope(a))
    /\ a \in Registered
    /\ Restart

----------------------------------------------------------------------------
Init ==
    /\ isBrowser \in Runtimes
    /\ store = {}
    /\ serverConfig = DefaultConfig
    /\ outbox = {}
    /\ link = "down"
    /\ wire = <<>>
    /\ seedPc = "fetch_messages"
    /\ rows = <<>>
    /\ fetchedConfig = DefaultConfig
    /\ config = DefaultConfig
    /\ appliedSha = DefaultConfig.sha
    /\ msgs = <<>>
    /\ seenIds = {}
    /\ newQueue = <<>>
    /\ dispatchPc = "idle"
    /\ cursor = 0
    /\ missed = {}
    /\ missedConfig = FALSE

Server ==
    \/ \E m \in Message : ServerReceive(m)
    \/ \E c \in Config : ServerSaveConfig(c)
    \/ \E a \in Action : ServerCommand(a)
    \/ \E e \in Envelope : Publish(e) \/ PublishLost(e)

Subscription == LinkUp \/ LinkDown \/ Redeliver

Seed ==
    \/ SeedFetchMessages
    \/ SeedApplyMessages
    \/ SeedMessagesFail
    \/ SeedFetchConfig
    \/ SeedApplyConfig
    \/ SeedConfigFail

Dispatch ==
    \/ \E m \in Message : DispatchMessage(m) \/ DispatchDropped(m)
    \/ \E c \in Config : DispatchConfig(c)
    \/ EnrichOne
    \/ DispatchEnd
    \/ \E a \in Action : DispatchCommand(a) \/ DispatchRestart(a)

Next == Server \/ Subscription \/ Seed \/ Dispatch \/ Restart

Spec == Init /\ [][Next]_vars

----------------------------------------------------------------------------
TypeOK ==
    /\ isBrowser \in BOOLEAN
    /\ store \subseteq Message
    /\ serverConfig \in Config
    /\ outbox \subseteq Envelope
    /\ link \in {"up", "down"}
    /\ wire \in Seq(Envelope)
    /\ seedPc \in {"fetch_messages", "apply_messages", "fetch_config",
                   "apply_config", "done"}
    /\ rows \in Seq(Message) /\ Len(rows) <= BufferLen
    /\ fetchedConfig \in Config
    /\ config \in Config
    /\ msgs \in Seq(View) /\ Len(msgs) <= BufferLen
    /\ seenIds \subseteq Message
    /\ newQueue \in Seq(Message) /\ Len(newQueue) <= QueueLen
    /\ dispatchPc \in {"idle", "message", "config"}
    /\ cursor \in Nat
    /\ missed \subseteq Message
    /\ missedConfig \in BOOLEAN

----------------------------------------------------------------------------
\* The ring buffer never shows a message twice, and every message in it is
\* one add() would recognise if it came again: whatever the seed and the
\* subscription deliver, in whatever order, and however often.
NoDuplicateIds ==
    /\ \A i, j \in 1 .. Len(msgs) : msgs[i].id = msgs[j].id => i = j
    /\ BufferIds \subseteq seenIds

\* A message joins the queue of fresh arrivals once per process of the Pi,
\* although the broker may deliver it again and again.
QueuedOnce ==
    ~isBrowser => \A i, j \in 1 .. Len(newQueue) :
                     newQueue[i] = newQueue[j] => i = j

\* Outside a handler, and outside the seed's stretch between its two fetches,
\* every buffered view carries the verdict of the configuration in force:
\* no earlier config and no missing enrichment shows through.
EnrichedAtRest ==
    dispatchPc = "idle" /\ seedPc \notin {"fetch_config", "apply_config"} =>
        \A i \in 1 .. Len(msgs) :
            msgs[i].suppressed = Suppressed(config, msgs[i].id)

\* After its seed the Pi knows every well-formed message the server stored,
\* except those still on their way to it and those the broker or a failed
\* publish lost: the seed, its failures and the eviction lose nothing more.
NothingElseLost ==
    ~isBrowser /\ seedPc = "done" =>
        \A m \in store \ Malformed :
            \/ m \in seenIds \union missed
            \/ MessageEnvelope(m) \in outbox \union OnWire

\* Once no configuration is on its way and the newest one was not lost, the
\* Pi runs the configuration the server saved, and reports its sha.
ConfigCurrent ==
    /\ ~isBrowser
    /\ seedPc = "done"
    /\ ~missedConfig
    /\ \A c \in Config : ConfigEnvelope(c) \notin outbox \union OnWire
    => config = serverConfig /\ appliedSha = serverConfig.sha

\* A message the ring buffer evicted does not come back, short of a seed
\* that starts the buffer over: seenIds outlives the eviction.
EvictedStaysOut ==
    [][\A m \in seenIds \ BufferIds :
          m \in BufferIds' => seedPc = "apply_messages"]_vars

\* get_messages returns the most recent messages (messages.py:293): no
\* message this process was given and no longer holds is newer than one it
\* holds.
RetainsNewest ==
    \A m \in seenIds \ BufferIds, b \in BufferIds :
        ReceivedAt[m] <= ReceivedAt[b]

===========================================================================
