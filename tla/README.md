# Verification of the Lindsay-50 sign

TLA+ models of the Lindsay-50 heart sign: SMS and MMS messages reach a Flask
server, the server stores them and publishes them over MQTT, a Raspberry Pi
(and, in the browser, a preview of it) shows them on an LED matrix, the Pi
reports its status back to a dashboard, and it upgrades its own software. The
modules are checked with TLC on small instances; every safety property that a
run checks, the invariants, the action properties and the two refinements, is
also proved with TLAPS for every value of the constants.

## 1. Inventory of the system

| Component | Source | State it keeps | Operations | Interacts with |
|---|---|---|---|---|
| Display decision | `lib_shared/messages.py` 18-223 | none (pure) | `should_render_sender`, `_apply_filter`, `_matches`, `_enrich_messages` | MessageManager calls it per event |
| MessageManager | `lib_shared/message_manager.py`, `messages.py` 247-309 | ring buffer, seen ids, queue of fresh arrivals, config, sha of the applied config, command handlers | `seed`, `dispatch` (message, config, command), `get_messages`, `take_next_new_message` | REST API (seed), MQTT thread or WebSocket callback (dispatch), display loop (reads) |
| MQTT client | `lib_shared/paho_mqtt_client.py` | connection, subscription | `start`, `publish_envelope`, `stop` | broker; `dispatch` on its own thread |
| Effects coordinator | `lib_shared/effects_coordinator.py` | mode, current and on-deck message, current effect, one-shot media flag, hold wait | `tick`, `bind`, `start` | buffer, selector, event log, scroller, media cycler, live config |
| Selectors | `lib_shared/selector.py` | none | `build_eligible_messages`, `RandomSelector.pick`, `WeightedSelector.pick` | buffer, event log |
| Event log | `heart-matrix-controller/event_log.py` | bounded list and its file | `append`, `query`, `last_for`, `reload` | coordinator writes, selector reads |
| Media cycler | `lib_shared/patterns/media_cycler.py` | downloaded items, position, passes | `tick`, `_cycle_advance`, `_drop_item` | media API, coordinator |
| Loader | `heart-matrix-controller/loader.py` | worktrees, `current` symlink | stage, probe, swap, prune, exec | server (target), git, status file, child process |
| Update and power commands | `command_handlers.py`, `check_for_update.py` | environment of the process | `check_for_update`, `force_upgrade`, `restart`, `shutdown` | dispatch calls them; they exec the loader |
| Status | `status.py`, `status_publisher.py`, `sign_status.py`, `main.py` 152-332 | `.status.json`, publisher connection, last known status in memory and in SQLite | `StatusWriter.tick`, `publish`, `_on_status_payload`, restore at start, `/api/sign-status` | loader probe, broker, dashboard pill |
| Status pill | `static/sign_status.js` | latest snapshot, its source, the badge | load-time fetch, live message, render timer | `/api/sign-status`, WebSocket client |
| Ingest | `heart-message-manager/main.py` 402-779, `s3.py`, `sqlite.py` | SQLite, S3 log and media, in-flight table, worker pool | webhook, MMS worker, rebuild from S3 | Twilio, S3, MQTT |
| Config store | `main.py` 795-881, 1026-1068, 1404-1712, 1880-2324, `s3.py` 198-256, `config_migrations.py` | config row, S3 snapshots | PUT, settings form, rule forms, suppress and unsuppress, save, restore, migration and refresh at start | S3, MQTT |
| Sign settings | `main.py` 884-1149, `boot_config.py` | release metadata | target resolution, hint to the Pi | loader, settings page |
| WebSocket client | `static/mqtt_ws_client.js` | socket, timers, backoff, receive buffer | connect, ingest, CONNACK, SUBACK, pause | broker; `dispatch` in the browser, status pill |
| Dashboard pages, login, rendering, loaders of effects, helpers, preview, provisioning | see `PROJECT.json` | | | |

Which behaviours are hard, and what makes each part correct:

* **MessageManager** has two writers. The seed coroutine awaits two HTTP
  responses; the dispatcher runs on the MQTT thread (Pi) or in the event loop
  between the awaits (browser); the display loop reads with no lock. The broker
  delivers at least once, forgets everything at a disconnect (clean session),
  and the seed runs once per process. Correct means: nothing twice, nothing
  stale at rest, nothing lost except on the way.
* **Effects coordinator** is a state machine over six modes, driven by the
  clock, with state staged one cycle before it is used. Correct means: the
  cycle never sticks, everybody is shown, what is suppressed goes away.
* **Loader** is a sequence of git and symlink commands, each of which may fail
  or be cut short, that decides by a file another process writes. Correct
  means: the symlink names a version that is there, the app knows which, and
  every start of the loader ends.
* **Ingest** stores in three places in sequence, in a request thread or in a
  worker beside it, with keys that are one second wide, and its database is
  thrown away at each start. Correct means: what a display was sent can be
  restored, and one worker at a time serves an MMS.
* **Config store** reads, modifies and writes one document per request, from
  pages that may be old, and keeps three copies of it. Correct means: a copy
  differs only where its own write failed, and no edit takes away what its page
  did not show.
* **Status** passes one snapshot through a file, a broker, a server and a page
  that come and go independently. Correct means: "Live" is never a leftover,
  and once all parts stay up the page says so.
* **WebSocket client** has three overlapping timers and a stream that is cut
  anywhere. Correct means: envelopes in order and once, "paused" only after a
  long outage and always in one.

`PROJECT.json` lists each hazard at its line with the property that covers it,
or why none does.

## 2. Modules

| Module | Models | Remarks |
|---|---|---|
| `FilteredMessages` | the display decision | what a rule's pattern matches is a set of messages |
| `MessageManager` | one display process, the server as its peer, the subscription | extends `FilteredMessages`; `isBrowser` selects the boot order |
| `EffectsCoordinator` | display loop, selectors, event log, media flag | buffer and suppression are its environment; implements `Display` (`ImplementsDisplay`) |
| `Display` | what the sign promises about messages (abstract) | four variables: what is let through, what is eligible, next and on the panel |
| `Releases` | what an upgrade promises (abstract) | three variables: version in force, directories, running app |
| `Loader` | upgrade flow, probe child, supervisor, running app | implements `Releases` (`ImplementsReleases`) |
| `MessageStore` | webhook, MMS worker, S3 log and media, SQLite, publish, crash, rebuild | how a text gets into what `MessageManager` seeds from and is sent |
| `ConfigStore` | settings page and API, save, snapshots, start of the server | how a configuration gets there, and the target the loader asks for |
| `StatusPipeline` | status file, publisher, broker, server, page with the pill | |
| `MqttWsClient` | the browser's MQTT client | the link of the browser process of `MessageManager` and of the page of `StatusPipeline`, in detail |
| `MC...` | instances for TLC | one per component |
| `...Proofs` | theorems | one per component |
| `Iteration` | lemmas about loops, for the proof modules | a loop is a recursive function of the number of rounds |

How the modules correspond to the code:

* **`MessageManager`.** `ServerReceive`, `ServerSaveConfig` and `ServerCommand`
  are the part of a request up to its publish; `Publish` and `PublishLost` are
  `publish_envelope`. `SeedFetchMessages` ... `SeedConfigFail` are the two
  awaits of `seed()` and the synchronous stretch after each. A dispatch is
  `DispatchMessage` or `DispatchConfig` (up to the enrichment), one `EnrichOne`
  per view, and `DispatchEnd`, because the display loop can read in between;
  a seed stretch never overlaps a dispatch: on the Pi the client starts after
  the seed, in the browser both run in one event loop. A message is a model
  value; formatting fields of a view are left out. `missed` and `missedConfig`
  are history variables: what this process was never sent (lost by the broker
  or a failed publish, or not on the page of a seed).
* **`EffectsCoordinator`.** One action per mode and outcome of `_tick_inner`.
  Clock tests are choices: `StayTick` is a tick whose time is not up. The
  weighted score is modelled by the order it induces (`Outscores`), which holds
  for any times as long as the logged events are younger than half of
  `SATURATION_SECONDS`; between messages it does not order, the pick is open.
  `FadeRaises` is the division by `fade_seconds`: an exception ends the
  process, `systemd` starts another. Which rotation effect plays, colours and
  speeds are left out. `D` maps what the buffer lets through, the pool of the
  picks, `on_deck` and `current_message` to `Display`.
* **`Loader`.** `trees` says of each version whether its directory is absent,
  partial or whole; `Runs` which combinations of an app and a `lib_shared` run
  (a probe runs the staged app with the `lib_shared` of `current`). `PowerFails`
  may happen anywhere. The first installation, where `current` names the
  checkout itself, is taken for a version directory like the others: the prune
  leaves both alone.
  `Upgrade` maps the symlink, the directories in `trees` (partial ones
  included) and the version a running app was started from to `Releases`.
* **`MessageStore`.** A message is named by the delivery that makes it, since
  each processed delivery makes one with an id of its own. `ReceiveSms` and
  `ReceiveMms` are the handler up to the point where the paths part,
  `step` is where the processing stands, `request` which deliveries still
  occupy a gunicorn thread; `Answer` is the TwiML, which an MMS gets while its
  worker runs. Each call to S3, SQLite or the broker is an action with its
  failure as a disjunct, in the order of the code (log, database, publish). Log
  and media keys are seconds, as `_format_s3_key` and `_media_key` make them.
  `Crash` takes requests, jobs and the in-flight table; `Rebuild` empties the
  database and fills it from the log, up to a call that fails (`restored` is the
  first second it did not read). Entering the text in the in-flight table and
  handing the job to the pool are one step: a crash between them loses the
  entry and the job alike.
  `refused` and `published` are history.
* **`ConfigStore`.** A configuration keeps the fields whose updates differ:
  rules, senders, `messages_enabled`, pin, target, version. `Saves` is the
  handler up to `_save_and_publish`, with the read of the configuration at its
  beginning; `Put`, `Snapshot` and `Publish` are that function, of an operator
  or of the start (`Boot`). `page` is what the operators' browsers show, as old
  as it may be. A start is `Rebuild`, one of the migration actions, and the
  refresh, which is a save. `behind` is history: which copy a failed or pending
  call has left behind.
* **`StatusPipeline`.** Time is counted in the five-second period that the Pi
  and the page share, and a snapshot is its age. `due` holds who has not yet
  ticked in the period, and `Tick` waits for them and for deliveries older than
  a period, which is the timing assumption: within a period a live loop ticks,
  and what a connection carries arrives or is lost before the next one is over.
  A Pi of an old version publishes snapshots that lack keys and are dropped.
* **`MqttWsClient`.** A packet is a row of units so that a PUBLISH can be cut
  anywhere; `Receive(n)` is one WebSocket message of n units and everything
  `ingest` does with it: `Ingested` is its loop, `Taken` a round of it, which
  takes the first packet off the buffer when it is whole, and `HandleFrame` the
  dispatch on the packet's type. `gone` is `disconnectedSince`, `pauseIn` the pause
  timer. The growing backoff is any number of ticks. The `catch` of `onopen` is
  left out: `send` does not throw on a socket that has just opened.

How they fit together: `MessageStore` and `ConfigStore` are the two sources of
the envelopes and REST pages that `MessageManager` has as `ServerReceive` and
`ServerSaveConfig` (there one step each, store then publish, which is what
`StoredFirst` and `CopiesAgree` are about); its buffer is the environment of
`EffectsCoordinator`; its commands start `Loader`, whose target is what
`TargetFollowsPin` is about; the status file of `StatusPipeline` is the one the
probe of `Loader` reads.

## 3. Runs

Passing runs:

| Run | Instance and bounds | Shows |
|---|---|---|
| `manager` | Pi and browser; 3 messages of 2 senders, of which the saved config suppresses two; 2 configs; 1 command; `BufferLen = QueueLen = MaxWire = 2`; `SerialServer` | 3.7 million states: redelivery, eviction, outage, failed fetches and restarts in every order. The buffer is smaller than the number of messages, so eviction and the re-delivery of evicted messages happen |
| `coordinator` | a text and a captionless MMS, log of 2, `Fades = {0, 2}`, one relabelling or restart | 65 thousand states: no cycle sticks, suppressed messages leave, media and text fit the message on display, and the refinement of `Display`; a text and an MMS are what it takes for one to inherit what the other left |
| `each_shown` | a text, a captionless MMS, an MMS with a caption; log of 3; no restart | every message that stays eligible is shown |
| `loader` | 3 versions, one broken; `Keep = 2` | symlink, sha, end of each start, and the refinement of `Releases`; keeping one fewer than there are versions makes the prune matter, rollbacks included |
| `message_store` | an SMS once, an MMS of two attachments of two types up to twice, two deliveries in all (`MaxDeliveries`); one gunicorn thread, 4 workers; two seconds; two crashes | 0.8 million states: the downloads of an MMS run beside each other and end in any order, each failing by itself; two deliveries are an SMS and an MMS that meet in a second, or a retry during or after the worker; two seconds are enough for keys that collide and keys that do not, two crashes for one in each delivery and for a rebuild that undoes a cut one |
| `config_store` | two operators (symmetric), a message, a sender, two versions; `Keep = 1`; two seconds, two edits, two starts; one gunicorn thread | 3.7 million states: two edits are what it takes for a page to be old, two starts for a deploy after a save, `Keep = 1` lets each snapshot prune another |
| `status` | live below 2 periods, offline from 3; ages up to 3 | 0.6 million states: processes and connections come and go without a bound; ages above the last threshold are alike |
| `ws_client` | threshold of 3 ticks, a PUBLISH of 3 units, 2 packets per chunk, 3 envelopes | 16 thousand states: any cut of a packet, more packets in a chunk than one pass takes, connections without a bound |

Runs that refute a statement of the repository (one property each; the quoted
line is in `PROJECT.json`):

| Run | The code against its documentation |
|---|---|
| `retains_newest` | a full seed is inserted newest first, the first arrival evicts the newest message |
| `dead_child` | a staged version that dies at once passes its probe on an old status file |
| `stale_delete` | the delete button of a page rendered before its rule was removed is read as the settings form and switches `messages_enabled` off (three edits, one start) |
| `subscribes_again` | part of a packet left by the last socket swallows the CONNACK of the next, which is then never subscribed |

Each property of a passing run has a mutant: an operator beside the definition
it changes, named in `PROJECT.json`, under which TLC finds the property
violated. The mutants are bugs this code could plausibly have (an unbounded
list, a missing reset, a client started before the seed, a prune by age alone,
a guard that does not look, a target resolved once).

**Observations.** The models also show behaviour that no run is about:

* `seed()` clears the buffer after the fetch of the messages, so what the
  WebSocket brought during it is dropped, in the browser; `NothingElseLost`
  is therefore stated for the Pi, and the `/get` recovery that comments of the
  browser side mention is gone from `mqtt_ws_client.js`.
* The display loop may read a view between its insertion and its enrichment.
* A message that is suppressed while on deck is displayed once more, and the
  one-shot suppress flag survives a cycle without a message; `MediaIsPlayed`
  says why that costs no more than it should: nothing else was shown since.
* `fade_seconds = 0` is accepted and ends the process at each fade.
* Two messages, or two attachments of one type, of the same second share a key
  in S3; `ShownIsLogged`, `NotForgotten` and `MediaIsThere` say what remains
  true.
* An add form with a blank pattern falls through to the settings form like the
  delete of `stale_delete` (`AddBlankRule`); no other operator is needed for it.
* openspec/changes/browser-mqtt-simulation/specs/browser-mqtt-websocket-client/spec.md
  (73-92) measures an outage from the last `connected` and says that a short one
  does not carry `wasLongDisconnect`. The client (mqtt_ws_client.js:225-292,
  541-557) measures `paused` from the first close of the outage but the flag
  from the last open, so a short outage after a long connection is flagged.
  Nothing in `src/` but the client reads the flag. `PausedIsLong` holds under either reading of
  `paused`, and `PauseIsFlagged` says the other half: no reported outage ends
  without the flag.
* The rebuild removes the database that `_restore_last_known_status` reads
  afterwards, so after a start there is normally nothing to restore.
* A start during which S3 does not answer the rebuild comes up with the default
  configuration and saves that as the newest snapshot; when the migration's
  read of S3 fails as well, the process ends.

**Bounds.** `MaxWire` caps the envelopes in flight: two suffice for a
re-delivery behind a new envelope. `MaxChanges` caps configuration changes and
restarts of the coordinator; the liveness properties are about what happens
once they stop. `SerialServer` makes the server finish one request before the
next, as the gunicorn worker of the `Procfile` does, which has one thread
(`gthread` without `--threads`; `Threads = 1` in the other two modules). `LastSecond`, `MaxSaves`, `MaxStarts`,
`MaxCrashes`, `MaxDeliveries` and the retry budget end the runs of `MessageStore` and
`ConfigStore`, whose configurations therefore switch the check of deadlock off;
it is on in every other run.

**Fairness.** `EffectsCoordinator` has weak fairness of `Advance`: the main
loop ticks for ever, every pacing time is finite, and the deadline of the hold
wait is a clock reading. Nothing is assumed of arrivals, configs, the scroller
(`TextWraps`) or the media effect (`CyclerEnds`), which is the point of
`CycleGoesOn`. `Loader` has weak fairness of the steps of the loader itself:
each of its subprocess calls has a timeout. The child of a probe, the app, the
operator and the power are under no fairness. `MessageStore` has weak fairness
of the steps of each delivery: every network call of a step has a timeout, so a
thread that stands at a step makes it; nothing is assumed of Twilio, the clock
and the crashes. `StatusPipeline` assumes that time passes, timers fire, what
arrives is handled, a fetch ends, and that a Pi that writes for ever while
connected reaches every subscriber again and again, as a broker does that loses
some messages and not all; processes and connections are free. `MqttWsClient`
assumes that timers fire, an attempt to connect ends, what is in the stream
arrives and the broker answers; a socket may stay open or close at will.
`MessageManager` and `ConfigStore` state no liveness property: the code
promises none, since a lost envelope and a failed snapshot stay lost.

## 4. Proofs

Each proof module proves, from the assumptions named in the component's module
and for all values of its constants:

* `MessageManagerProofs` (any number of messages, any buffer and queue length,
  both runtimes): `TypeCorrect`, `NoDuplicates`, `QueuedAtMostOnce`,
  `EnrichmentIsCurrent`, `NothingIsForgotten`, `ConfigStaysCurrent` and the
  action property `EvictedForGood`, from `Inductive`. The invariant `IInv` adds to the types:
  ids in the buffer are distinct and seen, and so are the rows of a fetched
  page (`Unique`); views before the cursor of a handler, and all views when
  there is no handler, carry the current verdict (`Enriched`); the link of the
  Pi is down until its seed is done, which begins with nothing seen
  (`SeedsFirst`); each queued message was seen, is queued once, and is not the
  one under way (`Queued`); each stored message is seen, missed, in an envelope
  or on the page being applied (`Accounted`). For the configuration it says
  that a serial server saves only when nothing of its last save is left to send
  (`Serial`), that the last configuration on the wire is the newest
  (`NewestIsLast`), that the newest is applied, on the wire, in a seed under
  way or lost (`Followed`), and that the reported sha is that of the applied
  one (`Applied`); `ConfigStaysCurrent` has `SerialServer` as its hypothesis,
  without which two saves may publish in the other order. None of the
  properties is
  inductive alone: enrichment needs the cursor, the queue needs the message of
  the handler under way, and "nothing forgotten" needs the boot order.
* `EffectsCoordinatorProofs` (any messages, either selector, any fade times and
  log size): `TypeCorrect`, `PanelAlwaysFits`, the action property
  `MediaAlwaysPlayed` and the refinement `ShowsAsPromised`. `PanelFitsMessage`
  is inductive once the types are there: the lemmas `CyclerIsBuilt` and
  `DisplayIsLogged` say what the end of a fade leaves behind for the new
  message. `MediaAlwaysPlayed` needs `FlagIsFresh`, which ties the one-shot flag
  to the end of the event log. For the refinement, a pick is a choice of
  `Display` (`PicksAreChoices`), staging promotes a message that is let through
  (`StagedIsAllowed`), and every other tick stutters.
* `LoaderProofs` (any versions, any `Keep`): `LoaderTypeCorrect`,
  `CurrentIsNeverPruned`, `AppKnowsItsSha` and the refinement `UpgradeIsSafe`.
  The invariant says what each step of the loader has noted (`Pursuit`), that
  the target has a directory from the probe on and the symlink names one
  (`Present`), and that `local` is what `current_sha` answered for a symlink
  that has not moved since (`Handed`). The refinement shows that the initial
  state maps to an initial state and each action to a step of `Releases` or to
  a stutter; pruning needs the invariant to know that neither the version in
  force nor that of a running app is removed.
* `MessageStoreProofs` (any texts, attachments, threads, workers and bounds):
  `TypeCorrect`, `WorkerIsAlone`, `ShownStaysLogged`, `NothingForgotten`,
  `MediaStays` and `StoredBeforePublished`. The invariant ties a running worker
  to its entry in the table and the entry to at most one worker (`Guarded`),
  forbids work while the server is down (`Quiet`), ties the step of a delivery
  to what it has stored (`Stored`, `Untouched`), every entry of the log to the
  second of its message (`Keyed`), and a delivery past its log step to the log
  (`Logged`).
* `ConfigStoreProofs`: `TargetIsResolved`, for any number of threads, by who
  may have a request at which stage of the process; `CopiesAreTold` under
  `Threads = 1`: with two threads two saves may overtake each other between the
  database and the snapshot. It needs that the request under way is the only
  one and carries what the database holds. `TypeCorrect`, for any number of
  threads again, rests on lemmas about what each operation makes of a
  configuration (`EditedFilters`, `MigratedIsModern`, ...), the filter of the
  rules among them (`KeptIs`), and adds to the types that the program's own
  copies are of its version. `RulesAlwaysStay`, under `Threads = 1`, needs that
  an edit about to be stored still contains the rules that are stored
  (`Grown`).
* `StatusPipelineProofs` (any thresholds): `TypeCorrect`, `PillStaysHonest` and
  the action property `PageNeverGoesBack`. The invariant says that no copy of a
  snapshot, on the wire, in the server, in a row, in an answer or on the page,
  is younger than the file (`Copied`), and that a pill that says Live was
  rendered in this period or is still to be rendered in it (`Rendered`).
* `MqttWsClientProofs` (any threshold, units, frames and envelopes):
  `TypeCorrect`, `EnvelopesStayInOrder`, `PausedStaysLong` and
  `PausesAreFlagged`. The timer part of the invariant relates the two clocks
  `connected` and `gone`, the pause timer and the status. The stream part says
  that the units still to come, in the buffer and on the wire, are parts of
  packets whose envelopes ascend (`Wired`), and that they come after everything
  emitted (`Linked`); one round of the receive loop keeps it whatever is cut
  where, and so does the loop.

What recursive functions compute (the receive loop, the filter of the rules) is
proved in steps of `Iteration`: the induction theorems of the library take a
predicate as a parameter, which the provers cannot instantiate, so `NatReached`
states induction for a set of naturals, from the least element of what the set
misses; `LoopKeeps` and `LoopExists` follow from it.

The assumptions on constants are named in the components' modules. One of them
is there for a proof alone: the senders fit `MaxRules`, since the snapshot of
version 2 that a bucket may hold at first has a rule for each. `ConfigStaysCurrent`, `CopiesAreTold` and
`RulesAlwaysStay` have the serial server as hypothesis, which is how the
`Procfile` starts it; the model itself has the other servers as well.

Only model-checked are the liveness properties (`CycleGoesOn`, `BlockedLeaves`,
`EachIsShown`, `LoaderEnds`, `GuardIsReleased`, `Settles`, `OutageIsPaused`,
`SentIsEmitted`), which need fairness and `ENABLED` and are out of the prover's
reach.

## 5. Plan

1. Done: the seven components above, their runs, the refinements of `Releases`
   and `Display`, and a theorem for every safety property.
2. `Sign`: composition of `MessageManager` and `EffectsCoordinator`: the
   changes of the buffer that the one makes are the `Change` of `Display` that
   the other leaves to its environment.
3. An abstract specification of the server that stores before it publishes,
   which `MessageStore` implements.
4. `MediaCycler` with its dropped items and passes; the event log with its file
   and more messages than entries; the start limit of the unit in `Loader`.

## 6. What is not modelled, and why

* Rendering, the effects and the DOM of the dashboard pages: pixels and
  layout of state that other components own.
* Login, the string helpers for phones and names, the loaders of effects and
  configuration files: sequential code with unit tests and no state another
  part depends on.
* The local preview server and the scripts are tools of the developers; the
  browser preview runs the coordinator and the manager modelled here.
* Of the settings form, the validation of single fields and the fields that
  are stored just like those the model has. Of the webhook, the empty text,
  which changes nothing. `close()` of the WebSocket client has no caller.
* `take_next_new_message` has no caller outside the tests, so the queue it
  would drain only fills.
* Selector favorites (the coordinator is given none), the choice of the
  rotation effect, the order of the health states of a snapshot: no property
  is about them.
* The lock among several server processes in `rebuild_from_s3`: the `Procfile`
  starts one worker process.
