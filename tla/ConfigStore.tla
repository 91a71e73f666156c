---------------------------- MODULE ConfigStore ----------------------------
(***************************************************************************)
(* The configuration of the sign on the server: the pages and the API that *)
(* change it, the save that stores it in SQLite, takes a snapshot in S3    *)
(* and publishes it, and the start of the server, which restores it from   *)
(* the newest snapshot, migrates it and saves it again.  Every call may    *)
(* fail and the server may crash between two of them; an operator acts on  *)
(* a page rendered some time ago.  The hint to the Pi that follows a       *)
(* changed pin is a command, which MessageManager has (ServerCommand).     *)
(***************************************************************************)
EXTENDS Naturals, Sequences, FiniteSets, SequencesExt

CONSTANTS
    Messages,       \* messages a rule of type `message` may name
    Senders,        \* senders, who have a list of their own and, up to
                    \* version 2, rules of type `sender`
    Shas,           \* versions of the program
    Inherit,        \* the empty pin: the version the server runs
    Operator,       \* who edits, in the browser or through the API
    Boot,           \* the start of the server, which saves like an operator
    None,
    Threads,        \* gunicorn threads
    Keep,           \* snapshots that are kept
    LastSecond,     \* bound on the clock
    MaxRules,       \* bound on the rules of a configuration
    MaxSaves,       \* bound on the edits
    MaxStarts       \* bound on the starts of the server

Actor == Operator \union {Boot}
Second == 0 .. LastSecond

ASSUME NameAssumption ==
    /\ Messages \intersect Senders = {}
    /\ Inherit \notin Shas
    /\ Boot \notin Operator
ASSUME BoundAssumption ==
    /\ {Threads, Keep} \subseteq Nat \ {0}
    /\ IsFiniteSet(Operator)
    /\ IsFiniteSet(Senders) /\ Cardinality(Senders) <= MaxRules
    /\ {LastSecond, MaxRules, MaxSaves, MaxStarts} \subseteq Nat

VARIABLES
    now,        \* the clock of the server, in seconds
    running,    \* the version of the program the server runs
    stage,      \* of the process: down, migrate, refresh, up
    config,     \* SQLite: the stored configuration
    snapshots,  \* S3 config/: the content of each key there is, a second
    published,  \* the configuration of the last envelope handed to the broker
    page,       \* the configuration an open page was rendered from
    request,    \* actor -> the save it has under way: where it is, what it saves
    behind,     \* which of the snapshot and the envelope lag behind SQLite
    saves,      \* edits so far
    starts      \* starts so far

vars == <<now, running, stage, config, snapshots, published, page, request,
          behind, saves, starts>>

----------------------------------------------------------------------------
\* Configurations.

Rule == Messages \union Senders
Pins == Shas \union {Inherit}

Configuration ==
    [filters : BoundedSeq(Rule, MaxRules),
     senders : [Senders -> {"absent", "allowed", "blocked"}],
     showing : BOOLEAN,               \* messages_enabled
     pin : Pins,                      \* pinned_version
     target : Pins,                   \* target_version
     version : {2, 3}]

Default == [filters |-> <<>>, senders |-> [s \in Senders |-> "absent"],
            showing |-> TRUE, pin |-> Inherit, target |-> Inherit,
            version |-> 3]

\* The rules of s that are in K, in their order.
Kept(s, K) ==
    LET kept[i \in 0 .. Len(s)] ==
            IF i = 0 THEN <<>>
            ELSE IF s[i] \in K THEN Append(kept[i - 1], s[i])
                               ELSE kept[i - 1]
    IN kept[Len(s)]

\* A mutant of Migrated: the version is not raised.
MigratedUnmarked(c) ==
    IF c.version = 3 THEN c
    ELSE [c EXCEPT
            !.filters = Kept(@, Messages),
            !.senders = [s \in Senders |-> "blocked"]]

\* _v2_to_v3: a rule about a sender becomes an entry of the senders list.
Migrated(c) ==
    IF c.version = 3 THEN c
    ELSE [c EXCEPT
            !.filters = Kept(@, Messages),
            !.senders = [s \in Senders |->
                IF @[s] = "absent" /\ s \in ToSet(c.filters) THEN "blocked"
                                                            ELSE @[s]],
            !.version = 3]

\* A mutant of Resolved: a target that is there already is kept.
ResolvedOnce(c) ==
    [c EXCEPT !.target = IF @ # Inherit THEN @
                         ELSE IF c.pin = Inherit THEN running ELSE c.pin]

\* _resolve_pinned_to_target: an empty pin means the version the server runs.
Resolved(c) ==
    [c EXCEPT !.target = IF c.pin = Inherit THEN running ELSE c.pin]

\* The keys sort by time.
Newest(files) ==
    files[CHOOSE s \in DOMAIN files : \A t \in DOMAIN files : t <= s]

\* The upload of a snapshot, which replaces one of the same second.
With(files, c) ==
    [s \in DOMAIN files \union {now} |-> IF s = now THEN c ELSE files[s]]

\* A mutant of Pruned: the keys are taken from the other end.
PrunedNewest(files) ==
    Restrict(files, {s \in DOMAIN files :
                       Cardinality({t \in DOMAIN files : t < s}) < Keep})

\* _prune_config_snapshots keeps the last keys.
Pruned(files) ==
    Restrict(files, {s \in DOMAIN files :
                       Cardinality({t \in DOMAIN files : t > s}) < Keep})

----------------------------------------------------------------------------
\* Requests.

Tick ==
    /\ now < LastSecond
    /\ now' = now + 1
    /\ UNCHANGED <<running, stage, config, snapshots, published, page,
                   request, behind, saves, starts>>

\* GET of /settings, /messages or /api/config.
OpenPage ==
    /\ stage = "up"
    /\ page # config
    /\ page' = config
    /\ UNCHANGED <<now, running, stage, config, snapshots, published,
                   request, behind, saves, starts>>

Idle == [at |-> "idle", edit |-> "none", new |-> None]

\* A thread serves an edit that has read the configuration and made c of it.
Saves(o, edit, c) ==
    /\ stage = "up"
    /\ request[o] = Idle
    /\ Cardinality({p \in Operator : request[p] # Idle}) < Threads
    /\ saves < MaxSaves
    /\ saves' = saves + 1
    /\ request' = [request EXCEPT ![o] = [at |-> "put", edit |-> edit, new |-> c]]
    /\ UNCHANGED <<now, running, stage, config, snapshots, published, page,
                   behind, starts>>

\* What is left when a form without the fields of the settings form is read
\* as one.
BlankForm(c) ==
    [c EXCEPT !.senders = [s \in Senders |-> "absent"], !.showing = FALSE,
              !.pin = Inherit]

\* _suppress_message; a rule that is there already is not saved again.
Suppress(o, m) ==
    /\ m \notin ToSet(config.filters)
    /\ Len(config.filters) < MaxRules
    /\ Saves(o, "suppress", [config EXCEPT !.filters = Append(@, m)])

Unsuppress(o, m) ==
    /\ m \in ToSet(config.filters)
    /\ Saves(o, "unsuppress", [config EXCEPT !.filters = Kept(@, Rule \ {m})])

\* The add form of the settings page, which does not look for a twin.
AddRule(o, m) ==
    /\ Len(config.filters) < MaxRules
    /\ Saves(o, "add", [config EXCEPT !.filters = Append(@, m)])

\* Its pattern is blank: the handler goes on to the settings form.
AddBlankRule(o) == Saves(o, "add", BlankForm(config))

\* The button beside rule i of the page; an index that is past the end by now
\* lets the handler go on to the settings form as well.
DeleteRule(o) ==
    \E i \in 1 .. Len(page.filters) :
        Saves(o, "delete", IF i <= Len(config.filters)
                 THEN [config EXCEPT !.filters = RemoveAt(@, i)]
                 ELSE BlankForm(config))

\* A mutant of SubmitForm: the rules are those of the page as well.
SubmitFormWithRules(o) ==
    \E senders \in [Senders -> {"absent", "allowed", "blocked"}] :
        Saves(o, "form", [page EXCEPT !.senders = senders])

\* The settings form: what the page showed, edited, but the rules as stored.
SubmitForm(o) ==
    \E senders \in [Senders -> {"absent", "allowed", "blocked"}], pin \in Pins :
        /\ senders = page.senders \/ pin = page.pin
        /\ Saves(o, "form", [config EXCEPT !.senders = senders, !.pin = pin,
                                   !.showing = page.showing])

\* PUT /api/config replaces the whole by what the client made of its copy.
PutWhole(o) ==
    \E shown \in BOOLEAN : Saves(o, "whole", [page EXCEPT !.showing = shown])

----------------------------------------------------------------------------
\* _save_and_publish, of an operator or at the start.

\* The start is over when its save is, whatever became of it.
Over(a) ==
    /\ request' = [request EXCEPT ![a] = Idle]
    /\ stage' = IF a = Boot THEN "up" ELSE stage

\* put_config; when it raises the request ends in an error.
Put(a) ==
    /\ request[a].at = "put"
    /\ \/ /\ config' = Resolved(request[a].new)
          /\ behind' = {"snapshot", "envelope"}
          /\ request' = [request EXCEPT ![a] =
                            [at |-> "snapshot", edit |-> @.edit, new |-> config']]
          /\ UNCHANGED stage
       \/ /\ Over(a)
          /\ behind' = IF a = Boot THEN behind \union {"target"} ELSE behind
          /\ UNCHANGED config
    /\ UNCHANGED <<now, running, snapshots, published, page, saves, starts>>

\* save_config_snapshot: the upload or the pruning may fail, which is only
\* logged.
Snapshot(a) ==
    /\ request[a].at = "snapshot"
    /\ LET written == With(snapshots, request[a].new) IN
       \/ UNCHANGED <<snapshots, behind>>
       \/ /\ snapshots' \in {written, Pruned(written)}
          /\ behind' = behind \ {"snapshot"}
    /\ request' = [request EXCEPT ![a] =
                      [at |-> "publish", edit |-> @.edit, new |-> @.new]]
    /\ UNCHANGED <<now, running, stage, config, published, page, saves,
                   starts>>

\* publish_envelope, which may fail.
Publish(a) ==
    /\ request[a].at = "publish"
    /\ \/ UNCHANGED <<published, behind>>
       \/ /\ published' = request[a].new
          /\ behind' = behind \ {"envelope"}
    /\ Over(a)
    /\ UNCHANGED <<now, running, config, snapshots, page, saves, starts>>

----------------------------------------------------------------------------
\* The process.

Crash ==
    /\ stage # "down"
    /\ stage' = "down"
    /\ request' = [a \in Actor |-> Idle]
    /\ UNCHANGED <<now, running, config, snapshots, published, page, behind,
                   saves, starts>>

Restorable == DOMAIN snapshots # {}

\* rebuild_from_s3 of a new process, which may be a new version: the newest
\* snapshot, or nothing when S3 has none or does not answer.
Rebuild(v) ==
    /\ stage = "down"
    /\ starts < MaxStarts
    /\ starts' = starts + 1
    /\ running' = v
    /\ \/ config' = Default
       \/ Restorable /\ config' = Migrated(Newest(snapshots))
    /\ behind' = {"snapshot", "envelope", "target"}
    /\ stage' = "migrate"
    /\ UNCHANGED <<now, snapshots, published, page, request, saves>>

\* _boot_refresh_config follows the migration.
Refreshes(c) ==
    /\ stage' = "refresh"
    /\ request' = [request EXCEPT ![Boot] = [at |-> "put", edit |-> "start", new |-> c]]

\* migrate_on_startup has nothing to do.
MigrateNothing ==
    /\ stage = "migrate"
    /\ Restorable
    /\ Newest(snapshots).version = 3
    /\ Refreshes(config)
    /\ UNCHANGED <<now, running, config, snapshots, published, page, behind,
                   saves, starts>>

\* There is no configuration in S3, or one of an older version: the new one
\* goes to SQLite, to the displays and to S3; a failure of the upload, or of
\* the pruning after it, ends the process.
MigrateAll ==
    /\ stage = "migrate"
    /\ Restorable => Newest(snapshots).version = 2
    /\ LET c == IF Restorable THEN Migrated(Newest(snapshots)) ELSE Default
           written == With(snapshots, c)
       IN
       /\ config' = c
       /\ published' \in {published, c}
       /\ \/ /\ snapshots' \in {written, Pruned(written)}
             /\ Refreshes(c)
          \/ /\ stage' = "down"
             /\ snapshots' \in {snapshots, written}
             /\ UNCHANGED request
    /\ UNCHANGED <<now, running, page, behind, saves, starts>>

\* The read of S3 raises, which ends the process.
MigrateFails ==
    /\ stage = "migrate"
    /\ stage' = "down"
    /\ UNCHANGED <<now, running, config, snapshots, published, page, request,
                   behind, saves, starts>>

----------------------------------------------------------------------------
\* The first start of this version of the program, on a bucket that is empty
\* or that holds one snapshot.
Init ==
    /\ now = 0
    /\ running \in Shas
    /\ stage = "down"
    /\ config = Default
    /\ \/ snapshots = <<>>
       \/ \E c \in {Default, [Default EXCEPT !.version = 2,
                                           !.filters = SetToSeq(Senders)]} :
             snapshots = [s \in {0} |-> c]
    /\ published = Default
    /\ page = Default
    /\ request = [a \in Actor |-> Idle]
    /\ behind = {"snapshot", "envelope", "target"}
    /\ saves = 0
    /\ starts = 0

Edits(o) ==
    \/ \E m \in Messages : Suppress(o, m) \/ Unsuppress(o, m) \/ AddRule(o, m)
    \/ AddBlankRule(o)
    \/ DeleteRule(o)
    \/ SubmitForm(o)
    \/ PutWhole(o)

Next ==
    \/ Tick
    \/ OpenPage
    \/ \E o \in Operator : Edits(o)
    \/ \E a \in Actor : Put(a) \/ Snapshot(a) \/ Publish(a)
    \/ Crash
    \/ \E v \in Shas : Rebuild(v)
    \/ MigrateNothing
    \/ MigrateAll
    \/ MigrateFails

Spec == Init /\ [][Next]_vars

----------------------------------------------------------------------------
TypeOK ==
    /\ now \in Second
    /\ running \in Shas
    /\ stage \in {"down", "migrate", "refresh", "up"}
    /\ {config, published, page} \subseteq Configuration
    /\ \A c \in {config, published, page} : c.version = 3
    /\ DOMAIN snapshots \subseteq Second
    /\ \A s \in DOMAIN snapshots : snapshots[s] \in Configuration
    /\ DOMAIN request = Actor
    /\ \A a \in Actor :
        \/ request[a] = Idle
        \/ /\ request[a].at \in {"put", "snapshot", "publish"}
           /\ request[a].new \in Configuration
    /\ behind \subseteq {"snapshot", "envelope", "target"}
    /\ saves \in 0 .. MaxSaves
    /\ starts \in 0 .. MaxStarts

\* What a save left behind is told: the newest snapshot and the last envelope
\* are the stored configuration, unless their own call failed or is still to
\* come, however snapshots share a second and whichever are pruned
\* (main.py:1404-1500, s3.py:198-251).
CopiesAgree ==
    /\ "snapshot" \notin behind => Restorable /\ Newest(snapshots) = config
    /\ "envelope" \notin behind => published = config

\* After a deploy as well, the target of the sign is its pin or the version
\* the server runs now; a target resolved by an older server is not kept
\* (main.py:1433-1436, 1503-1529).
TargetFollowsPin ==
    "target" \notin behind =>
        config.target = IF config.pin = Inherit THEN running ELSE config.pin

\* The save of o reaches the database.
Stored(o, edits) ==
    /\ request[o].at = "put"
    /\ request'[o].at = "snapshot"
    /\ request[o].edit \in edits

\* No edit but a removal or a full replacement takes a rule away, however old
\* the page it comes from (main.py:1690-1701, 1909-1928).
RulesStay ==
    [][\A o \in Operator :
          Stored(o, {"suppress", "add", "form"}) =>
              IsPrefix(config.filters, config'.filters)]_vars

\* The settings form is read only where it was submitted (main.py:2018-2021):
\* deleting a rule changes nothing but the rules, however old the page.
DeleteKeepsTheRest ==
    [][\A o \in Operator :
          Stored(o, {"delete"}) =>
              /\ config'.senders = config.senders
              /\ config'.showing = config.showing
              /\ config'.pin = config.pin]_vars

============================================================================
