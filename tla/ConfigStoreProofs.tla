------------------------- MODULE ConfigStoreProofs -------------------------
(***************************************************************************)
(* Theorems about ConfigStore, for every set of messages, senders and      *)
(* versions, however many edits, starts and kept snapshots.                *)
(*                                                                         *)
(* First what holds however many threads serve: the target follows the     *)
(* pin.  Then what one thread adds: the copies agree.  Then, from lemmas   *)
(* about the rules of a configuration and what each operation makes of it, *)
(* the types, and with one thread again that rules stay.                   *)
(***************************************************************************)
EXTENDS ConfigStore, Iteration, FiniteSetTheorems, SequenceTheorems, TLAPS

\* The start saves alone, and nothing is under way before it.
Turns ==
    /\ DOMAIN request = Actor
    /\ stage \in {"down", "migrate"} => \A a \in Actor : request[a].at = "idle"
    /\ stage = "refresh" => \A o \in Operator : request[o].at = "idle"
    /\ stage = "up" => request[Boot].at = "idle"
    /\ stage \in {"down", "migrate", "refresh", "up"}

\* The configuration of a process that is about to migrate is told to nobody.
Unsettled == stage = "migrate" => behind = {"snapshot", "envelope", "target"}

\* Whatever is stored, shown or about to be saved has the two fields of the
\* version.
Fielded(c) == {"pin", "target"} \subseteq DOMAIN c
Shaped ==
    /\ Fielded(config) /\ Fielded(page)
    /\ \A s \in DOMAIN snapshots : Fielded(snapshots[s])
    /\ \A a \in Actor : request[a].at = "idle" \/ Fielded(request[a].new)

\* The keys of the bucket are in the past, and one of them is the last.
Ordered ==
    /\ now \in Nat
    /\ DOMAIN snapshots \subseteq 0 .. now
    /\ Restorable => \E s \in DOMAIN snapshots :
                        \A t \in DOMAIN snapshots : t <= s

TInv == Turns /\ Unsettled /\ Shaped /\ Ordered /\ TargetFollowsPin

\* The maximum of the keys is one of them.
LEMMA NewestIs ==
    ASSUME NEW files, NEW s \in DOMAIN files, DOMAIN files \subseteq Nat,
           \A t \in DOMAIN files : t <= s
    PROVE  Newest(files) = files[s]
<1> DEFINE newest == CHOOSE u \in DOMAIN files : \A t \in DOMAIN files : t <= u
<1>1. newest \in DOMAIN files /\ \A t \in DOMAIN files : t <= newest
    OBVIOUS
<1>2. newest = s
    <2>1. newest <= s /\ s <= newest
        BY <1>1
    <2>2. newest \in Nat /\ s \in Nat
        BY <1>1
    <2> QED
        BY <2>1, <2>2
<1> QED
    BY <1>2 DEF Newest

LEMMA TargetInit == Init => TInv
<1> SUFFICES ASSUME Init
             PROVE  TInv
    OBVIOUS
<1>1. Fielded(Default) /\ Fielded([Default EXCEPT !.version = 2,
                                                !.filters = SetToSeq(Senders)])
    BY DEF Fielded, Default
<1>2. Shaped
    <2>1. \A s \in DOMAIN snapshots : Fielded(snapshots[s])
        BY <1>1 DEF Init
    <2> QED
        BY <1>1, <2>1 DEF Init, Shaped, Idle
<1>3. Turns
    BY DEF Init, Turns, Idle, Actor
<1>4. Ordered
    <2>1. now = 0 /\ DOMAIN snapshots \subseteq {0}
        BY DEF Init
    <2> QED
        BY <2>1 DEF Ordered, Restorable
<1> QED
    BY <1>2, <1>3, <1>4 DEF Init, TInv, Unsettled, TargetFollowsPin

\* An edit begins a request for a configuration with the same fields.
LEMMA EditsBegin ==
    ASSUME NEW o \in Operator, Edits(o), Fielded(config), Fielded(page)
    PROVE  \E edit, c : Saves(o, edit, c) /\ Fielded(c)
<1> USE DEF Fielded
<1>0. Fielded(BlankForm(config))
    BY DEF BlankForm
<1>1. CASE \E m \in Messages : Suppress(o, m) \/ Unsuppress(o, m) \/ AddRule(o, m)
    <2>1. ASSUME NEW f
          PROVE  Fielded([config EXCEPT !.filters = f])
        OBVIOUS
    <2> QED
        BY <1>1, <2>1 DEF Suppress, Unsuppress, AddRule
<1>2. CASE AddBlankRule(o)
    BY <1>0, <1>2 DEF AddBlankRule
<1>3. CASE DeleteRule(o)
    BY <1>0, <1>3 DEF DeleteRule
<1>4. CASE SubmitForm(o)
    <2>1. ASSUME NEW f, NEW g, NEW h
          PROVE  Fielded([config EXCEPT !.senders = f, !.pin = g, !.showing = h])
        OBVIOUS
    <2>2. PICK f \in [Senders -> {"absent", "allowed", "blocked"}], g \in Pins :
             Saves(o, "form", [config EXCEPT !.senders = f, !.pin = g,
                                             !.showing = page.showing])
        BY <1>4, Zenon DEF SubmitForm
    <2>3. Fielded([config EXCEPT !.senders = f, !.pin = g,
                                 !.showing = page.showing])
        BY <2>1
    <2> QED
        BY <2>2, <2>3, Zenon
<1>5. CASE PutWhole(o)
    BY <1>5 DEF PutWhole
<1> QED
    BY <1>1, <1>2, <1>3, <1>4, <1>5 DEF Edits

\* Whose turn it is, kept by the steps of a save.
LEMMA SaveTurns ==
    ASSUME Turns, NEW a \in Actor, Put(a) \/ Snapshot(a) \/ Publish(a)
    PROVE  Turns' /\ stage \in {"refresh", "up"} /\ stage' # "migrate"
<1> USE NameAssumption DEF Turns, Actor, Idle
<1>1. request[a].at # "idle"
    BY DEF Put, Snapshot, Publish
<1>2. /\ stage \in {"refresh", "up"}
      /\ stage = "refresh" => a = Boot
      /\ stage = "up" => a \in Operator
    BY <1>1
<1>3. CASE Over(a)
    BY <1>2, <1>3 DEF Over
<1>4. ASSUME NEW r, request' = [request EXCEPT ![a] = r], UNCHANGED stage
      PROVE  Turns' /\ stage' # "migrate"
    BY <1>2, <1>4
<1> QED
    BY <1>2, <1>3, <1>4 DEF Put, Snapshot, Publish

\* What a start reads from the bucket and makes of it has the fields.
LEMMA Restored ==
    ASSUME Shaped, Ordered, Restorable
    PROVE  Fielded(Migrated(Newest(snapshots)))
<1>1. PICK s \in DOMAIN snapshots : \A t \in DOMAIN snapshots : t <= s
    BY DEF Ordered
<1>2. Fielded(Newest(snapshots))
    BY <1>1, NewestIs DEF Shaped, Ordered
<1> QED
    BY <1>2 DEF Migrated, Fielded

\* A snapshot that is written is the newest, also after the pruning.
LEMMA WrittenIsNewest ==
    ASSUME Ordered, NEW c, NEW files,
           files \in {With(snapshots, c), Pruned(With(snapshots, c))}
    PROVE  /\ now \in DOMAIN files /\ DOMAIN files \subseteq 0 .. now
           /\ \A t \in DOMAIN files : t <= now
           /\ files[now] = c /\ Newest(files) = c
           /\ \A s \in DOMAIN files :
                 \/ files[s] = c
                 \/ s \in DOMAIN snapshots /\ files[s] = snapshots[s]
<1> DEFINE written == With(snapshots, c)
<1>1. /\ DOMAIN written = DOMAIN snapshots \union {now}
      /\ now \in Nat
      /\ DOMAIN written \subseteq 0 .. now
      /\ \A t \in DOMAIN written : ~(t > now)
    BY DEF With, Ordered
<1>2. /\ written[now] = c
      /\ \A s \in DOMAIN written :
            \/ written[s] = c
            \/ s \in DOMAIN snapshots /\ written[s] = snapshots[s]
    BY DEF With
<1>3. now \in DOMAIN Pruned(written)
    <2>1. {t \in DOMAIN written : t > now} = {}
        BY <1>1
    <2>2. Cardinality({t \in DOMAIN written : t > now}) = 0
        BY <2>1, FS_EmptySet
    <2> QED
        BY <1>1, <2>2, BoundAssumption DEF Pruned, Restrict
<1>4. /\ DOMAIN Pruned(written) \subseteq DOMAIN written
      /\ \A s \in DOMAIN Pruned(written) : Pruned(written)[s] = written[s]
    BY DEF Pruned, Restrict
<1>5. /\ now \in DOMAIN files /\ DOMAIN files \subseteq 0 .. now
      /\ files[now] = c
      /\ \A s \in DOMAIN files :
            \/ files[s] = c
            \/ s \in DOMAIN snapshots /\ files[s] = snapshots[s]
    <2>1. CASE files = written
        BY <1>1, <1>2, <2>1
    <2>2. CASE files = Pruned(written)
        BY <1>1, <1>2, <1>3, <1>4, <2>2
    <2> QED
        BY <2>1, <2>2
<1>6. \A t \in DOMAIN files : t <= now
    BY <1>1, <1>5
<1> QED
    BY <1>1, <1>5, <1>6, NewestIs

LEMMA TargetStep == TInv /\ [Next]_vars => TInv'
<1> SUFFICES ASSUME TInv, [Next]_vars
             PROVE  TInv'
    OBVIOUS
<1> USE DEF TInv
<1>1. CASE Tick
    <2>1. now' = now + 1 /\ UNCHANGED snapshots
        BY <1>1 DEF Tick
    <2>2. Ordered'
        BY <2>1 DEF Ordered, Restorable
    <2> QED
        BY <1>1, <2>2 DEF Tick, Turns, Unsettled, Shaped, TargetFollowsPin
<1>2. CASE OpenPage \/ UNCHANGED vars
    BY <1>2 DEF OpenPage, vars, Turns, Unsettled, Shaped, Ordered, Restorable,
                TargetFollowsPin
<1>3. ASSUME NEW o \in Operator, Edits(o)
      PROVE  TInv'
    <2>1. PICK edit, c : Saves(o, edit, c) /\ Fielded(c)
        BY <1>3, EditsBegin DEF Shaped
    <2>2. Turns'
        BY <2>1, NameAssumption DEF Saves, Turns, Actor
    <2>3. Shaped'
        BY <2>1 DEF Saves, Shaped, Turns, Actor
    <2> QED
        BY <2>1, <2>2, <2>3
           DEF Saves, Unsettled, Ordered, Restorable, TargetFollowsPin
<1>4. ASSUME NEW a \in Actor, Put(a)
      PROVE  TInv'
    <2>1. Turns' /\ Unsettled'
        BY <1>4, SaveTurns DEF Unsettled
    <2>2. CASE /\ config' = Resolved(request[a].new)
               /\ request' = [request EXCEPT ![a] =
                                [at |-> "snapshot", edit |-> @.edit, new |-> config']]
        <3>1. Fielded(request[a].new)
            BY <1>4 DEF Put, Shaped
        <3>2. /\ Fielded(config')
              /\ config'.pin = request[a].new.pin
              /\ config'.target = IF config'.pin = Inherit THEN running
                                                         ELSE config'.pin
            BY <2>2, <3>1 DEF Resolved, Fielded
        <3>3. Shaped'
            BY <1>4, <2>2, <3>2 DEF Put, Shaped, Turns
        <3> QED
            BY <1>4, <2>1, <3>2, <3>3
               DEF Put, Ordered, Restorable, TargetFollowsPin
    <2>3. CASE /\ Over(a) /\ UNCHANGED config
               /\ behind' = IF a = Boot THEN behind \union {"target"} ELSE behind
        <3>1. Shaped'
            BY <1>4, <2>3 DEF Put, Over, Idle, Shaped, Turns
        <3> QED
            BY <1>4, <2>1, <2>3, <3>1
               DEF Put, Ordered, Restorable, TargetFollowsPin
    <2> QED
        BY <1>4, <2>2, <2>3 DEF Put
<1>5. ASSUME NEW a \in Actor, Snapshot(a)
      PROVE  TInv'
    <2>1. Turns' /\ Unsettled'
        BY <1>5, SaveTurns DEF Unsettled
    <2>2. Fielded(request[a].new)
        BY <1>5 DEF Snapshot, Shaped
    <2>3. CASE UNCHANGED <<snapshots, behind>>
        BY <1>5, <2>1, <2>2, <2>3
           DEF Snapshot, Shaped, Turns, Ordered, Restorable, TargetFollowsPin
    <2>4. CASE /\ snapshots' \in {With(snapshots, request[a].new),
                                  Pruned(With(snapshots, request[a].new))}
               /\ behind' = behind \ {"snapshot"}
        <3>1. /\ now \in DOMAIN snapshots' /\ DOMAIN snapshots' \subseteq 0 .. now
              /\ \A t \in DOMAIN snapshots' : t <= now
              /\ \A s \in DOMAIN snapshots' :
                    \/ snapshots'[s] = request[a].new
                    \/ s \in DOMAIN snapshots /\ snapshots'[s] = snapshots[s]
            BY <2>4, WrittenIsNewest
        <3>2. Ordered'
            BY <1>5, <3>1 DEF Snapshot, Ordered
        <3>3. Shaped'
            BY <1>5, <2>2, <3>1 DEF Snapshot, Shaped, Turns
        <3> QED
            BY <1>5, <2>1, <2>4, <3>2, <3>3 DEF Snapshot, TargetFollowsPin
    <2> QED
        BY <1>5, <2>3, <2>4 DEF Snapshot
<1>6. ASSUME NEW a \in Actor, Publish(a)
      PROVE  TInv'
    <2>1. Turns' /\ Unsettled'
        BY <1>6, SaveTurns DEF Unsettled
    <2>2. Shaped'
        BY <1>6 DEF Publish, Over, Idle, Shaped, Turns
    <2> QED
        BY <1>6, <2>1, <2>2 DEF Publish, Ordered, Restorable, TargetFollowsPin
<1>7. CASE Crash
    BY <1>7 DEF Crash, Turns, Unsettled, Shaped, Ordered, Restorable, Idle,
                TargetFollowsPin, Actor
<1>8. ASSUME NEW v \in Shas, Rebuild(v)
      PROVE  TInv'
    <2>1. Fielded(config')
        BY <1>8, Restored DEF Rebuild, Default, Fielded
    <2> QED
        BY <1>8, <2>1 DEF Rebuild, Turns, Unsettled, Shaped, Ordered,
                          Restorable, TargetFollowsPin
<1>9. ASSUME NEW c, Refreshes(c), stage = "migrate", Fielded(c)
      PROVE  /\ Turns' /\ stage' = "refresh"
             /\ \A a \in Actor : request'[a].at = "idle" \/ Fielded(request'[a].new)
    BY <1>9, NameAssumption DEF Refreshes, Turns, Actor
<1>10. CASE MigrateNothing
    <2>1. /\ Turns' /\ stage' = "refresh"
          /\ \A a \in Actor : request'[a].at = "idle" \/ Fielded(request'[a].new)
        BY <1>9, <1>10 DEF MigrateNothing, Shaped
    <2> QED
        BY <1>10, <2>1 DEF MigrateNothing, Unsettled, Shaped, Ordered,
                           Restorable, TargetFollowsPin
<1>11. CASE MigrateAll
    <2> DEFINE c == IF Restorable THEN Migrated(Newest(snapshots)) ELSE Default
    <2>1. Fielded(c)
        BY Restored DEF Default, Fielded
    <2>2. /\ stage = "migrate" /\ config' = c
          /\ UNCHANGED <<now, running, page, behind>>
        BY <1>11 DEF MigrateAll
    <2>3. Unsettled' /\ TargetFollowsPin'
        BY <2>2 DEF Unsettled, TargetFollowsPin
    <2>4. CASE /\ snapshots' \in {With(snapshots, c), Pruned(With(snapshots, c))}
               /\ Refreshes(c)
        <3>1. /\ now \in DOMAIN snapshots' /\ DOMAIN snapshots' \subseteq 0 .. now
              /\ \A t \in DOMAIN snapshots' : t <= now
              /\ \A s \in DOMAIN snapshots' :
                    \/ snapshots'[s] = c
                    \/ s \in DOMAIN snapshots /\ snapshots'[s] = snapshots[s]
            BY <2>4, WrittenIsNewest
        <3>2. /\ Turns'
              /\ \A a \in Actor : request'[a].at = "idle" \/ Fielded(request'[a].new)
            BY <1>9, <2>1, <2>2, <2>4
        <3>3. Ordered'
            BY <2>2, <3>1 DEF Ordered
        <3>4. Shaped'
            BY <2>1, <2>2, <3>1, <3>2 DEF Shaped
        <3> QED
            BY <2>3, <3>2, <3>3, <3>4
    <2>5. CASE /\ stage' = "down" /\ UNCHANGED request
               /\ snapshots' \in {snapshots, With(snapshots, c)}
        <3>1. CASE UNCHANGED snapshots
            BY <2>1, <2>2, <2>3, <2>5, <3>1 DEF Turns, Shaped, Ordered, Restorable
        <3>2. CASE snapshots' = With(snapshots, c)
            <4>1. /\ now \in DOMAIN snapshots' /\ DOMAIN snapshots' \subseteq 0 .. now
                  /\ \A t \in DOMAIN snapshots' : t <= now
                  /\ \A s \in DOMAIN snapshots' :
                        \/ snapshots'[s] = c
                        \/ s \in DOMAIN snapshots /\ snapshots'[s] = snapshots[s]
                BY <3>2, WrittenIsNewest
            <4>2. Turns' /\ Ordered'
                BY <2>2, <2>5, <4>1 DEF Turns, Ordered
            <4>3. Shaped'
                BY <2>1, <2>2, <2>5, <4>1 DEF Shaped
            <4> QED
                BY <2>3, <4>2, <4>3
        <3> QED
            BY <2>5, <3>1, <3>2
    <2> QED
        BY <1>11, <2>4, <2>5 DEF MigrateAll
<1>12. CASE MigrateFails
    BY <1>12 DEF MigrateFails, Turns, Unsettled, Shaped, Ordered, Restorable,
                 TargetFollowsPin
<1> QED
    BY <1>1, <1>2, <1>3, <1>4, <1>5, <1>6, <1>7, <1>8, <1>10, <1>11, <1>12
       DEF Next

\* The target of the sign follows the pin and the version the server runs,
\* through every edit, failure and deploy (main.py:1433-1436, 1503-1535).
THEOREM TargetIsResolved == Spec => []TargetFollowsPin
<1> QED
    BY TargetInit, TargetStep, PTL DEF Spec, TInv

----------------------------------------------------------------------------
\* With one thread only one save is under way, and once it is stored it
\* carries what is stored.
Alone ==
    \A a, b \in Actor :
        request[a].at # "idle" /\ request[b].at # "idle" => a = b
Carried ==
    \A a \in Actor :
        request[a].at \in {"snapshot", "publish"} => request[a].new = config

CInv == TInv /\ Alone /\ Carried /\ CopiesAgree

\* A request that is served is the only one.
LEMMA ServedAlone ==
    ASSUME Threads = 1, Turns, NEW o \in Operator, NEW edit, NEW c,
           Saves(o, edit, c)
    PROVE  /\ \A a \in Actor : request[a].at = "idle"
           /\ stage = "up"
<1> DEFINE busy == {p \in Operator : request[p] # Idle}
<1>1. Cardinality(busy) < 1
    BY DEF Saves
<1>2. IsFiniteSet(busy)
    BY BoundAssumption, FS_Subset
<1>3. Cardinality(busy) = 0
    BY <1>1, <1>2, FS_CardinalityType
<1>4. busy = {}
    BY <1>2, <1>3, FS_EmptySet
<1>5. \A p \in Operator : request[p].at = "idle"
    BY <1>4 DEF Idle
<1> QED
    BY <1>5 DEF Saves, Turns, Actor

LEMMA CopiesInit == Init => CInv
<1> SUFFICES ASSUME Init
             PROVE  CInv
    OBVIOUS
<1> QED
    BY TargetInit DEF Init, CInv, Alone, Carried, CopiesAgree, Idle

LEMMA CopiesStep ==
    ASSUME Threads = 1, CInv, [Next]_vars
    PROVE  CInv'
<1> USE DEF CInv, TInv
<1>0. TInv'
    BY TargetStep
<1>1. CASE Tick \/ OpenPage \/ UNCHANGED vars
    BY <1>0, <1>1 DEF Tick, OpenPage, vars, Alone, Carried, CopiesAgree,
                      Restorable, Newest
<1>2. ASSUME NEW o \in Operator, Edits(o)
      PROVE  CInv'
    <2>1. PICK edit, c : Saves(o, edit, c)
        BY <1>2, EditsBegin DEF Shaped
    <2>2. \A a \in Actor : request[a].at = "idle"
        BY <2>1, ServedAlone
    <2>3. Alone' /\ Carried'
        BY <2>1, <2>2 DEF Saves, Alone, Carried, Turns, Actor
    <2> QED
        BY <1>0, <2>1, <2>3 DEF Saves, CopiesAgree, Restorable, Newest
<1>3. ASSUME NEW a \in Actor, Put(a)
      PROVE  CInv'
    <2>1. \A b \in Actor : b # a => request[b].at = "idle"
        BY <1>3 DEF Put, Alone
    <2>2. CASE /\ behind' = {"snapshot", "envelope"}
               /\ request' = [request EXCEPT ![a] =
                                [at |-> "snapshot", edit |-> @.edit, new |-> config']]
        <3>1. Alone' /\ Carried'
            BY <2>1, <2>2 DEF Alone, Carried, Turns
        <3> QED
            BY <1>0, <2>2, <3>1 DEF CopiesAgree
    <2>3. CASE /\ Over(a) /\ UNCHANGED config
               /\ behind' = IF a = Boot THEN behind \union {"target"} ELSE behind
        <3>1. Alone' /\ Carried'
            BY <2>1, <2>3 DEF Over, Idle, Alone, Carried, Turns
        <3> QED
            BY <1>0, <1>3, <2>3, <3>1
               DEF Put, CopiesAgree, Restorable, Newest
    <2> QED
        BY <1>3, <2>2, <2>3 DEF Put
<1>4. ASSUME NEW a \in Actor, Snapshot(a)
      PROVE  CInv'
    <2>1. /\ request[a].at = "snapshot" /\ request[a].new = config
          /\ UNCHANGED <<config, published>>
          /\ request' = [request EXCEPT ![a] =
                            [at |-> "publish", edit |-> @.edit, new |-> @.new]]
        BY <1>4 DEF Snapshot, Carried
    <2>2. Alone' /\ Carried'
        BY <2>1 DEF Alone, Carried, Turns
    <2>3. CASE UNCHANGED <<snapshots, behind>>
        BY <1>0, <2>1, <2>2, <2>3 DEF CopiesAgree, Restorable, Newest
    <2>4. CASE /\ snapshots' \in {With(snapshots, request[a].new),
                                  Pruned(With(snapshots, request[a].new))}
               /\ behind' = behind \ {"snapshot"}
        <3>1. now \in DOMAIN snapshots' /\ Newest(snapshots') = request[a].new
            BY <2>4, WrittenIsNewest
        <3> QED
            BY <1>0, <2>1, <2>2, <2>4, <3>1 DEF CopiesAgree, Restorable
    <2> QED
        BY <1>4, <2>3, <2>4 DEF Snapshot
<1>5. ASSUME NEW a \in Actor, Publish(a)
      PROVE  CInv'
    <2>1. request[a].new = config /\ UNCHANGED <<config, snapshots>>
        BY <1>5 DEF Publish, Carried
    <2>2. Alone' /\ Carried'
        BY <1>5 DEF Publish, Over, Idle, Alone, Carried, Turns
    <2> QED
        BY <1>0, <1>5, <2>1, <2>2
           DEF Publish, CopiesAgree, Restorable, Newest
<1>6. CASE Crash
    BY <1>0, <1>6 DEF Crash, Idle, Alone, Carried, CopiesAgree, Restorable,
                      Newest
<1>7. ASSUME NEW v \in Shas, Rebuild(v)
      PROVE  CInv'
    BY <1>0, <1>7 DEF Rebuild, Alone, Carried, CopiesAgree, Turns
<1>8. ASSUME NEW c, Refreshes(c), stage = "migrate"
      PROVE  Alone' /\ Carried'
    BY <1>8 DEF Refreshes, Alone, Carried, Turns, Actor
<1>9. CASE MigrateNothing
    <2>1. Alone' /\ Carried'
        BY <1>8, <1>9 DEF MigrateNothing
    <2> QED
        BY <1>0, <1>9, <2>1 DEF MigrateNothing, CopiesAgree, Restorable, Newest
<1>10. CASE MigrateAll
    <2>1. CopiesAgree'
        BY <1>10 DEF MigrateAll, Unsettled, CopiesAgree
    <2>2. Alone' /\ Carried'
        <3>1. CASE \E c : Refreshes(c)
            BY <1>8, <1>10, <3>1 DEF MigrateAll
        <3>2. CASE UNCHANGED request
            BY <1>10, <3>2 DEF MigrateAll, Alone, Carried, Turns
        <3> QED
            BY <1>10, <3>1, <3>2 DEF MigrateAll
    <2> QED
        BY <1>0, <2>1, <2>2
<1>11. CASE MigrateFails
    BY <1>0, <1>11 DEF MigrateFails, Alone, Carried, CopiesAgree, Restorable,
                       Newest
<1> QED
    BY <1>1, <1>2, <1>3, <1>4, <1>5, <1>6, <1>7, <1>9, <1>10, <1>11 DEF Next

\* On a server with one thread, which is what gunicorn runs without --threads
\* (Procfile:1), the newest snapshot and the last envelope are the stored
\* configuration unless their own call failed (main.py:1404-1500).
THEOREM CopiesAreTold ==
    ASSUME Threads = 1
    PROVE  Spec => []CopiesAgree
<1>1. CInv /\ [Next]_vars => CInv'
    BY CopiesStep
<1>2. CInv => CopiesAgree
    BY DEF CInv
<1> QED
    BY CopiesInit, <1>1, <1>2, PTL DEF Spec

----------------------------------------------------------------------------
\* The rules of a configuration.

Filters == BoundedSeq(Rule, MaxRules)

LEMMA FiltersAre ==
    \A f : f \in Filters <=> f \in Seq(Rule) /\ Len(f) <= MaxRules
<1>1. MaxRules \in Nat
    BY BoundAssumption
<1>2. ASSUME NEW f, f \in Filters
      PROVE  f \in Seq(Rule) /\ Len(f) <= MaxRules
    <2>1. PICK m \in 0 .. MaxRules : f \in [1 .. m -> Rule]
        BY <1>2 DEF Filters, BoundedSeq, SeqOf
    <2>2. m \in Nat
        BY <1>1, <2>1
    <2>3. f \in Seq(Rule)
        BY <2>1, <2>2, SeqDef
    <2>4. Len(f) = m
        BY <2>1, <2>2, <2>3, LenProperties
    <2> QED
        BY <2>1, <2>3, <2>4, <1>1
<1>3. ASSUME NEW f, f \in Seq(Rule), Len(f) <= MaxRules
      PROVE  f \in Filters
    <2>1. f \in [1 .. Len(f) -> Rule] /\ Len(f) \in 0 .. MaxRules
        BY <1>1, <1>3, LenProperties
    <2> QED
        BY <2>1 DEF Filters, BoundedSeq, SeqOf
<1> QED
    BY <1>2, <1>3

\* L holds the lists that can be made from the elements of s, each of which
\* makes a list longer by one.
Closed(s, L) ==
    /\ Len(s) \in Nat
    /\ <<>> \in L /\ Len(<<>>) = 0
    /\ \A t \in L : Len(t) \in Nat
    /\ \A k \in 1 .. Len(s) : \A t \in L :
          Append(t, s[k]) \in L /\ Len(Append(t, s[k])) = Len(t) + 1

\* A filter is a loop over a list, so what it keeps is such a list as well,
\* and not a longer one.
LEMMA KeptRuns ==
    ASSUME NEW s, NEW K, NEW L, Closed(s, L)
    PROVE  Kept(s, K) \in L /\ Len(Kept(s, K)) <= Len(s)
<1> DEFINE N == Len(s)
           start == <<>>
           Step(k, t) == IF s[k] \in K THEN Append(t, s[k]) ELSE t
           Body(f) == [i \in 0 .. N |-> IF i = 0 THEN start
                                                ELSE Step(i, f[i - 1])]
           kept == CHOOSE f : f = Body(f)
           round == [k \in 1 .. N |-> [t \in L |-> Step(k, t)]]
<1>1. N \in Nat /\ start \in L /\ round \in Rounds(N, L)
    BY DEF Rounds, Closed
<1>2. Kept(s, K) = kept[N]
    BY DEF Kept
<1> HIDE DEF N, Step, start
<1>3. \E f : f = Body(f)
    <2>1. PICK loop \in [0 .. N -> L] :
              /\ loop[0] = start
              /\ \A k \in 1 .. N : loop[k] = round[k][loop[k - 1]]
        <3> HIDE DEF round, kept
        <3> QED
            BY <1>1, LoopExists
    <2>2. ASSUME NEW k \in 1 .. N
          PROVE  loop[k] = Step(k, loop[k - 1])
        <3>1. k - 1 \in 0 .. N
            BY <1>1
        <3> QED
            BY <2>1, <3>1
    <2>3. \A k \in 0 .. N : loop[k] = Body(loop)[k]
        <3>1. \A k \in 0 .. N : k # 0 => k \in 1 .. N
            BY <1>1
        <3> QED
            BY <2>1, <2>2, <3>1
    <2>4. loop = Body(loop)
        BY <2>1, <2>3
    <2> QED
        BY <2>4
<1>4. kept = Body(kept)
    BY <1>3
<1> HIDE DEF kept
<1>5. /\ kept[0] = start
      /\ \A k \in 1 .. N : kept[k] = Step(k, kept[k - 1])
    <2>1. 0 \in 0 .. N /\ \A k \in 1 .. N : k \in 0 .. N /\ k # 0
        BY <1>1
    <2> QED
        BY <1>4, <2>1
<1>6. \A k \in 1 .. N : kept[k - 1] \in L => kept[k] \in L
    BY <1>5 DEF N, Step, Closed
<1>7. \A k \in 0 .. N : kept[k] \in L
    BY <1>1, <1>5, <1>6, LoopKeeps
<1> DEFINE R == {n \in Nat : n <= N => Len(kept[n]) <= n}
<1>8. 0 \in R
    BY <1>5 DEF start, Closed
<1>9. ASSUME NEW n \in Nat, n \in R
      PROVE  n + 1 \in R
    <2> SUFFICES ASSUME n + 1 <= N
                 PROVE  Len(kept[n + 1]) <= n + 1
        OBVIOUS
    <2>1. /\ n \in 0 .. N /\ n + 1 \in 1 .. N /\ (n + 1) - 1 = n
          /\ n + 1 \in 0 .. N
        BY <1>1
    <2>2. /\ kept[n] \in L /\ Len(kept[n]) \in Nat /\ Len(kept[n]) <= n
        BY <1>7, <1>9, <2>1 DEF Closed
    <2>3. kept[n + 1] = Step(n + 1, kept[n])
        BY <1>5, <2>1
    <2>4. Len(kept[n + 1]) \in {Len(kept[n]), Len(kept[n]) + 1}
        BY <2>1, <2>2, <2>3 DEF N, Step, Closed
    <2> QED
        BY <2>2, <2>4
<1> HIDE DEF R
<1>10. N \in R
    BY <1>1, <1>8, <1>9, NatReached
<1>11. kept[N] \in L /\ Len(kept[N]) <= N
    BY <1>1, <1>7, <1>10 DEF R
<1> QED
    BY <1>2, <1>11 DEF N

\* What a filter on a list leaves is a list of such rules, not a longer one.
LEMMA KeptIs ==
    ASSUME NEW S, NEW s \in Seq(S), NEW K
    PROVE  Kept(s, K) \in Seq(S) /\ Len(Kept(s, K)) <= Len(s)
<1> DEFINE L == Seq(S)
<1>1. Len(s) \in Nat /\ \A k \in 1 .. Len(s) : s[k] \in S
    BY LenProperties, ElementOfSeq
<1>2. <<>> \in L /\ Len(<<>>) = 0 /\ \A t \in L : Len(t) \in Nat
    BY EmptySeq, LenProperties
<1>3. \A k \in 1 .. Len(s) : \A t \in L :
          Append(t, s[k]) \in L /\ Len(Append(t, s[k])) = Len(t) + 1
    BY <1>1, AppendProperties
<1> HIDE DEF L
<1>4. Kept(s, K) \in L /\ Len(Kept(s, K)) <= Len(s)
    BY <1>1, <1>2, <1>3, KeptRuns DEF Closed
<1> QED
    BY <1>4 DEF L

\* A configuration of the version the program writes.
Modern(c) == c \in Configuration /\ c.version = 3

\* The lists a configuration may hold, after each way an edit changes them.
LEMMA EditedFilters ==
    ASSUME NEW f \in Filters
    PROVE  /\ \A K : Kept(f, K) \in Filters
           /\ \A r \in Rule : Len(f) < MaxRules => Append(f, r) \in Filters
           /\ \A i \in 1 .. Len(f) : RemoveAt(f, i) \in Filters
<1>1. /\ MaxRules \in Nat /\ f \in Seq(Rule) /\ Len(f) \in Nat
      /\ Len(f) <= MaxRules
    BY FiltersAre, BoundAssumption, LenProperties
<1>2. ASSUME NEW K
      PROVE  Kept(f, K) \in Filters
    <2>1. Kept(f, K) \in Seq(Rule) /\ Len(Kept(f, K)) <= Len(f)
        BY <1>1, KeptIs
    <2>2. Len(Kept(f, K)) \in Nat
        BY <2>1, LenProperties
    <2> QED
        BY <1>1, <2>1, <2>2, FiltersAre
<1>3. ASSUME NEW r \in Rule, Len(f) < MaxRules
      PROVE  Append(f, r) \in Filters
    <2>1. Append(f, r) \in Seq(Rule) /\ Len(Append(f, r)) = Len(f) + 1
        BY <1>1, AppendProperties
    <2>2. Len(Append(f, r)) <= MaxRules
        BY <1>1, <1>3, <2>1
    <2> QED
        BY <2>1, <2>2, FiltersAre
<1>4. ASSUME NEW i \in 1 .. Len(f)
      PROVE  RemoveAt(f, i) \in Filters
    <2> DEFINE left == SubSeq(f, 1, i - 1)
               right == SubSeq(f, i + 1, Len(f))
    <2>1. \A j \in 1 .. Len(f) : f[j] \in Rule
        BY <1>1, ElementOfSeq
    <2>2. left \in Seq(Rule) /\ Len(left) = i - 1
        BY <1>1, <2>1, SubSeqProperties
    <2>3. right \in Seq(Rule) /\ Len(right) = Len(f) - i
        BY <1>1, <2>1, SubSeqProperties
    <2> HIDE DEF left, right
    <2>4. /\ left \o right \in Seq(Rule)
          /\ Len(left \o right) = Len(left) + Len(right)
        BY <2>2, <2>3, ConcatProperties
    <2>5. Len(left \o right) <= MaxRules
        BY <1>1, <2>2, <2>3, <2>4
    <2>6. left \o right \in Filters
        BY <2>4, <2>5, FiltersAre
    <2> QED
        BY <2>6 DEF left, right, RemoveAt
<1> QED
    BY <1>2, <1>3, <1>4

\* An edit that only adds rules leaves the others where they are.
LEMMA AddedKeeps ==
    ASSUME NEW f \in Filters
    PROVE  IsPrefix(f, f) /\ \A r \in Rule : IsPrefix(f, Append(f, r))
<1>1. f \in Seq(Rule) /\ Len(f) \in Nat
    BY FiltersAre, LenProperties
<1>2. ASSUME NEW r \in Rule
      PROVE  IsPrefix(f, Append(f, r))
    <2>1. /\ Append(f, r) \in Seq(Rule)
          /\ Len(Append(f, r)) = Len(f) + 1
          /\ \A i \in 1 .. Len(f) : Append(f, r)[i] = f[i]
        BY <1>1, AppendProperties
    <2> DEFINE longer == Append(f, r)
               start == SubSeq(longer, 1, Len(f))
    <2> HIDE DEF longer
    <2>2. /\ start \in Seq(Rule) /\ Len(start) = Len(f)
          /\ \A i \in 1 .. Len(f) : start[i] = f[i]
        <3>1. \A i \in 1 .. Len(f) : longer[i] \in Rule
            BY <1>1, <2>1, ElementOfSeq DEF longer
        <3> QED
            BY <1>1, <2>1, <3>1, SubSeqProperties DEF longer
    <2> HIDE DEF start
    <2>3. start = f
        BY <1>1, <2>2, SeqEqual
    <2>4. SubSeq(f, 1, Len(f)) = f
        BY <1>1, SubSeqFull
    <2> QED
        BY <1>1, <2>1, <2>3, <2>4 DEF IsPrefix, start, longer
<1> QED
    BY <1>1, <1>2 DEF IsPrefix

----------------------------------------------------------------------------
\* Every operation on a configuration makes a configuration.

LEMMA DefaultIsModern == Modern(Default)
<1>1. <<>> \in Filters
    <2>1. <<>> \in Seq(Rule) /\ Len(<<>>) = 0 /\ 0 <= MaxRules
        BY BoundAssumption, EmptySeq
    <2>2. Len(<<>>) <= MaxRules
        BY <2>1
    <2> QED
        BY <2>1, <2>2, FiltersAre
<1> QED
    BY <1>1 DEF Modern, Default, Configuration, Filters, Pins

\* The snapshot of an older version that a bucket may hold.
LEMMA OldIsConfiguration ==
    [Default EXCEPT !.version = 2, !.filters = SetToSeq(Senders)]
        \in Configuration
<1> DEFINE n == Cardinality(Senders)
           f == SetToSeq(Senders)
<1>1. n \in Nat /\ n <= MaxRules /\ ExistsBijection(1 .. n, Senders)
    BY BoundAssumption, FS_CardinalityType
<1>2. \E g \in [1 .. n -> Senders] : IsInjective(g)
    BY <1>1 DEF ExistsBijection, Bijection, Injection, IsInjective
<1>3. f \in [1 .. n -> Senders]
    BY <1>2 DEF SetToSeq
<1> HIDE DEF n, f
<1>4. f \in [1 .. n -> Rule]
    BY <1>3 DEF Rule
<1>5. f \in Filters
    BY <1>1, <1>4, BoundAssumption DEF Filters, BoundedSeq, SeqOf
<1>6. [Default EXCEPT !.version = 2, !.filters = f] \in Configuration
    BY <1>5, DefaultIsModern DEF Modern, Default, Configuration, Filters
<1> QED
    BY <1>6 DEF f

LEMMA MigratedIsModern ==
    ASSUME NEW c \in Configuration
    PROVE  Modern(Migrated(c))
<1>1. Kept(c.filters, Messages) \in Filters
    BY EditedFilters DEF Configuration, Filters
<1> QED
    BY <1>1 DEF Modern, Migrated, Configuration, Filters

LEMMA ResolvedIsModern ==
    ASSUME NEW c, Modern(c), running \in Shas
    PROVE  Modern(Resolved(c)) /\ Resolved(c).filters = c.filters
BY DEF Modern, Resolved, Configuration, Pins

LEMMA FilteredIsModern ==
    ASSUME NEW c, Modern(c), NEW f \in Filters
    PROVE  /\ Modern([c EXCEPT !.filters = f])
           /\ [c EXCEPT !.filters = f].filters = f
BY DEF Modern, Configuration, Filters

LEMMA BlankIsModern ==
    ASSUME NEW c, Modern(c)
    PROVE  Modern(BlankForm(c)) /\ BlankForm(c).filters = c.filters
BY DEF Modern, BlankForm, Configuration, Pins

----------------------------------------------------------------------------
\* Types.

\* What is saved, or about to be, is of the version the program writes.
Asked ==
    \A a \in Actor :
        \/ request[a] = Idle
        \/ /\ request[a].at \in {"put", "snapshot", "publish"}
           /\ Modern(request[a].new)
Kinds ==
    /\ Modern(config) /\ Modern(published) /\ Modern(page)
    /\ DOMAIN snapshots \subseteq Second
    /\ \A s \in DOMAIN snapshots : snapshots[s] \in Configuration
    /\ DOMAIN request = Actor
    /\ Asked
Counters ==
    /\ now \in Second
    /\ running \in Shas
    /\ stage \in {"down", "migrate", "refresh", "up"}
    /\ behind \subseteq {"snapshot", "envelope", "target"}
    /\ saves \in 0 .. MaxSaves
    /\ starts \in 0 .. MaxStarts

YInv == TInv /\ Kinds /\ Counters

\* An edit begins a request for a configuration; one that adds a rule or comes
\* from the settings form keeps the rules there are.
LEMMA EditsMake ==
    ASSUME NEW o \in Operator, Edits(o), Modern(config), Modern(page)
    PROVE  \E edit, c :
              /\ Saves(o, edit, c)
              /\ Modern(c)
              /\ edit \in {"suppress", "add", "form"}
                    => IsPrefix(config.filters, c.filters)
<1> DEFINE Made(edit, c) ==
              /\ Saves(o, edit, c)
              /\ Modern(c)
              /\ edit \in {"suppress", "add", "form"}
                    => IsPrefix(config.filters, c.filters)
<1>1. /\ config.filters \in Filters /\ page.filters \in Filters
      /\ page.showing \in BOOLEAN
    BY DEF Modern, Configuration, Filters
<1>2. IsPrefix(config.filters, config.filters)
    BY <1>1, AddedKeeps
<1>3. ASSUME NEW m \in Messages, Suppress(o, m) \/ AddRule(o, m)
      PROVE  \E edit, c : Made(edit, c)
    <2> DEFINE f == Append(config.filters, m)
               c == [config EXCEPT !.filters = f]
    <2>1. m \in Rule
        BY DEF Rule
    <2>2. f \in Filters /\ IsPrefix(config.filters, f)
        BY <1>1, <1>3, <2>1, EditedFilters, AddedKeeps DEF Suppress, AddRule
    <2>3. Modern(c) /\ c.filters = f
        BY <2>2, FilteredIsModern
    <2>4. Saves(o, "suppress", c) \/ Saves(o, "add", c)
        BY <1>3 DEF Suppress, AddRule
    <2> HIDE DEF c
    <2> QED
        BY <2>2, <2>3, <2>4
<1>4. ASSUME NEW m \in Messages, Unsuppress(o, m)
      PROVE  \E edit, c : Made(edit, c)
    <2> DEFINE f == Kept(config.filters, Rule \ {m})
               c == [config EXCEPT !.filters = f]
    <2>1. f \in Filters
        BY <1>1, EditedFilters
    <2>2. Modern(c)
        BY <2>1, FilteredIsModern
    <2>3. Saves(o, "unsuppress", c)
        BY <1>4 DEF Unsuppress
    <2> HIDE DEF c
    <2> QED
        BY <2>2, <2>3
<1>5. CASE AddBlankRule(o)
    <2>1. /\ Modern(BlankForm(config))
          /\ BlankForm(config).filters = config.filters
        BY BlankIsModern
    <2> QED
        BY <1>2, <1>5, <2>1 DEF AddBlankRule
<1>6. CASE DeleteRule(o)
    <2>1. PICK i \in 1 .. Len(page.filters) :
             Saves(o, "delete", IF i <= Len(config.filters)
                       THEN [config EXCEPT !.filters = RemoveAt(@, i)]
                       ELSE BlankForm(config))
        BY <1>6 DEF DeleteRule
    <2>2. Len(page.filters) \in Nat /\ Len(config.filters) \in Nat
        BY <1>1, FiltersAre, LenProperties
    <2>3. CASE i <= Len(config.filters)
        <3> DEFINE f == RemoveAt(config.filters, i)
                   c == [config EXCEPT !.filters = f]
        <3>1. i \in 1 .. Len(config.filters)
            BY <2>2, <2>3
        <3>2. f \in Filters
            BY <1>1, <3>1, EditedFilters
        <3>3. Modern(c) /\ Saves(o, "delete", c)
            BY <2>1, <2>3, <3>2, FilteredIsModern
        <3> HIDE DEF c
        <3> QED
            BY <3>3
    <2>4. CASE ~(i <= Len(config.filters))
        BY <2>1, <2>4, BlankIsModern
    <2> QED
        BY <2>3, <2>4
<1>7. CASE SubmitForm(o)
    <2>1. PICK senders \in [Senders -> {"absent", "allowed", "blocked"}],
               pin \in Pins :
             Saves(o, "form", [config EXCEPT !.senders = senders, !.pin = pin,
                                             !.showing = page.showing])
        BY <1>7, Zenon DEF SubmitForm
    <2> DEFINE c == [config EXCEPT !.senders = senders, !.pin = pin,
                                   !.showing = page.showing]
    <2>2. c = [config EXCEPT !.senders = senders, !.pin = pin,
                             !.showing = page.showing]
        OBVIOUS
    <2>3. Saves(o, "form", c)
        BY <2>1, Zenon
    <2> HIDE DEF c
    <2>4. Modern(c) /\ c.filters = config.filters
        BY <1>1, <2>2 DEF Modern, Configuration
    <2> QED
        BY <1>2, <2>3, <2>4
<1>8. CASE PutWhole(o)
    <2>1. PICK shown \in BOOLEAN :
             Saves(o, "whole", [page EXCEPT !.showing = shown])
        BY <1>8 DEF PutWhole
    <2>2. Modern([page EXCEPT !.showing = shown])
        BY DEF Modern, Configuration
    <2> QED
        BY <2>1, <2>2
<1> QED
    BY <1>3, <1>4, <1>5, <1>6, <1>7, <1>8 DEF Edits

LEMMA TypeInit == Init => YInv
<1> SUFFICES ASSUME Init
             PROVE  YInv
    OBVIOUS
<1>1. Counters
    <2>1. {LastSecond, MaxSaves, MaxStarts} \subseteq Nat
        BY BoundAssumption
    <2> QED
        BY <2>1 DEF Init, Counters, Second
<1>2. DOMAIN snapshots \subseteq Second
    BY BoundAssumption DEF Init, Second
<1>3. \A s \in DOMAIN snapshots : snapshots[s] \in Configuration
    BY DefaultIsModern, OldIsConfiguration DEF Init, Modern
<1>4. Kinds
    BY <1>2, <1>3, DefaultIsModern DEF Init, Kinds, Asked
<1> QED
    BY <1>1, <1>4, TargetInit DEF YInv

\* What a start reads from the bucket is a configuration.
LEMMA RestoredIsModern ==
    ASSUME Kinds, Ordered, Restorable
    PROVE  Modern(Migrated(Newest(snapshots)))
<1>1. PICK s \in DOMAIN snapshots : \A t \in DOMAIN snapshots : t <= s
    BY DEF Ordered
<1>2. Newest(snapshots) \in Configuration
    BY <1>1, NewestIs DEF Kinds, Ordered
<1> QED
    BY <1>2, MigratedIsModern

\* So is every snapshot after one more is written.
LEMMA WrittenAreKinds ==
    ASSUME Kinds, Counters, Ordered, NEW c, Modern(c),
           snapshots' \in {With(snapshots, c), Pruned(With(snapshots, c))}
    PROVE  /\ DOMAIN snapshots' \subseteq Second
           /\ \A s \in DOMAIN snapshots' : snapshots'[s] \in Configuration
<1>1. /\ DOMAIN snapshots' \subseteq 0 .. now
      /\ \A s \in DOMAIN snapshots' :
            \/ snapshots'[s] = c
            \/ s \in DOMAIN snapshots /\ snapshots'[s] = snapshots[s]
    BY WrittenIsNewest
<1>2. 0 .. now \subseteq Second
    BY BoundAssumption DEF Counters, Second
<1> QED
    BY <1>1, <1>2 DEF Kinds, Modern

LEMMA CountersStep ==
    ASSUME Counters, Next
    PROVE  Counters'
<1> USE DEF Counters
<1>1. {LastSecond, MaxSaves, MaxStarts} \subseteq Nat
    BY BoundAssumption
<1>2. CASE Tick
    BY <1>1, <1>2 DEF Tick, Second
<1>3. CASE OpenPage
    BY <1>3 DEF OpenPage
<1>4. ASSUME NEW o \in Operator, NEW edit, NEW c, Saves(o, edit, c)
      PROVE  Counters'
    BY <1>1, <1>4 DEF Saves
<1>5. ASSUME NEW o \in Operator, Edits(o)
      PROVE  Counters'
    BY <1>4, <1>5
       DEF Edits, Suppress, Unsuppress, AddRule, AddBlankRule, DeleteRule,
           SubmitForm, PutWhole
<1>6. ASSUME NEW a \in Actor, Put(a) \/ Snapshot(a) \/ Publish(a)
      PROVE  Counters'
    <2>1. UNCHANGED <<now, running, saves, starts>>
        BY <1>6 DEF Put, Snapshot, Publish
    <2>2. stage' \in {stage, "up"}
        BY <1>6 DEF Put, Snapshot, Publish, Over
    <2>3. behind' \subseteq behind \union {"snapshot", "envelope", "target"}
        BY <1>6 DEF Put, Snapshot, Publish
    <2> QED
        BY <2>1, <2>2, <2>3
<1>7. CASE Crash
    BY <1>7 DEF Crash
<1>8. ASSUME NEW v \in Shas, Rebuild(v)
      PROVE  Counters'
    BY <1>1, <1>8 DEF Rebuild
<1>9. CASE MigrateNothing \/ MigrateAll \/ MigrateFails
    BY <1>9 DEF MigrateNothing, MigrateAll, MigrateFails, Refreshes
<1> QED
    BY <1>2, <1>3, <1>5, <1>6, <1>7, <1>8, <1>9 DEF Next

LEMMA KindsStep ==
    ASSUME YInv, Next
    PROVE  Kinds'
<1> USE DEF Kinds
<1>0. Kinds /\ Counters /\ Ordered
    BY DEF YInv, TInv
<1>1. CASE Tick \/ OpenPage
    BY <1>0, <1>1 DEF Tick, OpenPage, Asked
<1>2. ASSUME NEW o \in Operator, Edits(o)
      PROVE  Kinds'
    <2>1. PICK edit, c : Saves(o, edit, c) /\ Modern(c)
        BY <1>0, <1>2, EditsMake
    <2>2. Asked'
        BY <1>0, <2>1 DEF Saves, Asked, Actor
    <2> QED
        BY <1>0, <2>1, <2>2 DEF Saves
<1>3. ASSUME NEW a \in Actor, Over(a)
      PROVE  Asked' /\ DOMAIN request' = Actor
    BY <1>0, <1>3 DEF Over, Asked
<1>4. ASSUME NEW a \in Actor, NEW at \in {"put", "snapshot", "publish"},
             NEW edit, NEW c, Modern(c),
             request' = [request EXCEPT ![a] =
                            [at |-> at, edit |-> edit, new |-> c]]
      PROVE  Asked' /\ DOMAIN request' = Actor
    BY <1>0, <1>4 DEF Asked
<1>5. ASSUME NEW a \in Actor, request[a].at \in {"put", "snapshot", "publish"}
      PROVE  Modern(request[a].new)
    BY <1>0, <1>5 DEF Asked, Idle
<1>6. ASSUME NEW a \in Actor, Put(a)
      PROVE  Kinds'
    <2>1. Modern(request[a].new) /\ running \in Shas
        BY <1>0, <1>5, <1>6 DEF Put, Counters
    <2>2. CASE /\ config' = Resolved(request[a].new)
               /\ request' = [request EXCEPT ![a] =
                                [at |-> "snapshot", edit |-> @.edit, new |-> config']]
        <3>1. Modern(config')
            BY <2>1, <2>2, ResolvedIsModern
        <3>2. Asked' /\ DOMAIN request' = Actor
            BY <1>4, <2>2, <3>1
        <3> QED
            BY <1>0, <1>6, <3>1, <3>2 DEF Put
    <2>3. CASE Over(a) /\ UNCHANGED config
        BY <1>0, <1>3, <1>6, <2>3 DEF Put
    <2> QED
        BY <1>6, <2>2, <2>3 DEF Put
<1>7. ASSUME NEW a \in Actor, Snapshot(a)
      PROVE  Kinds'
    <2>1. Modern(request[a].new)
        BY <1>5, <1>7 DEF Snapshot
    <2>2. Asked' /\ DOMAIN request' = Actor
        BY <1>4, <1>7, <2>1 DEF Snapshot
    <2>3. /\ DOMAIN snapshots' \subseteq Second
          /\ \A s \in DOMAIN snapshots' : snapshots'[s] \in Configuration
        BY <1>0, <1>7, <2>1, WrittenAreKinds DEF Snapshot
    <2> QED
        BY <1>0, <1>7, <2>2, <2>3 DEF Snapshot
<1>8. ASSUME NEW a \in Actor, Publish(a)
      PROVE  Kinds'
    <2>1. Modern(request[a].new)
        BY <1>5, <1>8 DEF Publish
    <2> QED
        BY <1>0, <1>3, <1>8, <2>1 DEF Publish
<1>9. CASE Crash
    BY <1>0, <1>9 DEF Crash, Asked
<1>10. ASSUME NEW v \in Shas, Rebuild(v)
       PROVE  Kinds'
    <2>1. Modern(config')
        BY <1>0, <1>10, DefaultIsModern, RestoredIsModern DEF Rebuild
    <2> QED
        BY <1>0, <1>10, <2>1 DEF Rebuild, Asked
<1>11. ASSUME NEW c, Modern(c), Refreshes(c)
       PROVE  Asked' /\ DOMAIN request' = Actor
    <2>1. Boot \in Actor
        BY DEF Actor
    <2> QED
        BY <1>4, <1>11, <2>1 DEF Refreshes
<1>12. CASE MigrateNothing
    <2>1. Asked' /\ DOMAIN request' = Actor
        BY <1>0, <1>11, <1>12 DEF MigrateNothing
    <2> QED
        BY <1>0, <1>12, <2>1 DEF MigrateNothing
<1>13. CASE MigrateAll
    <2> DEFINE c == IF Restorable THEN Migrated(Newest(snapshots)) ELSE Default
    <2>1. Modern(c)
        BY <1>0, DefaultIsModern, RestoredIsModern
    <2>2. config' = c /\ published' \in {published, c} /\ UNCHANGED page
        BY <1>13 DEF MigrateAll
    <2>3. CASE /\ snapshots' \in {With(snapshots, c), Pruned(With(snapshots, c))}
               /\ Refreshes(c)
        <3> HIDE DEF c
        <3>1. /\ DOMAIN snapshots' \subseteq Second
              /\ \A s \in DOMAIN snapshots' : snapshots'[s] \in Configuration
            BY <1>0, <2>1, <2>3, WrittenAreKinds
        <3>2. Asked' /\ DOMAIN request' = Actor
            BY <1>11, <2>1, <2>3
        <3> QED
            BY <1>0, <2>1, <2>2, <3>1, <3>2
    <2>4. CASE UNCHANGED request /\ snapshots' \in {snapshots, With(snapshots, c)}
        <3> HIDE DEF c
        <3>1. /\ DOMAIN snapshots' \subseteq Second
              /\ \A s \in DOMAIN snapshots' : snapshots'[s] \in Configuration
            BY <1>0, <2>1, <2>4, WrittenAreKinds
        <3>2. Asked' /\ DOMAIN request' = Actor
            BY <1>0, <2>4 DEF Asked
        <3> QED
            BY <1>0, <2>1, <2>2, <3>1, <3>2
    <2> QED
        BY <1>13, <2>3, <2>4 DEF MigrateAll
<1>14. CASE MigrateFails
    BY <1>0, <1>14 DEF MigrateFails, Asked
<1> QED
    BY <1>1, <1>2, <1>6, <1>7, <1>8, <1>9, <1>10, <1>12, <1>13, <1>14
       DEF Next

THEOREM Inductive == Spec => []YInv
<1>1. YInv /\ [Next]_vars => YInv'
    <2> SUFFICES ASSUME YInv, [Next]_vars
                 PROVE  YInv'
        OBVIOUS
    <2>1. TInv'
        BY TargetStep DEF YInv
    <2>2. CASE Next
        BY <2>1, <2>2, KindsStep, CountersStep DEF YInv
    <2>3. CASE UNCHANGED vars
        BY <2>1, <2>3 DEF YInv, Kinds, Counters, Asked, vars
    <2> QED
        BY <2>2, <2>3
<1> QED
    BY TypeInit, <1>1, PTL DEF Spec

\* Whatever the operators, the starts and the failures do, what is stored,
\* shown, published and kept in S3 is a configuration, and what the program
\* writes itself is of its own version (main.py:1404-1529,
\* config_migrations.py:43-319).
THEOREM TypeCorrect == Spec => []TypeOK
<1>1. YInv => TypeOK
    BY DEF YInv, Kinds, Counters, Asked, Modern, TypeOK
<1> QED
    BY Inductive, <1>1, PTL

----------------------------------------------------------------------------
\* With one thread the configuration an edit has read is still the stored one
\* when the edit is stored.
Grown ==
    \A a \in Actor :
        request[a].at = "put" /\ request[a].edit \in {"suppress", "add", "form"}
            => IsPrefix(config.filters, request[a].new.filters)

RInv == CInv /\ YInv /\ Grown

LEMMA GrownStep ==
    ASSUME Threads = 1, CInv, YInv, Grown, [Next]_vars
    PROVE  Grown'
<1>1. Turns /\ DOMAIN request = Actor /\ Alone
    BY DEF CInv, TInv, Turns
<1>2. ASSUME UNCHANGED <<config, request>>
      PROVE  Grown'
    BY <1>2 DEF Grown
<1>3. ASSUME \A a \in Actor : request'[a].at = "put"
                                => request'[a].edit = "start"
      PROVE  Grown'
    BY <1>3 DEF Grown
<1>4. CASE Tick \/ OpenPage \/ UNCHANGED vars
    BY <1>2, <1>4 DEF Tick, OpenPage, vars
<1>5. ASSUME NEW o \in Operator, Edits(o)
      PROVE  Grown'
    <2>1. PICK edit, c :
              /\ Saves(o, edit, c)
              /\ edit \in {"suppress", "add", "form"}
                    => IsPrefix(config.filters, c.filters)
        BY <1>5, EditsMake DEF YInv, Kinds
    <2>2. \A a \in Actor : request[a].at = "idle"
        BY <1>1, <2>1, ServedAlone
    <2> QED
        BY <1>1, <2>1, <2>2 DEF Saves, Grown, Actor
<1>6. ASSUME NEW a \in Actor, Put(a) \/ Snapshot(a) \/ Publish(a)
      PROVE  Grown'
    <2>1. \A b \in Actor : b # a => request[b].at = "idle"
        BY <1>1, <1>6 DEF Put, Snapshot, Publish, Alone
    <2>2. /\ \A b \in Actor : b # a => request'[b] = request[b]
          /\ request'[a].at # "put"
        BY <1>1, <1>6 DEF Put, Snapshot, Publish, Over, Idle
    <2> QED
        BY <1>3, <2>1, <2>2
<1>7. CASE Crash
    BY <1>3, <1>7 DEF Crash, Idle
<1>8. CASE (\E v \in Shas : Rebuild(v)) \/ MigrateFails
    BY <1>1, <1>3, <1>8 DEF Rebuild, MigrateFails, Turns
<1>9. ASSUME NEW c, Refreshes(c), stage = "migrate"
      PROVE  Grown'
    BY <1>1, <1>3, <1>9 DEF Refreshes, Turns, Actor
<1>10. CASE MigrateNothing
    BY <1>9, <1>10 DEF MigrateNothing
<1>11. CASE MigrateAll
    <2>1. CASE \E c : Refreshes(c)
        BY <1>9, <1>11, <2>1 DEF MigrateAll
    <2>2. CASE UNCHANGED request
        BY <1>1, <1>3, <1>11, <2>2 DEF MigrateAll, Turns
    <2> QED
        BY <1>11, <2>1, <2>2 DEF MigrateAll
<1> QED
    BY <1>4, <1>5, <1>6, <1>7, <1>8, <1>10, <1>11 DEF Next

\* An edit reaches the database in its Put.
LEMMA StoredByPut ==
    ASSUME Turns, Next, NEW o \in Operator,
           request[o].at = "put", request'[o].at = "snapshot"
    PROVE  config' = Resolved(request[o].new)
<1>1. DOMAIN request = Actor /\ o \in Actor
    BY DEF Turns, Actor
<1>2. ASSUME NEW p \in Operator, Edits(p)
      PROVE  FALSE
    <2>1. ASSUME NEW edit, NEW c, Saves(p, edit, c)
          PROVE  FALSE
        BY <1>1, <2>1 DEF Saves
    <2> QED
        BY <1>2, <2>1
           DEF Edits, Suppress, Unsuppress, AddRule, AddBlankRule, DeleteRule,
               SubmitForm, PutWhole
<1>3. ASSUME NEW a \in Actor, Put(a)
      PROVE  config' = Resolved(request[o].new)
    <2>1. a = o
        BY <1>1, <1>3 DEF Put, Over, Idle
    <2> QED
        BY <1>1, <1>3, <2>1 DEF Put, Over, Idle
<1>4. ASSUME NEW a \in Actor, Snapshot(a) \/ Publish(a)
      PROVE  FALSE
    BY <1>1, <1>4 DEF Snapshot, Publish, Over, Idle
<1>5. CASE \/ Tick \/ OpenPage \/ Crash \/ (\E v \in Shas : Rebuild(v))
           \/ MigrateFails
    BY <1>1, <1>5 DEF Tick, OpenPage, Crash, Rebuild, MigrateFails, Idle
<1>6. CASE MigrateNothing \/ MigrateAll
    BY <1>1, <1>6 DEF MigrateNothing, MigrateAll, Turns
<1> QED
    BY <1>2, <1>3, <1>4, <1>5, <1>6 DEF Next

\* On a server with one thread no rule is lost to an edit that was made from
\* an old page: hiding a message, adding a rule and the settings form keep
\* every rule that is stored by then (main.py:1690-1701, 1909-1928, 1955-2108).
THEOREM RulesAlwaysStay ==
    ASSUME Threads = 1
    PROVE  Spec => RulesStay
<1>1. Init => RInv
    BY CopiesInit, TypeInit DEF RInv, Init, Grown, Idle
<1>2. RInv /\ [Next]_vars => RInv'
    <2> SUFFICES ASSUME RInv, [Next]_vars
                 PROVE  RInv'
        OBVIOUS
    <2>1. CInv' /\ Grown'
        BY CopiesStep, GrownStep DEF RInv
    <2>2. TInv'
        BY <2>1 DEF CInv
    <2>3. YInv'
        BY <2>2, KindsStep, CountersStep
           DEF RInv, YInv, Kinds, Counters, Asked, vars
    <2> QED
        BY <2>1, <2>3 DEF RInv
<1>3. ASSUME RInv, Next, NEW o \in Operator,
             Stored(o, {"suppress", "add", "form"})
      PROVE  IsPrefix(config.filters, config'.filters)
    <2>1. o \in Actor
        BY DEF Actor
    <2>2. config' = Resolved(request[o].new)
        BY <1>3, StoredByPut DEF RInv, CInv, TInv, Stored
    <2>3. Modern(request[o].new) /\ running \in Shas
        BY <1>3, <2>1 DEF RInv, YInv, Kinds, Asked, Counters, Stored, Idle
    <2>4. config'.filters = request[o].new.filters
        BY <2>2, <2>3, ResolvedIsModern
    <2> QED
        BY <1>3, <2>1, <2>4 DEF RInv, Grown, Stored
<1>4. RInv /\ [Next]_vars =>
        [ \A o \in Operator :
              Stored(o, {"suppress", "add", "form"}) =>
                  IsPrefix(config.filters, config'.filters) ]_vars
    BY <1>3
<1> QED
    BY <1>1, <1>2, <1>4, PTL DEF Spec, RulesStay

============================================================================
