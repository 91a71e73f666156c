-------------------------- MODULE StatusPipeline --------------------------
(***************************************************************************)
(* How the state of the sign reaches the dashboard: every five seconds the *)
(* Pi writes .status.json and publishes the same snapshot; the broker      *)
(* hands it to the server, which keeps the last one in memory and in       *)
(* SQLite, and to an open page, which also asks the server once, when it   *)
(* is loaded.  The page keeps the newest snapshot and shows how old it is. *)
(*                                                                         *)
(* Time is counted in periods of five seconds.  A snapshot is known by its *)
(* age, the periods since the Pi made it, up to MaxAge; the clocks of the  *)
(* Pi and of the browser agree.  Within a period the Pi makes its tick,    *)
(* the page renders, and what a connection carries arrives or is lost      *)
(* before the next period is over.                                         *)
(***************************************************************************)
EXTENDS Naturals, Sequences, FiniteSets

CONSTANTS
    LiveFor,      \* LIVE_THRESHOLD_S, in periods
    UnknownFor,   \* UNKNOWN_THRESHOLD_S, in periods
    MaxAge,       \* bound on the ages
    None

ASSUME ThresholdAssumption ==
    /\ {LiveFor, UnknownFor, MaxAge} \subseteq Nat
    /\ 0 < LiveFor /\ LiveFor < UnknownFor /\ UnknownFor <= MaxAge
    /\ None \notin 0 .. MaxAge

Age == 0 .. MaxAge
Listener == {"server", "page"}
\* An old version of the program publishes snapshots without the keys the
\* server and the page ask for.
Pi == {"down", "old", "current"}

VARIABLES
    pi,         \* the display process: down, or the version it runs
    due,        \* what has still to run in this period
    file,       \* .status.json: the age of the snapshot in it
    link,       \* the publisher of the Pi is connected
    listening,  \* who is subscribed to the status topic
    wire,       \* listener -> the snapshots on their way to it
    server,     \* the server: down, restore, up
    latest,     \* LatestSignStatus: the age held and where it came from
    rows,       \* sign_status_log: the age of the last row
    open,       \* a page with the pill is open
    shown,      \* the page: the age of _latestSnapshot
    source,     \* the page: _latestStatusSource
    badge,      \* the page: the persisted badge is visible
    pill,       \* the page: what the pill says
    reply       \* the page: its request for /api/sign-status

piVars == <<pi, file, link>>
wireVars == <<listening, wire>>
serverVars == <<server, latest, rows>>
pageVars == <<open, shown, source, badge, pill, reply>>
vars == <<due, piVars, wireVars, serverVars, pageVars>>

Empty == [age |-> None, source |-> ""]
NoReply == [at |-> "idle", held |-> Empty]

Older(a) == IF a = None \/ a = MaxAge THEN a ELSE a + 1
Aged(held) == [held EXCEPT !.age = Older(@)]

----------------------------------------------------------------------------
\* A period ends.
Tick ==
    /\ due = {}
    /\ \A l \in Listener : \A i \in 1 .. Len(wire[l]) : wire[l][i].age = 0
    /\ due' = {w \in {"pi", "page"} : /\ w = "pi" => pi # "down"
                                      /\ w = "page" => open}
    /\ file' = Older(file)
    /\ wire' = [l \in Listener |->
                  [i \in 1 .. Len(wire[l]) |-> Aged(wire[l][i])]]
    /\ latest' = Aged(latest)
    /\ rows' = Older(rows)
    /\ shown' = Older(shown)
    /\ reply' = [reply EXCEPT !.held = Aged(@)]
    /\ UNCHANGED <<pi, link, listening, server, open, source, badge, pill>>

----------------------------------------------------------------------------
\* The Pi.

\* StatusPublisher.publish at QoS 0: nothing is kept for a connection that is
\* down, a failure is only logged (the reconnect it schedules changes nothing
\* that the network thread would not do), and the broker keeps nothing for
\* who is not subscribed.
PublishStatus(reached) ==
    wire' = [l \in Listener |->
                IF link /\ l \in reached
                THEN Append(wire[l], [age |-> 0, whole |-> pi = "current"])
                ELSE wire[l]]

\* StatusWriter.tick: the file is replaced, then the snapshot is published.
WriteStatus(reached) ==
    /\ "pi" \in due
    /\ due' = due \ {"pi"}
    /\ file' = 0
    /\ PublishStatus(reached)
    /\ UNCHANGED <<pi, link, listening, serverVars, pageVars>>

\* The write fails: nothing is published, and the next iteration of the loop
\* tries again, as long as the period lasts.
WriteFails ==
    /\ "pi" \in due
    /\ due' = due \ {"pi"}
    /\ UNCHANGED <<piVars, wireVars, serverVars, pageVars>>

PiStops ==
    /\ pi # "down"
    /\ pi' = "down"
    /\ link' = FALSE
    /\ due' = due \ {"pi"}
    /\ UNCHANGED <<file, wireVars, serverVars, pageVars>>

PiStarts ==
    /\ pi = "down"
    /\ pi' \in {"old", "current"}
    /\ UNCHANGED <<due, file, link, wireVars, serverVars, pageVars>>

\* The connection of the Pi comes and goes.
LinkChanges ==
    /\ pi # "down"
    /\ link' = ~link
    /\ UNCHANGED <<due, pi, file, wireVars, serverVars, pageVars>>

----------------------------------------------------------------------------
\* The broker, which serves clean sessions.

Subscribe(l) ==
    /\ l \notin listening
    /\ IF l = "server" THEN server = "up" ELSE open
    /\ listening' = listening \union {l}
    /\ UNCHANGED <<due, wire, piVars, serverVars, pageVars>>

Disconnect(l) ==
    /\ l \in listening
    /\ listening' = listening \ {l}
    /\ wire' = [wire EXCEPT ![l] = <<>>]
    /\ UNCHANGED <<due, piVars, serverVars, pageVars>>

----------------------------------------------------------------------------
\* The server.

\* _on_status_payload: a snapshot that lacks a key is dropped; the row may
\* fail to be stored.
OnStatusPayload ==
    /\ wire["server"] # <<>>
    /\ wire' = [wire EXCEPT !["server"] = Tail(@)]
    /\ LET snapshot == Head(wire["server"]) IN
       \/ /\ ~snapshot.whole
          /\ UNCHANGED serverVars
       \/ /\ snapshot.whole
          /\ latest' = [age |-> snapshot.age, source |-> "live"]
          /\ \/ rows' = snapshot.age
             \/ UNCHANGED rows
          /\ UNCHANGED server
    /\ UNCHANGED <<due, listening, piVars, pageVars>>

ServerStops ==
    /\ server # "down"
    /\ server' = "down"
    /\ latest' = Empty
    /\ listening' = listening \ {"server"}
    /\ wire' = [wire EXCEPT !["server"] = <<>>]
    /\ reply' = IF reply.at = "asked" THEN NoReply ELSE reply
    /\ UNCHANGED <<due, piVars, rows, open, shown, source, badge,
                   pill>>

\* rebuild_from_s3 begins by removing the database file; only when the system
\* refuses to remove it are the rows still there.
RebuildFromS3 ==
    /\ server = "down"
    /\ server' = "restore"
    /\ rows' \in {None, rows}
    /\ UNCHANGED <<due, piVars, wireVars, latest, pageVars>>

\* A mutant of RestoreLastKnownStatus: no row is not told from a row.
RestoreLastKnownStatusAlways ==
    /\ server = "restore"
    /\ server' = "up"
    /\ latest' = [age |-> rows, source |-> "persisted"]
    /\ UNCHANGED <<due, piVars, wireVars, rows, pageVars>>

\* _restore_last_known_status, before the subscriber is started; a read of
\* SQLite that raises leaves the store empty as well.
RestoreLastKnownStatus ==
    /\ server = "restore"
    /\ server' = "up"
    /\ \/ latest' = Empty
       \/ rows # None /\ latest' = [age |-> rows, source |-> "persisted"]
    /\ UNCHANGED <<due, piVars, wireVars, rows, pageVars>>

----------------------------------------------------------------------------
\* The page.

\* computeState
State(age) ==
    CASE age = None \/ age >= UnknownFor -> "offline"
      [] age # None /\ age < LiveFor -> "live"
      [] OTHER -> "unknown"

\* A page is loaded, or loaded again.
OpenPage ==
    /\ open' = TRUE
    /\ shown' = None
    /\ source' = ""
    /\ badge' = FALSE
    /\ pill' = State(None)
    /\ reply' = [NoReply EXCEPT !.at = "asked"]
    /\ listening' = listening \ {"page"}
    /\ wire' = [wire EXCEPT !["page"] = <<>>]
    /\ UNCHANGED <<due, piVars, serverVars>>

\* GET /api/sign-status
ApiSignStatus ==
    /\ reply.at = "asked"
    /\ server = "up"
    /\ reply' = [at |-> "served", held |-> latest]
    /\ UNCHANGED <<due, piVars, wireVars, serverVars, open, shown, source,
                   badge, pill>>

\* The request fails.
FetchFails ==
    /\ reply.at # "idle"
    /\ reply' = NoReply
    /\ UNCHANGED <<due, piVars, wireVars, serverVars, open, shown, source,
                   badge, pill>>

\* A mutant of MaybeAcceptSnapshot: the last to arrive wins.
MaybeAcceptSnapshotAny(age) == shown' = age /\ pill' = State(shown')

\* maybeAcceptSnapshot: only a newer one replaces the one the page has.
MaybeAcceptSnapshot(age) ==
    IF shown = None \/ age < shown
    THEN shown' = age /\ pill' = State(shown')
    ELSE UNCHANGED <<shown, pill>>

\* hydrateFromServer, when the answer arrives: badge and source follow the
\* answer, whatever the page has received in the meantime.
HydrateFromServer ==
    /\ reply.at = "served"
    /\ IF reply.held.age = None THEN UNCHANGED <<shown, pill>>
                                ELSE MaybeAcceptSnapshot(reply.held.age)
    /\ source' = reply.held.source
    /\ badge' = (reply.held.source = "persisted")
    /\ reply' = NoReply
    /\ UNCHANGED <<due, piVars, wireVars, serverVars, open>>

\* A mutant of LiveSource: only the source the page began with is replaced.
LiveSourceOnce ==
    IF source = "" THEN source' = "live" /\ badge' = FALSE
                   ELSE UNCHANGED <<source, badge>>

LiveSource ==
    IF source # "live" THEN source' = "live" /\ badge' = FALSE
                       ELSE UNCHANGED <<source, badge>>

\* onEnvelope of the status client.
OnEnvelope ==
    /\ wire["page"] # <<>>
    /\ wire' = [wire EXCEPT !["page"] = Tail(@)]
    /\ IF Head(wire["page"]).whole THEN MaybeAcceptSnapshot(Head(wire["page"]).age)
                                   ELSE UNCHANGED <<shown, pill>>
    /\ LiveSource
    /\ UNCHANGED <<due, listening, piVars, serverVars, open, reply>>

\* A mutant of Rerender: the timer leaves the pill alone.
RerenderNothing ==
    /\ "page" \in due
    /\ due' = due \ {"page"}
    /\ UNCHANGED <<piVars, wireVars, serverVars, pageVars>>

\* The timer of the page, every five seconds.
Rerender ==
    /\ "page" \in due
    /\ due' = due \ {"page"}
    /\ pill' = State(shown)
    /\ UNCHANGED <<piVars, wireVars, serverVars, open, shown, source, badge,
                   reply>>

----------------------------------------------------------------------------
Init ==
    /\ pi = "down"
    /\ due = {}
    /\ file = None
    /\ link = FALSE
    /\ listening = {}
    /\ wire = [l \in Listener |-> <<>>]
    /\ server = "down"
    /\ latest = Empty
    /\ rows = None
    /\ open = FALSE
    /\ shown = None
    /\ source = ""
    /\ badge = FALSE
    /\ pill = State(None)
    /\ reply = NoReply

Next ==
    \/ Tick
    \/ \E reached \in SUBSET listening : WriteStatus(reached)
    \/ WriteFails
    \/ PiStops
    \/ PiStarts
    \/ LinkChanges
    \/ \E l \in Listener : Subscribe(l) \/ Disconnect(l)
    \/ OnStatusPayload
    \/ ServerStops
    \/ RebuildFromS3
    \/ RestoreLastKnownStatus
    \/ OpenPage
    \/ ApiSignStatus
    \/ FetchFails
    \/ HydrateFromServer
    \/ OnEnvelope
    \/ Rerender

Spec == Init /\ [][Next]_vars

\* Time passes, what arrives is handled, timers fire and a request that is
\* under way ends; a Pi that writes and publishes for ever gets through for
\* ever.  Nothing else is assumed of users, processes and connections.
Fairness ==
    /\ WF_vars(Tick)
    /\ WF_vars(OnStatusPayload)
    /\ WF_vars(OnEnvelope)
    /\ WF_vars(Rerender)
    /\ WF_vars(HydrateFromServer \/ FetchFails)
    /\ SF_vars(link /\ WriteStatus(listening))
    /\ WF_vars(\E reached \in SUBSET listening : WriteStatus(reached))

FairSpec == Spec /\ Fairness

----------------------------------------------------------------------------
Snapshot == [age : Age, whole : BOOLEAN]
Held == {Empty} \union [age : Age, source : {"live", "persisted"}]

TypeOK ==
    /\ pi \in Pi
    /\ due \subseteq {"pi", "page"}
    /\ file \in Age \union {None}
    /\ link \in BOOLEAN
    /\ listening \subseteq Listener
    /\ wire \in [Listener -> Seq(Snapshot)]
    /\ \A l \in Listener : Len(wire[l]) <= 2
    /\ server \in {"down", "restore", "up"}
    /\ latest \in Held
    /\ rows \in Age \union {None}
    /\ {open, badge} \subseteq BOOLEAN
    /\ shown \in Age \union {None}
    /\ source \in {"", "live", "persisted"}
    /\ pill \in {"live", "unknown", "offline"}
    /\ reply \in [at : {"idle", "asked", "served"}, held : Held]

\* A pill that says Live is not a leftover: the sign has written its status
\* file within the live window and the period the page takes to render again,
\* through whatever restarts, losses and late answers (sign_status.js:61-130,
\* 590-605; status.py:163-190).
PillIsHonest ==
    pill = "live" => file # None /\ file <= LiveFor

\* The page never goes back to an older snapshot, although the answer of the
\* server may arrive after newer messages (sign_status.js:9-10, 528-551).
PageMovesForward ==
    [][ \/ Tick
        \/ OpenPage
        \/ shown = None
        \/ shown' # None /\ shown' <= shown]_vars

Calm ==
    /\ pi = "current" /\ link
    /\ server = "up" /\ listening = Listener

\* Once sign, server and page stay up and connected, the page says Live and
\* not "Last seen" again and again, and the server holds a live snapshot,
\* whatever the start of the server restored and however late its answer
\* reached the page (sign_status.js:481-503, 633-650; main.py:320-328).
Settles ==
    <>[]Calm => []<>(/\ pill = "live" /\ ~badge /\ source = "live"
                     /\ latest.source = "live")

============================================================================
