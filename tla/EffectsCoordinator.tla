------------------------ MODULE EffectsCoordinator ------------------------
(***************************************************************************)
(* The display loop: EffectsCoordinator.tick() moving through the modes of *)
(* a cycle, the selector that chooses what comes next, the event log that  *)
(* remembers what was shown, and the media effect that may replace the     *)
(* rotation.  The message buffer is the environment: it gains messages and *)
(* re-labels them whenever the MessageManager dispatches an envelope.      *)
(*                                                                         *)
(* A tick whose clock test fails only stages (StayTick); one whose test    *)
(* succeeds is an action of its own, and fairness says that time passes.   *)
(***************************************************************************)
EXTENDS Naturals, Sequences, FiniteSets

CONSTANTS
    Message,     \* message ids
    NoMessage,   \* None
    ReceivedAt,  \* the received_at stamp of each message
    HasBody,     \* messages with a caption to scroll
    HasMedia,    \* messages with attachments
    Algorithm,   \* effects_settings.selector_algorithm
    Fades,       \* the fade_seconds the operator saves
    LogLen,      \* max_entries of the event log
    MaxChanges   \* bound: restarts and re-labellings of the buffer

ASSUME MessagesAssumption ==
    /\ NoMessage \notin Message
    /\ ReceivedAt \in [Message -> Nat]
    /\ HasBody \subseteq Message
    /\ HasMedia \subseteq Message
ASSUME ParameterAssumption ==
    /\ Algorithm \in {"weighted", "random"}
    /\ Fades \subseteq Nat
    /\ LogLen \in Nat \ {0}
    /\ MaxChanges \in Nat

VARIABLES
    buffer,         \* environment: the messages of the ring buffer
    blocked,        \* environment: those a config suppresses
    expired,        \* environment: those older than lookback_seconds
    fade,           \* environment: fade_seconds of the config in force
    changes,        \* environment: re-labellings and restarts so far
    mode,           \* intro, out, in, hold, text_out or background
    current,        \* current_message
    onDeck,         \* on_deck
    cycler,         \* the media effect in self.current: none, active, done
    suppressMedia,  \* _suppress_media_override
    suppressFor,    \* _suppress_for_message_id
    scrolling,      \* the scroller has text to show
    armed,          \* _hold_wait_armed
    wrapped,        \* the text finished a pass since the wait was armed
    overdue,        \* the clock is past _hold_wait_deadline
    log,            \* ids of the text_display events in memory, oldest first
    diskLog         \* the same in the file

envVars == <<buffer, blocked, expired, fade, changes>>
mediaVars == <<cycler, suppressMedia, suppressFor>>
holdVars == <<armed, wrapped, overdue>>
logVars == <<log, diskLog>>
vars == <<envVars, mode, current, onDeck, mediaVars, scrolling, holdVars,
          logVars>>

MaybeMessage == Message \union {NoMessage}
Shown == {log[i] : i \in 1 .. Len(log)}

\* get_messages(suppress=True).
Readable == buffer \ blocked

\* A mutant of Eligible: only the age of a message counts.
EligibleByAge == buffer \ expired

\* build_eligible_messages: the pool of every pick.
Eligible == Readable \ expired

----------------------------------------------------------------------------
\* The selectors.

\* The last text_display event of m is the i-th of the log.
LastShown(m) == CHOOSE i \in 1 .. Len(log) :
                   log[i] = m /\ \A j \in i + 1 .. Len(log) : log[j] # m

\* A mutant of Outscores: the newest message wins, shown or not.
NewestOutscores(a, b) == ReceivedAt[a] > ReceivedAt[b]

\* The 0.6/0.3 score of a beats that of b whatever the exact times are, as
\* long as the events in the log are younger than SATURATION_SECONDS / 2: a
\* message never shown beats a message shown, and otherwise one that leads in
\* one of the two components and does not trail in the other.  No message is
\* a favorite: the coordinator is given none.
Outscores(a, b) ==
    \/ a \notin Shown /\ b \in Shown
    \/ /\ a \notin Shown /\ b \notin Shown
       /\ ReceivedAt[a] > ReceivedAt[b]
    \/ /\ a \in Shown /\ b \in Shown
       /\ ReceivedAt[a] >= ReceivedAt[b]
       /\ LastShown(a) < LastShown(b)

\* A mutant of WithoutExcluded: no message is excluded.
WithExcluded(pool, excluded) == pool

\* pool without the excluded message, unless that would empty it.
WithoutExcluded(pool, excluded) ==
    IF pool \ {excluded} = {} THEN pool ELSE pool \ {excluded}

\* What _pick_message_via_selector may return.
Picks(excluded) ==
    LET pool == WithoutExcluded(Eligible, excluded) IN
    IF Eligible = {} THEN {NoMessage}
    ELSE IF Algorithm = "random" THEN pool
    ELSE {m \in pool : \A n \in pool : ~Outscores(n, m)}

\* _fresh_id_in_buffer: the newest readable message, if it was never shown.
Fresh ==
    {m \in Readable \ ({current} \union Shown) :
        \A n \in Readable : ReceivedAt[n] <= ReceivedAt[m]}

\* A fresh message replaces on_deck, unless a media effect is playing.
Stage ==
    IF Fresh = {} \/ cycler = "active"
    THEN onDeck' = onDeck
    ELSE onDeck' \in Fresh

----------------------------------------------------------------------------
\* The environment.

Arrive(m) ==
    /\ m \notin buffer
    /\ buffer' = buffer \union {m}
    /\ UNCHANGED <<blocked, expired, fade, changes, mode, current, onDeck,
                   mediaVars, scrolling, holdVars, logVars>>

\* A config envelope re-labels the buffer and brings its pacing.
Relabel(suppressed) ==
    /\ changes < MaxChanges
    /\ changes' = changes + 1
    /\ blocked' = suppressed
    /\ fade' \in Fades
    /\ UNCHANGED <<buffer, expired, mode, current, onDeck, mediaVars,
                   scrolling, holdVars, logVars>>

\* Time passes: a message leaves the lookback window, the older ones first.
Expire(m) ==
    /\ m \in Message \ expired
    /\ \A n \in Message \ expired : ReceivedAt[m] <= ReceivedAt[n]
    /\ expired' = expired \union {m}
    /\ UNCHANGED <<buffer, blocked, fade, changes, mode, current, onDeck,
                   mediaVars, scrolling, holdVars, logVars>>

\* A new process: EventLog loads its file, the seed refills the buffer.
NewProcess ==
    /\ mode' = "intro"
    /\ current' = NoMessage
    /\ onDeck' = NoMessage
    /\ cycler' = "none"
    /\ suppressMedia' = FALSE
    /\ suppressFor' = NoMessage
    /\ scrolling' = FALSE
    /\ armed' = FALSE
    /\ wrapped' = FALSE
    /\ overdue' = FALSE
    /\ log' = diskLog
    /\ UNCHANGED <<buffer, blocked, expired, fade, diskLog>>

Restart ==
    /\ changes < MaxChanges
    /\ changes' = changes + 1
    /\ NewProcess

\* The playing media effect has shown every attachment, or lost the last one.
CyclerEnds ==
    /\ cycler = "active"
    /\ cycler' = "done"
    /\ UNCHANGED <<envVars, mode, current, onDeck, suppressMedia,
                   suppressFor, scrolling, holdVars, logVars>>

\* The scroller's text left the panel.
TextWraps ==
    /\ armed /\ ~wrapped
    /\ wrapped' = TRUE
    /\ UNCHANGED <<envVars, mode, current, onDeck, mediaVars, scrolling,
                   armed, overdue, logVars>>

\* The time the text needs to leave the panel, and two seconds, are over.
DeadlinePasses ==
    /\ armed /\ ~overdue
    /\ overdue' = TRUE
    /\ UNCHANGED <<envVars, mode, current, onDeck, mediaVars, scrolling,
                   armed, wrapped, logVars>>

----------------------------------------------------------------------------
\* tick(), one action per mode and outcome.

\* _step_fade divides by fade_seconds: the exception ends the process, and the
\* supervisor starts another.
FadeRaises ==
    /\ mode \in {"out", "in", "text_out"}
    /\ fade = 0
    /\ NewProcess
    /\ UNCHANGED changes

IntroEnds ==
    /\ mode = "intro"
    /\ IF onDeck = NoMessage THEN onDeck' \in Picks(NoMessage)
                             ELSE UNCHANGED onDeck
    /\ mode' = "out"
    /\ UNCHANGED <<envVars, current, mediaVars, scrolling, holdVars,
                   logVars>>

\* A mutant of BuildCycler: without a message the old media effect stays.
BuildCyclerKeepsOld(m) ==
    IF m = NoMessage
    THEN UNCHANGED mediaVars
    ELSE /\ suppressMedia' = FALSE
         /\ suppressFor' = NoMessage
         /\ IF m \in HasMedia /\ ~(suppressMedia /\ suppressFor = m)
            THEN cycler' \in {"active", "done"}
            ELSE cycler' = "none"

\* A mutant of BuildCycler: the flag waits for the message it was set for.
BuildCyclerKeepsFlag(m) ==
    IF m # NoMessage /\ suppressMedia /\ suppressFor = m
    THEN /\ suppressMedia' = FALSE
         /\ suppressFor' = NoMessage
         /\ cycler' = "none"
    ELSE /\ UNCHANGED <<suppressMedia, suppressFor>>
         /\ IF m \in HasMedia THEN cycler' \in {"active", "done"}
                              ELSE cycler' = "none"

\* _maybe_build_media_cycler for m.  A new media effect may find none of its
\* attachments and be done at once.  Without a message the flag stays as it is.
BuildCycler(m) ==
    IF m = NoMessage
    THEN /\ cycler' = "none"
         /\ UNCHANGED <<suppressMedia, suppressFor>>
    ELSE /\ suppressMedia' = FALSE
         /\ suppressFor' = NoMessage
         /\ IF m \in HasMedia /\ ~(suppressMedia /\ suppressFor = m)
            THEN cycler' \in {"active", "done"}
            ELSE cycler' = "none"

\* A mutant of LogDisplay: the log is never pruned.
LogUnbounded(m) ==
    IF m = NoMessage THEN UNCHANGED logVars
    ELSE /\ log' = Append(log, m)
         /\ diskLog' \in {log', diskLog}

\* The text_display event: kept in memory, and in the file unless that write
\* fails, which is logged and forgotten.
LogDisplay(m) ==
    IF m = NoMessage THEN UNCHANGED logVars
    ELSE /\ log' = IF Len(log) < LogLen THEN Append(log, m)
                                        ELSE Append(Tail(log), m)
         /\ diskLog' \in {log', diskLog}

\* The fade to black is complete: on_deck goes on display and the next message
\* is picked.  messages_enabled is read live.
OutEnds ==
    /\ mode = "out"
    /\ fade > 0
    /\ IF onDeck = NoMessage THEN current' \in Picks(NoMessage)
                             ELSE current' = onDeck
    /\ onDeck' \in Picks(current')
    /\ BuildCycler(current')
    /\ LogDisplay(current')
    /\ scrolling' \in IF current' \in HasBody THEN BOOLEAN ELSE {FALSE}
    /\ mode' = "in"
    /\ UNCHANGED <<envVars, holdVars>>

InEnds ==
    /\ mode = "in"
    /\ fade > 0
    /\ mode' = IF current \in HasBody THEN "hold" ELSE "background"
    /\ armed' = FALSE
    /\ UNCHANGED <<envVars, current, onDeck, mediaVars, scrolling, wrapped,
                   overdue, logVars>>

\* A tick of hold, text_out or background before its time is up.
StayTick ==
    /\ mode \in {"hold", "text_out", "background"}
    /\ mode = "text_out" => fade > 0
    /\ cycler # "done"
    /\ Stage
    /\ UNCHANGED <<envVars, mode, current, mediaVars, scrolling, holdVars,
                   logVars>>

\* _maybe_fall_back_to_rotation: the media effect is done.
FallBack ==
    /\ mode \in {"hold", "text_out", "background"}
    /\ mode = "text_out" => fade > 0
    /\ cycler = "done"
    /\ suppressMedia' = TRUE
    /\ suppressFor' = current
    /\ mode' = "out"
    /\ Stage
    /\ UNCHANGED <<envVars, current, cycler, scrolling, holdVars, logVars>>

\* hold_seconds are over in mid-scroll: wait for the text to finish its pass.
HoldArms ==
    /\ mode = "hold"
    /\ cycler # "done"
    /\ scrolling /\ ~armed
    /\ armed' = TRUE
    /\ wrapped' = FALSE
    /\ overdue' = FALSE
    /\ Stage
    /\ UNCHANGED <<envVars, mode, current, mediaVars, scrolling, logVars>>

\* A mutant of HoldEnds: no deadline behind the wait for the text.
HoldEndsOnWrap ==
    /\ mode = "hold"
    /\ cycler # "done"
    /\ scrolling => armed /\ wrapped
    /\ mode' = "text_out"
    /\ armed' = FALSE
    /\ Stage
    /\ UNCHANGED <<envVars, current, mediaVars, scrolling, wrapped, overdue,
                   logVars>>

\* hold_seconds are over and the text wrapped, or the deadline passed.
HoldEnds ==
    /\ mode = "hold"
    /\ cycler # "done"
    /\ scrolling => armed /\ (wrapped \/ overdue)
    /\ mode' = "text_out"
    /\ armed' = FALSE
    /\ Stage
    /\ UNCHANGED <<envVars, current, mediaVars, scrolling, wrapped, overdue,
                   logVars>>

TextOutEnds ==
    /\ mode = "text_out"
    /\ fade > 0
    /\ cycler # "done"
    /\ scrolling' = FALSE
    /\ mode' = "background"
    /\ Stage
    /\ UNCHANGED <<envVars, current, mediaVars, holdVars, logVars>>

BackgroundEnds ==
    /\ mode = "background"
    /\ cycler # "done"
    /\ mode' = "out"
    /\ Stage
    /\ UNCHANGED <<envVars, current, mediaVars, scrolling, holdVars,
                   logVars>>

----------------------------------------------------------------------------
Init ==
    /\ buffer = {}
    /\ blocked \in SUBSET Message
    /\ expired = {}
    /\ fade \in Fades
    /\ changes = 0
    /\ mode = "intro"
    /\ current = NoMessage
    /\ onDeck = NoMessage
    /\ cycler = "none"
    /\ suppressMedia = FALSE
    /\ suppressFor = NoMessage
    /\ scrolling = FALSE
    /\ armed = FALSE
    /\ wrapped = FALSE
    /\ overdue = FALSE
    /\ log = <<>>
    /\ diskLog = <<>>

Environment ==
    \/ \E m \in Message : Arrive(m) \/ Expire(m)
    \/ \E suppressed \in SUBSET Message : Relabel(suppressed)
    \/ Restart

\* The ticks that move the cycle on.
Advance ==
    \/ IntroEnds
    \/ FadeRaises
    \/ OutEnds
    \/ InEnds
    \/ FallBack
    \/ HoldArms
    \/ DeadlinePasses
    \/ HoldEnds
    \/ TextOutEnds
    \/ BackgroundEnds

Next == Environment \/ CyclerEnds \/ TextWraps \/ StayTick \/ Advance

Spec == Init /\ [][Next]_vars

\* The main loop ticks for ever and every pacing time is finite, so the next
\* transition of the current mode is never put off for good.  Nothing is
\* assumed of messages, configs, the media effect or the scroller.
FairSpec == Spec /\ WF_vars(Advance)

----------------------------------------------------------------------------
TypeOK ==
    /\ buffer \subseteq Message
    /\ blocked \subseteq Message
    /\ expired \subseteq Message
    /\ fade \in Fades
    /\ changes \in 0 .. MaxChanges
    /\ mode \in {"intro", "out", "in", "hold", "text_out", "background"}
    /\ current \in MaybeMessage
    /\ onDeck \in MaybeMessage
    /\ cycler \in {"none", "active", "done"}
    /\ suppressMedia \in BOOLEAN
    /\ suppressFor \in MaybeMessage
    /\ scrolling \in BOOLEAN
    /\ armed \in BOOLEAN
    /\ wrapped \in BOOLEAN
    /\ overdue \in BOOLEAN
    /\ log \in Seq(Message) /\ Len(log) <= LogLen
    /\ diskLog \in Seq(Message) /\ Len(diskLog) <= LogLen

\* What the panel does fits the message on it: media effects only for an MMS,
\* text only for a message with a body, and the message is the one the event
\* log names last, which the selector takes for the one just shown.
PanelFitsMessage ==
    /\ cycler # "none" => current \in HasMedia
    /\ scrolling \/ mode \in {"hold", "text_out"} => current \in HasBody
    /\ current # NoMessage => log # <<>> /\ log[Len(log)] = current

\* An MMS goes on display without its media only if it was the last message
\* shown as well: the one-shot flag that lets the rotation have its turn after
\* the media never costs a later showing its media.
MediaIsPlayed ==
    [][ mode = "out" /\ mode' = "in" /\ current' \in HasMedia
            /\ cycler' = "none"
        => log # <<>> /\ log[Len(log)] = current' ]_vars

\* Through fades, media, staging and restarts the loop shows what Display
\* promises: only what the configuration let through when it was chosen, in
\* the order it was put on deck, and no message twice while there is another.
D == INSTANCE Display WITH allowed <- Readable, eligible <- Eligible,
                           deck <- onDeck, panel <- current
ImplementsDisplay == D!Spec

\* The sign never gets stuck in a cycle: not on text that does not scroll, not
\* on media that fails or never ends, not for want of messages, and not for
\* good on a fade_seconds of 0 that is corrected.
CycleGoesOn == <>[](fade > 0) => []<>(mode = "in")

\* Every message that stays eligible for long enough is shown, captionless
\* ones and the older of two fresh arrivals included.
EachIsShown ==
    \A m \in Message : <>[](m \in Eligible) => <>(current = m)

\* A message that stays suppressed leaves the sign for good: a stale on_deck
\* may bring it back once, and no more.
BlockedLeaves ==
    \A m \in Message : <>[](m \notin Readable) => <>[](current # m)

===========================================================================
