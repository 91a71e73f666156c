---------------------- MODULE EffectsCoordinatorProofs ----------------------
(***************************************************************************)
(* Theorems about EffectsCoordinator, for every set of messages, either    *)
(* selector, all fade times and every size of the event log.               *)
(*                                                                         *)
(* The proofs follow tick(): the lemmas about picks, staging and the log   *)
(* say what the parts of a transition leave behind, one lemma shows that   *)
(* each transition keeps the invariant, and another that each is a step of *)
(* Display.                                                                *)
(***************************************************************************)
EXTENDS EffectsCoordinator, SequenceTheorems, TLAPS

\* The last event of the log is about m.
LastIs(m) == log # <<>> /\ log[Len(log)] = m

\* While the one-shot flag is up, the message it was set for was shown last:
\* a cycle without a message leaves both the flag and the log alone.
FlagIsFresh == suppressMedia => suppressFor \in Message /\ LastIs(suppressFor)

IInv == TypeOK /\ PanelFitsMessage /\ FlagIsFresh

----------------------------------------------------------------------------
\* What the parts of a tick leave behind.

\* A pick is an eligible message or none (effects_coordinator.py:1094-1166).
LEMMA PicksAreMessages ==
    ASSUME TypeOK, NEW excluded, NEW m \in Picks(excluded)
    PROVE  m \in MaybeMessage
BY DEF TypeOK, Picks, WithoutExcluded, Eligible, Readable, MaybeMessage

\* Every pick is a choice of Display: the weights only narrow it down.
LEMMA PicksAreChoices ==
    ASSUME NEW excluded
    PROVE  Picks(excluded) \subseteq D!Choice(excluded)
BY DEF Picks, WithoutExcluded, D!Choice

\* Staging leaves a message, or none, on deck.
LEMMA StagedIsMessage ==
    ASSUME TypeOK, Stage
    PROVE  onDeck' \in MaybeMessage
BY DEF TypeOK, Stage, Fresh, Readable, MaybeMessage

\* What staging puts on deck is let through and not on display.
LEMMA StagedIsAllowed ==
    ASSUME Stage
    PROVE  onDeck' = onDeck \/ onDeck' \in Readable \ {current}
BY DEF Stage, Fresh

\* Append with pruning keeps the log of a type and a size, and ends in m
\* (event_log.py: append of the text_display event).
LEMMA LogEndsIn ==
    ASSUME NEW s \in Seq(Message), Len(s) <= LogLen, NEW m \in Message,
           NEW t, t = IF Len(s) < LogLen THEN Append(s, m)
                                         ELSE Append(Tail(s), m)
    PROVE  /\ t \in Seq(Message)
           /\ Len(t) <= LogLen
           /\ t # <<>>
           /\ t[Len(t)] = m
<1>1. LogLen \in Nat /\ LogLen > 0
    BY ParameterAssumption
<1>2. Len(s) \in Nat
    BY LenProperties
<1>3. CASE Len(s) < LogLen
    <2>1. t = Append(s, m)
        BY <1>3
    <2> QED
        BY <2>1, <1>1, <1>2, <1>3, AppendProperties
<1>4. CASE Len(s) = LogLen
    <2>1. s # <<>>
        BY <1>1, <1>4
    <2>2. Tail(s) \in Seq(Message) /\ Len(Tail(s)) = Len(s) - 1
        BY <2>1, HeadTailProperties
    <2>3. t = Append(Tail(s), m)
        BY <1>1, <1>4
    <2> QED
        BY <2>2, <2>3, <1>1, <1>4, AppendProperties
<1> QED
    BY <1>1, <1>2, <1>3, <1>4

\* After LogDisplay(m) the log ends in m, or is as it was when m is none.
LEMMA DisplayIsLogged ==
    ASSUME TypeOK, NEW m \in MaybeMessage, LogDisplay(m)
    PROVE  /\ log' \in Seq(Message) /\ Len(log') <= LogLen
           /\ diskLog' \in Seq(Message) /\ Len(diskLog') <= LogLen
           /\ m = NoMessage => log' = log
           /\ m # NoMessage => log' # <<>> /\ log'[Len(log')] = m
<1>1. CASE m = NoMessage
    BY <1>1 DEF LogDisplay, logVars, TypeOK
<1>2. CASE m # NoMessage
    <2>1. m \in Message
        BY <1>2 DEF MaybeMessage
    <2>2. /\ log' = IF Len(log) < LogLen THEN Append(log, m)
                                         ELSE Append(Tail(log), m)
          /\ diskLog' \in {log', diskLog}
        BY <1>2 DEF LogDisplay
    <2>3. /\ log' \in Seq(Message) /\ Len(log') <= LogLen
          /\ log' # <<>> /\ log'[Len(log')] = m
        BY <2>1, <2>2, LogEndsIn DEF TypeOK
    <2> QED
        BY <1>2, <2>2, <2>3 DEF TypeOK
<1> QED
    BY <1>1, <1>2

\* A media effect is built for an MMS only, and the flag does not outlive the
\* next message (effects_coordinator.py:649-671).
LEMMA CyclerIsBuilt ==
    ASSUME TypeOK, NEW m \in MaybeMessage, BuildCycler(m)
    PROVE  /\ cycler' \in {"none", "active", "done"}
           /\ cycler' # "none" => m \in HasMedia
           /\ suppressMedia' \in BOOLEAN /\ suppressFor' \in MaybeMessage
           /\ suppressMedia' => /\ m = NoMessage
                                /\ UNCHANGED <<suppressMedia, suppressFor>>
           /\ m \in HasMedia /\ cycler' = "none"
                => suppressMedia /\ suppressFor = m
<1>1. NoMessage \notin HasMedia
    BY MessagesAssumption
<1> QED
    BY <1>1 DEF TypeOK, BuildCycler, MaybeMessage

----------------------------------------------------------------------------
\* The invariant.

LEMMA InitInvariant == Init => IInv
<1> SUFFICES ASSUME Init PROVE IInv
    OBVIOUS
<1>1. <<>> \in Seq(Message) /\ Len(<<>>) = 0
    BY EmptySeq
<1>2. LogLen \in Nat /\ MaxChanges \in Nat
    BY ParameterAssumption
<1>3. /\ log \in Seq(Message) /\ Len(log) <= LogLen
      /\ diskLog \in Seq(Message) /\ Len(diskLog) <= LogLen
    BY <1>1, <1>2 DEF Init
<1>5. /\ buffer \subseteq Message /\ blocked \subseteq Message
      /\ expired \subseteq Message /\ fade \in Fades
      /\ changes \in 0 .. MaxChanges
    BY <1>2 DEF Init
<1>6. /\ mode = "intro" /\ cycler = "none"
      /\ current \in MaybeMessage /\ onDeck \in MaybeMessage
      /\ suppressFor \in MaybeMessage
      /\ <<suppressMedia, scrolling, armed, wrapped, overdue>>
            = <<FALSE, FALSE, FALSE, FALSE, FALSE>>
    BY DEF Init, MaybeMessage
<1>4. TypeOK
    BY <1>3, <1>5, <1>6 DEF TypeOK
<1> QED
    BY <1>4 DEF Init, IInv, PanelFitsMessage, FlagIsFresh

\* A new process starts from the log on disk and with an empty panel.
LEMMA NewProcessKeeps ==
    ASSUME IInv, NewProcess, changes' \in 0 .. MaxChanges
    PROVE  IInv'
<1>1. TypeOK'
    BY DEF IInv, NewProcess, TypeOK, MaybeMessage
<1>2. PanelFitsMessage'
    BY DEF NewProcess, PanelFitsMessage
<1>3. FlagIsFresh'
    BY DEF NewProcess, FlagIsFresh
<1> QED
    BY <1>1, <1>2, <1>3 DEF IInv

\* Messages, configurations, time and restarts keep it.
LEMMA EnvironmentKeeps ==
    ASSUME IInv, Environment
    PROVE  IInv'
<1>1. changes \in Nat /\ MaxChanges \in Nat /\ changes <= MaxChanges
    BY ParameterAssumption DEF IInv, TypeOK
<1>2. CASE \E m \in Message : Arrive(m)
    BY <1>2 DEF Arrive, IInv, TypeOK, PanelFitsMessage, FlagIsFresh, LastIs,
                mediaVars, holdVars, logVars
<1>3. CASE \E m \in Message : Expire(m)
    BY <1>3 DEF Expire, IInv, TypeOK, PanelFitsMessage, FlagIsFresh, LastIs,
                mediaVars, holdVars, logVars
<1>4. CASE \E suppressed \in SUBSET Message : Relabel(suppressed)
    <2>1. changes' \in 0 .. MaxChanges
        BY <1>1, <1>4 DEF Relabel
    <2> QED
        BY <1>4, <2>1 DEF Relabel, IInv, TypeOK, PanelFitsMessage,
                          FlagIsFresh, LastIs, mediaVars, holdVars, logVars
<1>5. CASE Restart
    <2>1. changes' \in 0 .. MaxChanges
        BY <1>1, <1>5 DEF Restart
    <2> QED
        BY <1>5, <2>1, NewProcessKeeps DEF Restart
<1> QED
    BY <1>2, <1>3, <1>4, <1>5 DEF Environment

\* The message that comes to the panel gets its own effect and log event.
LEMMA OutEndsKeeps ==
    ASSUME IInv, OutEnds
    PROVE  IInv'
<1>1. TypeOK
    BY DEF IInv
<1>2. current' \in MaybeMessage
    BY <1>1, PicksAreMessages DEF OutEnds, TypeOK
<1>3. onDeck' \in MaybeMessage
    BY <1>1, PicksAreMessages DEF OutEnds
<1>4. BuildCycler(current') /\ LogDisplay(current')
    BY DEF OutEnds
<1>5. /\ cycler' \in {"none", "active", "done"}
      /\ cycler' # "none" => current' \in HasMedia
      /\ suppressMedia' \in BOOLEAN /\ suppressFor' \in MaybeMessage
      /\ suppressMedia' => /\ current' = NoMessage
                           /\ UNCHANGED <<suppressMedia, suppressFor>>
    BY <1>1, <1>2, <1>4, CyclerIsBuilt
<1>6. /\ log' \in Seq(Message) /\ Len(log') <= LogLen
      /\ diskLog' \in Seq(Message) /\ Len(diskLog') <= LogLen
      /\ current' = NoMessage => log' = log
      /\ current' # NoMessage => log' # <<>> /\ log'[Len(log')] = current'
    BY <1>1, <1>2, <1>4, DisplayIsLogged
<1>7. /\ mode' = "in" /\ scrolling' \in BOOLEAN
      /\ scrolling' => current' \in HasBody
      /\ UNCHANGED <<envVars, holdVars>>
    BY DEF OutEnds
<1>8. TypeOK'
    BY <1>1, <1>2, <1>3, <1>5, <1>6, <1>7
       DEF TypeOK, envVars, holdVars
<1>9. PanelFitsMessage'
    BY <1>5, <1>6, <1>7 DEF PanelFitsMessage
<1>10. FlagIsFresh'
    BY <1>5, <1>6 DEF IInv, FlagIsFresh, LastIs
<1> QED
    BY <1>8, <1>9, <1>10 DEF IInv

\* The fall-back sets the flag for the MMS on the panel.
LEMMA FallBackKeeps ==
    ASSUME IInv, FallBack
    PROVE  IInv'
<1>1. current \in HasMedia /\ current \in Message /\ current # NoMessage
    BY MessagesAssumption DEF IInv, PanelFitsMessage, FallBack
<1>2. onDeck' \in MaybeMessage
    BY StagedIsMessage DEF IInv, FallBack
<1>3. TypeOK'
    BY <1>1, <1>2 DEF IInv, TypeOK, FallBack, MaybeMessage, envVars, holdVars,
                      logVars
<1>4. PanelFitsMessage'
    BY DEF IInv, PanelFitsMessage, FallBack, logVars
<1>5. FlagIsFresh'
    BY <1>1 DEF IInv, PanelFitsMessage, FallBack, FlagIsFresh, LastIs, logVars
<1> QED
    BY <1>3, <1>4, <1>5 DEF IInv

\* The other transitions leave the message, its log event and the flag alone.
LEMMA TickKeeps ==
    ASSUME IInv,
           \/ IntroEnds \/ InEnds \/ StayTick \/ HoldArms \/ HoldEnds
           \/ TextOutEnds \/ BackgroundEnds
           \/ CyclerEnds \/ TextWraps \/ DeadlinePasses
    PROVE  IInv'
<1>1. onDeck' \in MaybeMessage
    BY PicksAreMessages, StagedIsMessage
       DEF IInv, TypeOK, IntroEnds, InEnds, StayTick, HoldArms, HoldEnds,
           TextOutEnds, BackgroundEnds, CyclerEnds, TextWraps, DeadlinePasses
<1>2. UNCHANGED <<envVars, current, suppressMedia, suppressFor, logVars>>
    BY DEF IntroEnds, InEnds, StayTick, HoldArms, HoldEnds, TextOutEnds,
           BackgroundEnds, CyclerEnds, TextWraps, DeadlinePasses, mediaVars
<1>3. /\ cycler' \in {cycler, "done"} /\ (cycler' # cycler => cycler = "active")
      /\ scrolling' \in {scrolling, FALSE}
    BY DEF IntroEnds, InEnds, StayTick, HoldArms, HoldEnds, TextOutEnds,
           BackgroundEnds, CyclerEnds, TextWraps, DeadlinePasses, mediaVars
<1>4. /\ armed' \in {armed, TRUE, FALSE}
      /\ wrapped' \in {wrapped, TRUE, FALSE}
      /\ overdue' \in {overdue, TRUE, FALSE}
    BY DEF IntroEnds, InEnds, StayTick, HoldArms, HoldEnds, TextOutEnds,
           BackgroundEnds, CyclerEnds, TextWraps, DeadlinePasses, holdVars
<1>5. mode' \in {"intro", "out", "in", "hold", "text_out", "background"}
    <2>1. mode \in {"intro", "out", "in", "hold", "text_out", "background"}
        BY DEF IInv, TypeOK
    <2>2. CASE InEnds
        BY <2>2 DEF InEnds
    <2>3. CASE IntroEnds \/ HoldEnds \/ TextOutEnds \/ BackgroundEnds
        BY <2>3 DEF IntroEnds, HoldEnds, TextOutEnds, BackgroundEnds
    <2>4. CASE \/ StayTick \/ HoldArms
               \/ CyclerEnds \/ TextWraps \/ DeadlinePasses
        BY <2>1, <2>4
           DEF StayTick, HoldArms, CyclerEnds, TextWraps, DeadlinePasses
    <2> QED
        BY <2>2, <2>3, <2>4
<1>6. ASSUME mode' \in {"hold", "text_out"}, mode \notin {"hold", "text_out"}
      PROVE  current \in HasBody
    BY <1>6
       DEF IntroEnds, InEnds, StayTick, HoldArms, HoldEnds,
           TextOutEnds, BackgroundEnds, CyclerEnds, TextWraps, DeadlinePasses
<1>7. TypeOK'
    BY <1>1, <1>2, <1>3, <1>4, <1>5 DEF IInv, TypeOK, envVars, logVars
<1>8. PanelFitsMessage'
    <2>1. cycler' # "none" => current' \in HasMedia
        BY <1>2, <1>3 DEF IInv, PanelFitsMessage
    <2>2. scrolling' => current' \in HasBody
        BY <1>2, <1>3 DEF IInv, PanelFitsMessage
    <2>3. mode' \in {"hold", "text_out"} => current' \in HasBody
        BY <1>2, <1>6 DEF IInv, PanelFitsMessage
    <2>4. current' # NoMessage => log' # <<>> /\ log'[Len(log')] = current'
        BY <1>2 DEF IInv, PanelFitsMessage, logVars
    <2> QED
        BY <2>1, <2>2, <2>3, <2>4 DEF PanelFitsMessage
<1>9. FlagIsFresh'
    BY <1>2 DEF IInv, FlagIsFresh, LastIs, logVars
<1> QED
    BY <1>7, <1>8, <1>9 DEF IInv

\* IInv is inductive.
THEOREM Inductive == Spec => []IInv
<1>1. IInv /\ [Next]_vars => IInv'
    <2> SUFFICES ASSUME IInv, [Next]_vars PROVE IInv'
        OBVIOUS
    <2>1. CASE UNCHANGED vars
        BY <2>1 DEF IInv, TypeOK, PanelFitsMessage, FlagIsFresh, LastIs, vars,
                    envVars, mediaVars, holdVars, logVars
    <2>2. CASE FadeRaises
        BY <2>2, NewProcessKeeps DEF FadeRaises, IInv, TypeOK
    <2> QED
        BY <2>1, <2>2, EnvironmentKeeps, OutEndsKeeps, FallBackKeeps,
           TickKeeps DEF Next, Advance
<1> QED
    BY InitInvariant, <1>1, PTL DEF Spec

\* The state of the display loop keeps its types, and neither log grows past
\* max_entries (effects_coordinator.py:183-352, event_log.py:125).
THEOREM TypeCorrect == Spec => []TypeOK
<1>1. IInv => TypeOK
    BY DEF IInv
<1> QED
    BY Inductive, <1>1, PTL

\* The panel never plays media or text of a message other than the one on
\* display, which is the one the event log names last
\* (effects_coordinator.py:620-690).
THEOREM PanelAlwaysFits == Spec => []PanelFitsMessage
<1>1. IInv => PanelFitsMessage
    BY DEF IInv
<1> QED
    BY Inductive, <1>1, PTL

\* The one-shot flag costs an MMS its media only right after they ended
\* (effects_coordinator.py:649-671): a cycle without a message leaves the flag
\* up, but then the message it was set for is still the last one shown.
THEOREM MediaAlwaysPlayed == Spec => MediaIsPlayed
<1>1. ASSUME IInv, Next, mode = "out", mode' = "in", current' \in HasMedia,
             cycler' = "none"
      PROVE  log # <<>> /\ log[Len(log)] = current'
    <2>1. OutEnds
        BY <1>1 DEF Next, Environment, Advance, Arrive, Expire, Relabel,
                    Restart, NewProcess, CyclerEnds, TextWraps, StayTick,
                    IntroEnds, FadeRaises, InEnds, FallBack, HoldArms,
                    DeadlinePasses, HoldEnds, TextOutEnds, BackgroundEnds
    <2>2. current' \in MaybeMessage
        BY <1>1, MessagesAssumption DEF MaybeMessage
    <2>3. suppressMedia /\ suppressFor = current'
        BY <1>1, <2>1, <2>2, CyclerIsBuilt DEF OutEnds, IInv
    <2> QED
        BY <1>1, <2>3 DEF IInv, FlagIsFresh, LastIs
<1>2. IInv /\ [Next]_vars =>
        [ mode = "out" /\ mode' = "in" /\ current' \in HasMedia
              /\ cycler' = "none"
          => log # <<>> /\ log[Len(log)] = current' ]_vars
    BY <1>1
<1> QED
    BY Inductive, <1>2, PTL DEF Spec, MediaIsPlayed

----------------------------------------------------------------------------
\* The display loop implements Display.

\* What the buffer lets through is a set of messages.
LEMMA ReadableAreMessages ==
    ASSUME TypeOK
    PROVE  Readable \subseteq Message /\ Eligible \subseteq Readable
BY DEF TypeOK, Readable, Eligible

LEMMA InitDisplay == Init => D!Init
BY DEF Init, D!Init, Readable, Eligible

\* While the buffer, its labels and the clock stand still, so do the sets a
\* choice is made from.
LEMMA SameChoice ==
    ASSUME UNCHANGED <<buffer, blocked, expired>>
    PROVE  UNCHANGED <<Readable, Eligible>>
BY DEF Readable, Eligible

\* The environment changes what may be shown, and a restart clears the sign.
LEMMA EnvironmentDisplay ==
    ASSUME TypeOK', Environment
    PROVE  D!Next
<1>1. CASE Restart
    BY <1>1, SameChoice DEF Restart, NewProcess, D!Next, D!SwitchOn
<1>2. CASE ~Restart
    <2>1. UNCHANGED <<onDeck, current>>
        BY <1>2 DEF Environment, Arrive, Expire, Relabel
    <2>2. Readable' \in SUBSET Message /\ Eligible' \in SUBSET Readable'
        BY DEF TypeOK, Readable, Eligible
    <2> QED
        BY <2>1, <2>2 DEF D!Next, D!Change
<1> QED
    BY <1>1, <1>2

\* The first pick fills the deck, and the end of a fade turns it over.
LEMMA PickDisplay ==
    ASSUME IntroEnds \/ OutEnds
    PROVE  D!Next \/ UNCHANGED D!vars
<1>1. CASE IntroEnds
    <2>1. UNCHANGED <<Readable, Eligible, current>>
        BY <1>1, SameChoice DEF IntroEnds, envVars
    <2> QED
        BY <1>1, <2>1, PicksAreChoices
           DEF IntroEnds, D!Next, D!Fill, D!vars
<1>2. CASE OutEnds
    <2>1. UNCHANGED <<Readable, Eligible>>
        BY <1>2, SameChoice DEF OutEnds, envVars
    <2>2. onDeck' \in D!Choice(current')
        BY <1>2, PicksAreChoices DEF OutEnds
    <2>3. IF onDeck = NoMessage THEN current' \in D!Choice(NoMessage)
                                ELSE current' = onDeck
        BY <1>2, PicksAreChoices DEF OutEnds
    <2> QED
        BY <2>1, <2>2, <2>3 DEF D!Next, D!Turn
<1> QED
    BY <1>1, <1>2

\* The other transitions promote a fresh message or change nothing.
LEMMA TickDisplay ==
    ASSUME \/ InEnds \/ StayTick \/ FallBack \/ HoldArms \/ HoldEnds
           \/ TextOutEnds \/ BackgroundEnds
           \/ CyclerEnds \/ TextWraps \/ DeadlinePasses
    PROVE  D!Next \/ UNCHANGED D!vars
<1>1. UNCHANGED <<buffer, blocked, expired, current>>
    BY DEF InEnds, StayTick, FallBack, HoldArms, HoldEnds, TextOutEnds,
           BackgroundEnds, CyclerEnds, TextWraps, DeadlinePasses, envVars
<1>2. onDeck' = onDeck \/ onDeck' \in Readable \ {current}
    BY StagedIsAllowed
       DEF InEnds, StayTick, FallBack, HoldArms, HoldEnds, TextOutEnds,
           BackgroundEnds, CyclerEnds, TextWraps, DeadlinePasses
<1> QED
    BY <1>1, <1>2, SameChoice DEF D!Next, D!Promote, D!vars

\* The display loop implements Display: a message gets on deck only when the
\* configuration lets it through, goes on display only from there, and is not
\* repeated while another is eligible (effects_coordinator.py:371-1166).
THEOREM ShowsAsPromised == Spec => ImplementsDisplay
<1>1. IInv /\ IInv' /\ [Next]_vars => [D!Next]_D!vars
    <2> SUFFICES ASSUME IInv', [Next]_vars
                 PROVE  D!Next \/ UNCHANGED D!vars
        OBVIOUS
    <2>1. CASE UNCHANGED vars
        BY <2>1 DEF vars, envVars, D!vars, Readable, Eligible
    <2>2. CASE FadeRaises
        BY <2>2, SameChoice DEF FadeRaises, NewProcess, D!Next, D!SwitchOn
    <2>3. CASE Environment
        BY <2>3, EnvironmentDisplay DEF IInv
    <2> QED
        BY <2>1, <2>2, <2>3, PickDisplay, TickDisplay DEF Next, Advance
<1> QED
    BY InitDisplay, Inductive, <1>1, PTL DEF Spec, ImplementsDisplay, D!Spec
===========================================================================
