------------------------------ MODULE Display ------------------------------
(***************************************************************************)
(* What the sign promises about the messages it shows, whatever effects,   *)
(* fades and media do in between: one message is on the panel and one is   *)
(* next.  Only messages the configuration lets through become next, what   *)
(* is next goes on the panel, and while there is a choice the message on   *)
(* the panel is not also the next one.                                     *)
(***************************************************************************)

CONSTANTS
    Message,   \* message ids
    NoMessage  \* an empty place

VARIABLES
    allowed,   \* messages the configuration lets through
    eligible,  \* the allowed messages that are not too old
    deck,      \* the next message
    panel      \* the message on the panel

vars == <<allowed, eligible, deck, panel>>

\* What may be chosen while m is on the panel.
Choice(m) ==
    IF eligible = {} THEN {NoMessage}
    ELSE IF eligible \ {m} = {} THEN eligible
    ELSE eligible \ {m}

Init ==
    /\ eligible \subseteq allowed
    /\ allowed \subseteq Message
    /\ deck = NoMessage
    /\ panel = NoMessage

\* Messages arrive and grow old, and configurations come and go.
Change ==
    /\ allowed' \in SUBSET Message
    /\ eligible' \in SUBSET allowed'
    /\ UNCHANGED <<deck, panel>>

\* The empty deck gets a message.
Fill ==
    /\ deck = NoMessage
    /\ deck' \in Choice(NoMessage)
    /\ UNCHANGED <<allowed, eligible, panel>>

\* A new message comes before the one that was next.
Promote ==
    /\ deck' \in allowed \ {panel}
    /\ UNCHANGED <<allowed, eligible, panel>>

\* What is next goes on the panel, and another message becomes next.
Turn ==
    /\ IF deck = NoMessage THEN panel' \in Choice(NoMessage)
                           ELSE panel' = deck
    /\ deck' \in Choice(panel')
    /\ UNCHANGED <<allowed, eligible>>

\* The sign is switched on.
SwitchOn ==
    /\ deck' = NoMessage
    /\ panel' = NoMessage
    /\ UNCHANGED <<allowed, eligible>>

Next == Change \/ Fill \/ Promote \/ Turn \/ SwitchOn

Spec == Init /\ [][Next]_vars
===========================================================================
