------------------------- MODULE MCMessageManager -------------------------
(* Small instances of MessageManager for TLC.                              *)
EXTENDS MessageManager

CONSTANTS m1, m2, m3, alice, mallory

MCSenderOf == [m \in Message |-> IF m = m2 THEN mallory ELSE alice]
MCReceivedAt == [m \in Message |-> IF m = m1 THEN 1 ELSE IF m = m2 THEN 2 ELSE 3]

\* SignConfig(): enforcement on, nobody listed, so nothing may be shown.
MCDefaultConfig == ConfigWith(0, TRUE, <<>>, {})
\* mallory is listed but not allowed; one rule hides m1, a disabled one would
\* hide m3.
MCSaved == ConfigWith(1, TRUE, [s \in {alice, mallory} |-> s = alice],
                      {[status |-> "enabled", matches |-> {m1}],
                       [status |-> "disabled", matches |-> {m3}]})
MCConfig == {MCDefaultConfig, MCSaved}
MCBothRuntimes == {FALSE, TRUE}
MCPi == {FALSE}
MCBrowser == {TRUE}
===========================================================================
