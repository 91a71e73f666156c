----------------------- MODULE MCEffectsCoordinator -----------------------
(* Small instances of EffectsCoordinator for TLC.                          *)
EXTENDS EffectsCoordinator

CONSTANTS m1, m2, m3

\* m1 is a text, m2 a captionless MMS, m3 an MMS with a caption, in this order.
MCReceivedAt == [m \in Message |-> IF m = m1 THEN 1 ELSE IF m = m2 THEN 2 ELSE 3]
===========================================================================
