------------------------- MODULE MCStatusPipeline -------------------------
\* The thresholds are the smallest that tell the three states of the pill
\* apart; an age past the last of them changes nothing.
EXTENDS StatusPipeline
============================================================================
