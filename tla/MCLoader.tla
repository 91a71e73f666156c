----------------------------- MODULE MCLoader -----------------------------
(* Small instances of Loader for TLC.                                      *)
EXTENDS Loader

CONSTANTS v1, v2, v3

\* v1 and v2 run, alone and mixed; v3 is broken, whichever lib_shared it has.
MCRuns == {v1, v2} \X {v1, v2}
===========================================================================
