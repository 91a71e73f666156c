--------------------------- MODULE MCConfigStore ---------------------------
(* Small instances of ConfigStore for TLC.                                  *)
EXTENDS ConfigStore, TLC

CONSTANTS m1, s1, sha1, sha2, alice, bob

\* Operators are interchangeable.
Symmetry == Permutations({alice, bob})
============================================================================
