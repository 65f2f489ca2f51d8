--------------------------- MODULE MCConfigStore ---------------------------
(* ConfigStore for TLC.                                                    *)
EXTENDS ConfigStore

CONSTANTS a, b, v1, v2

OneSource == {<<[name |-> a, val |-> v1]>>}
=============================================================================
