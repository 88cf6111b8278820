---------------------------- MODULE MCPreferences ----------------------------
(* One profile, widths in and out of range, and two actions, one of which    *)
(* has a stroke.                                                             *)
EXTENDS Preferences

CONSTANTS k1, k2, a, blank

MCStrokes == [k \in {k1, k2} |-> IF k = k1 THEN {a} ELSE {blank}]
==============================================================================
