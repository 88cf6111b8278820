------------------------------- MODULE Retention -------------------------------
(* What the backups promise under one policy: each new backup joins those   *)
(* kept so far and the policy is applied to them at once.                   *)
EXTENDS RetentionPolicy

CONSTANT policy
VARIABLE kept

Init == kept = {}
Next == \E t \in Times : kept' = Keep(kept \cup {t}, policy)
Spec == Init /\ [][Next]_kept
=============================================================================
