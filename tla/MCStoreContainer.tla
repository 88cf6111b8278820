-------------------------- MODULE MCStoreContainer --------------------------
(* The save pipeline on small instances. *)
EXTENDS StoreContainerMirror

(* One process: enough temporary ids for a cash account with its external  *)
(* account and a security account, two trades and a restore in between.    *)
OneSession ==
  [n \in SeqNames |-> IF n \in {"account", "instr"} THEN 3 ELSE 2]

(* Several processes: one of everything, so that a restart follows every   *)
(* way a save can be cut off; one process: a save of everything.           *)
Restarts ==
  [n \in SeqNames |-> IF n = "account" THEN 3 ELSE IF n = "instr" THEN 2 ELSE 1]
=============================================================================
