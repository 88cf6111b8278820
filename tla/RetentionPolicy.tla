---------------------------- MODULE RetentionPolicy ----------------------------
(* The tiered retention policy of db::BackupManager.  A backup is named by  *)
(* the wall clock at which it was made, to the second; here a name is a     *)
(* time in 0..Horizon.                                                      *)
EXTENDS Integers, FiniteSets

CONSTANTS
  Horizon,         \* bound: the last time on the wall clock
  Week,            \* the (year, week) of a time, numbered in order
  Month            \* the (year, month) of a time, numbered in order

Times == 0..Horizon

ASSUME RetentionAssumption ==
  /\ Horizon \in Nat
  /\ Week \in [Times -> Nat] /\ Month \in [Times -> Nat]

(* The minima of settings::BackupSettings. *)
Policy == [recent : Nat \ {0}, weekly : Nat]

(* Mutant: the recent tier is one short. *)
RecentOneShort(S, p) == {f \in S : Cardinality({g \in S : g > f}) < p.recent - 1}

(* Tier 1 of _prune: the newest backups. *)
Recent(S, p) == {f \in S : Cardinality({g \in S : g > f}) < p.recent}

(* Tier 2: beyond them the newest backup of a week, for the first weeks of  *)
(* weekMap, which is in ascending order.                                    *)
NewestOfWeek(S) == {f \in S : \A g \in S : Week[g] = Week[f] => g <= f}
Weekly(rest, p) ==
  LET reps == NewestOfWeek(rest)
  IN  {f \in reps : Cardinality({g \in reps : Week[g] < Week[f]}) < p.weekly}

(* Mutant: the scan begins one file too late. *)
MonthlySkippingFirst(rest, p) ==
  LET S == {f \in rest \ Weekly(rest, p) : \E g \in rest : g > f}
  IN  {f \in S : \A g \in S : Month[g] = Month[f] => g <= f}

(* Tier 3: of what is left, the newest backup of every month. *)
Monthly(rest, p) ==
  LET S == rest \ Weekly(rest, p)
  IN  {f \in S : \A g \in S : Month[g] = Month[f] => g <= f}

Keep(S, p) ==
  LET recent == Recent(S, p)
      rest == S \ recent
  IN  recent \cup Weekly(rest, p) \cup Monthly(rest, p)
=============================================================================
