--------------------------- MODULE BackupRetention ---------------------------
(* The backups of the database: db::BackupManager::createBackup, called by  *)
(* RepoContainer at every start of the program before the schema is         *)
(* migrated.  A start may fail or die at each of its steps, the settings    *)
(* may change between two starts, and the wall clock that names the files   *)
(* may be set back (at the end of daylight saving time, or by the user).    *)
EXTENDS RetentionPolicy

CONSTANTS
  Policies,        \* the policies the settings are given
  MaxFalls         \* bound: times the clock is set back

ASSUME PoliciesAssumption ==
  /\ Policies \subseteq Policy /\ Policies # {}
  /\ MaxFalls \in Nat

VARIABLES
  clock,           \* the wall clock
  falls,           \* times the clock was set back
  pc,              \* "off", "pruning" or "on"
  enabled,         \* BackupSettings::_enableBackup
  policy,          \* BackupSettings::_recentCount and _weeklyCount
  files,           \* the backup directory, as names
  hollow,          \* the files whose copy failed
  doomed,          \* the files _prune has yet to remove
  \* history
  ever,            \* the names of all backups ever made
  copied,          \* a complete copy was made once
  settled          \* the directory is as a completed prune left it

settings == <<enabled, policy>>
history == <<ever, copied, settled>>
vars == <<clock, falls, pc, settings, files, hollow, doomed, history>>

Init ==
  /\ clock = 0 /\ falls = 0 /\ pc = "off"
  /\ enabled = TRUE /\ policy \in Policies
  /\ files = {} /\ hollow = {} /\ doomed = {}
  /\ ever = {} /\ copied = FALSE /\ settled = TRUE

-----------------------------------------------------------------------------
(* The clock is read only by a start. *)
Pass ==
  /\ pc = "off" /\ clock < Horizon
  /\ clock' = clock + 1
  /\ UNCHANGED <<falls, pc, settings, files, hollow, doomed, history>>

FallBack ==
  /\ pc = "off" /\ falls < MaxFalls /\ clock > 0
  /\ clock' \in 0..(clock - 1) /\ falls' = falls + 1
  /\ UNCHANGED <<pc, settings, files, hollow, doomed, history>>

(* The settings take effect at the next start. *)
ChangeSettings ==
  /\ pc = "on"
  /\ enabled' \in BOOLEAN /\ policy' \in Policies
  /\ UNCHANGED <<clock, falls, pc, files, hollow, doomed, history>>

StartWithoutBackup ==
  /\ pc = "off" /\ ~ enabled
  /\ pc' = "on"
  /\ UNCHANGED <<clock, falls, settings, files, hollow, doomed, history>>

(* The new file joins the directory.  A failing copy is rolled back: it     *)
(* leaves an empty file, or the one that had the name before.               *)
AddFile(ok) ==
  /\ files' = files \cup {clock}
  /\ hollow' = IF ok THEN hollow \ {clock}
               ELSE IF clock \in files THEN hollow ELSE hollow \cup {clock}
  /\ copied' = (copied \/ ok)
  /\ ever' = ever \cup {clock}

(* Mutant: the monthly tier is forgotten. *)
BackUpKeepingTwoTiers(ok) ==
  /\ pc = "off" /\ enabled
  /\ AddFile(ok)
  /\ LET recent == Recent(files', policy)
     IN  doomed' = files' \ (recent \cup Weekly(files' \ recent, policy))
  /\ pc' = "pruning" /\ settled' = FALSE
  /\ UNCHANGED <<clock, falls, settings>>

(* createBackup: sqlite3_backup_step may fail, its result is not read. *)
BackUp(ok) ==
  /\ pc = "off" /\ enabled
  /\ AddFile(ok)
  /\ doomed' = files' \ Keep(files', policy)
  /\ pc' = "pruning" /\ settled' = FALSE
  /\ UNCHANGED <<clock, falls, settings>>

(* createBackup throws before it prunes, because the file cannot be opened  *)
(* or the copy cannot begin; RepoContainer goes on.                         *)
BackUpThrows ==
  /\ pc = "off" /\ enabled
  /\ \/ AddFile(FALSE) /\ settled' = FALSE
     \/ UNCHANGED <<files, hollow, history>>
  /\ pc' = "on"
  /\ UNCHANGED <<clock, falls, settings, doomed>>

Newest(S) == CHOOSE f \in S : \A g \in S : g <= f

(* The loop that ends _prune removes newest first. *)
Remove ==
  /\ pc = "pruning" /\ doomed # {}
  /\ files' = files \ {Newest(doomed)} /\ hollow' = hollow \ {Newest(doomed)}
  /\ doomed' = doomed \ {Newest(doomed)}
  /\ UNCHANGED <<clock, falls, pc, settings, history>>

(* std::filesystem::remove throws and RepoContainer goes on. *)
RemoveThrows ==
  /\ pc = "pruning" /\ doomed # {}
  /\ doomed' = {} /\ pc' = "on"
  /\ UNCHANGED <<clock, falls, settings, files, hollow, history>>

Pruned ==
  /\ pc = "pruning" /\ doomed = {}
  /\ pc' = "on" /\ settled' = TRUE
  /\ UNCHANGED <<clock, falls, settings, files, hollow, doomed, ever, copied>>

(* The process ends or dies. *)
End ==
  /\ pc # "off"
  /\ pc' = "off" /\ doomed' = {}
  /\ UNCHANGED <<clock, falls, settings, files, hollow, history>>

Next ==
  \/ Pass \/ FallBack \/ ChangeSettings
  \/ StartWithoutBackup \/ (\E ok \in BOOLEAN : BackUp(ok)) \/ BackUpThrows
  \/ Remove \/ RemoveThrows \/ Pruned \/ End

Spec == Init /\ [][Next]_vars

-----------------------------------------------------------------------------
(* Properties. *)

TypeOK ==
  /\ clock \in Times /\ falls \in 0..MaxFalls
  /\ pc \in {"off", "pruning", "on"}
  /\ enabled \in BOOLEAN /\ policy \in Policies
  /\ files \subseteq Times /\ hollow \subseteq files /\ doomed \subseteq files
  /\ ever \subseteq Times /\ files \subseteq ever
  /\ copied \in BOOLEAN /\ settled \in BOOLEAN

(* A month in which a backup was ever made has one for ever, whatever the   *)
(* settings become, wherever a prune is cut off, and although the clock is  *)
(* set back (the monthly tier of _prune, unbounded).                        *)
MonthKept == \A t \in ever : \E f \in files \ doomed : Month[f] = Month[t]

(* With a single policy, as long as no more copies have failed than the     *)
(* recent tier and one week of the weekly tier hold, a complete copy        *)
(* survives every prune, one that fails to copy before it prunes included.  *)
CopySurvives ==
  copied /\ Cardinality(hollow) <= policy.recent + (IF policy.weekly > 0 THEN 1 ELSE 0)
    => files \ hollow # {}

(* With a single policy, prunes that were cut off leave no trace: the directory *)
(* is at every moment worth what it would be if every prune so far had been *)
(* completed at once, and is exactly that after a prune that was completed. *)
Cut == INSTANCE Retention WITH
         policy <- CHOOSE p \in Policies : TRUE,
         kept <- IF settled THEN files ELSE Keep(files, policy)
CutsLeaveNoTrace == Cut!Spec
=============================================================================
