-------------------------- MODULE MCBackupRetention --------------------------
(* The backups on small calendars. *)
EXTENDS BackupRetention

(* Weeks of two days and months of three: a week may span two months, as    *)
(* real ones do.                                                           *)
DaysWeek == [t \in Times |-> t \div 2]
DaysMonth == [t \in Times |-> (t + 1) \div 3]
RecentTwo == {[recent |-> 2, weekly |-> 1]}
=============================================================================
