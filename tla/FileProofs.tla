------------------------------ MODULE FileProofs -----------------------------
(* What a start does to the files of the program, for every calendar, every *)
(* set of policies and every horizon: the types of the backups, a backup    *)
(* for every month that ever had one, a complete copy that survives the     *)
(* prunes, and prunes that may be cut off anywhere.  Then the upgrade that  *)
(* the backups are made before, for every set of files that releases may    *)
(* have left, whatever their rows: its types, that no file is left half     *)
(* upgraded, that the program runs on tables of today only, that an upgrade *)
(* fails for a clash of names only, and that it implements `Upgrade'.  What *)
(* the steps make of the schema is a formula without constants, which TLC   *)
(* computes (PlanAssumption); what they do to the rows is proved here.      *)
EXTENDS BackupRetention, Migration, Sequences, TLAPS, WellFoundedInduction,
        FiniteSetTheorems

-----------------------------------------------------------------------------
(* The backups. *)

(* A set of natural numbers has a least element, hence a set of times a     *)
(* newest one.                                                              *)
LEMMA LeastExists ==
  ASSUME NEW T \in SUBSET Nat, T # {}
  PROVE  \E x \in T : \A y \in T : x <= y
<1> DEFINE R == OpToRel(<, Nat)
<1>1. IsWellFoundedOn(R, Nat)
  BY NatLessThanWellFounded
<1>2. PICK x \in T : \A y \in T : ~ (<<y, x>> \in R)
  <2> HIDE DEF R
  <2> QED
    BY <1>1, WFMin
<1>3. \A y \in T : <<y, x>> \in Nat \X Nat /\ (y < x => <<y, x>> \in R)
  BY DEF OpToRel
<1>4. \A y \in T : ~ (y < x)
  BY <1>2, <1>3
<1> QED
  BY <1>4

LEMMA NewestExists ==
  ASSUME NEW T \in SUBSET Times, T # {}
  PROVE  \E x \in T : \A y \in T : y <= x
<1> DEFINE D == {Horizon - t : t \in T}
<1>1. Horizon \in Nat /\ \A t \in T : t \in Nat /\ t <= Horizon
  BY RetentionAssumption DEF Times
<1>2. D \in SUBSET Nat
  BY <1>1
<1>3. PICK t \in T : TRUE
  OBVIOUS
<1>4. Horizon - t \in D
  BY <1>3
<1>5. PICK d \in D : \A y \in D : d <= y
  <2> HIDE DEF D
  <2> QED
    BY <1>2, <1>4, LeastExists
<1>6. PICK x \in T : d = Horizon - x
  OBVIOUS
<1>7. \A y \in T : d <= Horizon - y
  BY <1>5
<1> QED
  BY <1>1, <1>6, <1>7

(* The policy keeps a backup of every month it finds. *)
LEMMA KeepCoversMonths ==
  ASSUME NEW S \in SUBSET Times, NEW p, NEW t \in S
  PROVE  \E f \in Keep(S, p) : Month[f] = Month[t]
<1> DEFINE recent == Recent(S, p)
           rest == S \ recent
           weekly == Weekly(rest, p)
           left == rest \ weekly
<1>1. Keep(S, p) = recent \cup weekly \cup Monthly(rest, p)
  BY DEF Keep
<1>2. Monthly(rest, p) = {f \in left : \A g \in left : Month[g] = Month[f] => g <= f}
  BY DEF Monthly
<1>3. t \in recent \/ t \in weekly \/ t \in left
  OBVIOUS
<1>4. left \subseteq Times
  OBVIOUS
<1> HIDE DEF recent, rest, weekly, left
<1>5. CASE t \in left
  <2> DEFINE T == {g \in left : Month[g] = Month[t]}
  <2>1. T \in SUBSET Times /\ T # {}
    BY <1>4, <1>5
  <2>2. PICK x \in T : \A y \in T : y <= x
    <3> HIDE DEF T
    <3> QED
      BY <2>1, NewestExists
  <2>3. x \in Monthly(rest, p) /\ Month[x] = Month[t]
    BY <1>2, <2>2
  <2> QED
    BY <1>1, <2>3
<1> QED
  BY <1>1, <1>3, <1>5

LEMMA KeepWithin ==
  ASSUME NEW S, NEW p
  PROVE  Keep(S, p) \subseteq S
BY DEF Keep, Recent, Weekly, Monthly, NewestOfWeek

-----------------------------------------------------------------------------
(* The invariant: besides the months, nothing is doomed outside of a prune. *)
Inv == TypeOK /\ MonthKept /\ (pc # "pruning" => doomed = {})

LEMMA AddFileType ==
  ASSUME TypeOK, NEW ok \in BOOLEAN, AddFile(ok)
  PROVE  /\ files' = files \cup {clock} /\ ever' = ever \cup {clock}
         /\ files' \subseteq Times /\ hollow' \subseteq files' /\ ever' \subseteq Times
         /\ files' \subseteq ever' /\ copied' \in BOOLEAN
<1>1. clock \in Times /\ files \subseteq Times /\ hollow \subseteq files /\ ever \subseteq Times
      /\ files \subseteq ever
  BY DEF TypeOK
<1>2. copied' \in BOOLEAN
  BY DEF AddFile, TypeOK
<1>3. hollow' \subseteq files'
  BY <1>1 DEF AddFile
<1> QED
  BY <1>1, <1>2, <1>3 DEF AddFile

LEMMA InitInv == Init => Inv
<1> SUFFICES ASSUME Init PROVE Inv
  OBVIOUS
<1>1. 0 \in Times /\ 0 \in 0..MaxFalls
  BY RetentionAssumption, PoliciesAssumption DEF Times
<1>2. enabled \in BOOLEAN /\ copied \in BOOLEAN /\ settled \in BOOLEAN
  BY DEF Init
<1>3. TypeOK
  BY <1>1, <1>2 DEF Init, TypeOK
<1> QED
  BY <1>3 DEF Init, Inv, MonthKept

LEMMA StepInv ==
  ASSUME Inv, [Next]_vars
  PROVE  Inv'
<1> USE DEF settings, history
<1>0. TypeOK /\ MonthKept /\ (pc # "pruning" => doomed = {})
  BY DEF Inv
<1>1. CASE Pass
  <2>1. clock' \in Times
    BY <1>0, <1>1, RetentionAssumption DEF Pass, TypeOK, Times
  <2> QED
    BY <1>0, <1>1, <2>1 DEF Pass, Inv, TypeOK, MonthKept
<1>2. CASE FallBack
  <2>1. clock' \in Times /\ falls' \in 0..MaxFalls
    BY <1>0, <1>2, RetentionAssumption, PoliciesAssumption DEF FallBack, TypeOK, Times
  <2> QED
    BY <1>0, <1>2, <2>1 DEF FallBack, Inv, TypeOK, MonthKept
<1>3. CASE ChangeSettings
  BY <1>0, <1>3 DEF ChangeSettings, Inv, TypeOK, MonthKept
<1>4. CASE StartWithoutBackup
  BY <1>0, <1>4 DEF StartWithoutBackup, Inv, TypeOK, MonthKept
<1>5. CASE \E ok \in BOOLEAN : BackUp(ok)
  <2>1. PICK ok \in BOOLEAN : BackUp(ok)
    BY <1>5
  <2>2. /\ files' = files \cup {clock} /\ ever' = ever \cup {clock}
        /\ files' \subseteq Times /\ hollow' \subseteq files' /\ ever' \subseteq Times
        /\ files' \subseteq ever' /\ copied' \in BOOLEAN
    BY <1>0, <2>1, AddFileType DEF BackUp
  <2>3. doomed' = files' \ Keep(files', policy) /\ pc' = "pruning" /\ settled' = FALSE
        /\ UNCHANGED <<clock, falls, enabled, policy>>
    BY <2>1 DEF BackUp
  <2>4. TypeOK'
    BY <1>0, <2>2, <2>3 DEF TypeOK
  <2>5. ASSUME NEW t \in ever' PROVE \E f \in files' \ doomed' : Month[f] = Month[t]
    <3>1. PICK g \in files' : Month[g] = Month[t]
      BY <1>0, <2>2, <2>3 DEF MonthKept
    <3>2. PICK f \in Keep(files', policy) : Month[f] = Month[g]
      BY <2>2, <3>1, KeepCoversMonths
    <3>3. f \in files' \ doomed'
      BY <2>3, <3>2, KeepWithin
    <3> QED
      BY <3>1, <3>2, <3>3
  <2> QED
    BY <2>3, <2>4, <2>5 DEF Inv, MonthKept
<1>6. CASE BackUpThrows
  <2>1. doomed = {} /\ doomed' = {} /\ pc' = "on" /\ UNCHANGED <<clock, falls, enabled, policy>>
    BY <1>0, <1>6 DEF BackUpThrows
  <2>2. CASE AddFile(FALSE) /\ settled' = FALSE
    <3>1. /\ files' = files \cup {clock} /\ ever' = ever \cup {clock}
          /\ files' \subseteq Times /\ hollow' \subseteq files' /\ ever' \subseteq Times
          /\ files' \subseteq ever' /\ copied' \in BOOLEAN
      BY <1>0, <2>2, AddFileType
    <3>2. TypeOK'
      BY <1>0, <2>1, <2>2, <3>1 DEF TypeOK
    <3>3. MonthKept'
      BY <1>0, <2>1, <3>1 DEF MonthKept
    <3> QED
      BY <2>1, <3>2, <3>3 DEF Inv
  <2>3. CASE UNCHANGED <<files, hollow, history>>
    BY <1>0, <2>1, <2>3 DEF Inv, TypeOK, MonthKept
  <2> QED
    BY <1>6, <2>2, <2>3 DEF BackUpThrows
<1>7. CASE Remove
  <2> DEFINE n == Newest(doomed)
  <2>3. /\ files' = files \ {n} /\ hollow' = hollow \ {n} /\ doomed' = doomed \ {n}
        /\ UNCHANGED <<clock, falls, pc, enabled, policy, ever, copied, settled>>
    BY <1>7 DEF Remove
  <2>5. doomed \in SUBSET Times /\ doomed # {}
    BY <1>0, <1>7 DEF Remove, TypeOK
  <2>6. n \in doomed
    BY <2>5, NewestExists DEF Newest
  <2> HIDE DEF n
  <2>1. files' \ doomed' = files \ doomed
    BY <2>3, <2>6
  <2>4. /\ files' \subseteq Times /\ hollow' \subseteq files'
        /\ doomed' \subseteq files' /\ files' \subseteq ever
    BY <1>0, <2>3 DEF TypeOK
  <2>2. TypeOK'
    BY <1>0, <2>3, <2>4 DEF TypeOK
  <2> QED
    BY <1>0, <1>7, <2>1, <2>2 DEF Remove, Inv, MonthKept
<1>8. CASE RemoveThrows
  BY <1>0, <1>8 DEF RemoveThrows, Inv, TypeOK, MonthKept
<1>9. CASE Pruned
  BY <1>0, <1>9 DEF Pruned, Inv, TypeOK, MonthKept
<1>10. CASE End
  BY <1>0, <1>10 DEF End, Inv, TypeOK, MonthKept
<1>11. CASE UNCHANGED vars
  BY <1>0, <1>11 DEF vars, Inv, TypeOK, MonthKept
<1> QED
  BY <1>1, <1>2, <1>3, <1>4, <1>5, <1>6, <1>7, <1>8, <1>9, <1>10, <1>11 DEF Next

(* Every reachable state of the backups is well typed; in particular only   *)
(* files in the directory are ever about to be removed.                     *)
THEOREM BackupTypeCorrect == Spec => []TypeOK
<1>1. Init => Inv
  BY InitInv
<1>2. Inv /\ [Next]_vars => Inv'
  BY StepInv
<1>3. Inv => TypeOK
  BY DEF Inv
<1> QED
  BY <1>1, <1>2, <1>3, PTL DEF Spec

(* A month in which a backup was ever made has one for ever: the monthly    *)
(* tier of _prune is unbounded, and a prune that is cut off only keeps more. *)
THEOREM MonthsAreKept == Spec => []MonthKept
<1>1. Init => Inv
  BY InitInv
<1>2. Inv /\ [Next]_vars => Inv'
  BY StepInv
<1>3. Inv => MonthKept
  BY DEF Inv
<1> QED
  BY <1>1, <1>2, <1>3, PTL DEF Spec

-----------------------------------------------------------------------------
(* The tiers of the policy. *)

LEMMA Counts ==
  ASSUME NEW S \in SUBSET Times
  PROVE  /\ IsFiniteSet(S) /\ Cardinality(S) \in Nat
         /\ \A T \in SUBSET S : Cardinality(T) \in Nat /\ Cardinality(T) <= Cardinality(S)
<1>1. IsFiniteSet(Times)
  BY FS_Interval, RetentionAssumption DEF Times
<1>2. \A T \in SUBSET Times : IsFiniteSet(T) /\ Cardinality(T) \in Nat
  BY <1>1, FS_Subset, FS_CardinalityType
<1> QED BY <1>2, FS_Subset

LEMMA TimesAreNat == Times \subseteq Nat /\ \A t \in Times : Week[t] \in Nat /\ Month[t] \in Nat
BY RetentionAssumption DEF Times

(* Once a backup is beyond the recent tier, that tier is full. *)
LEMMA RecentFull ==
  ASSUME NEW S \in SUBSET Times, NEW p \in Policy, NEW x \in S \ Recent(S, p)
  PROVE  /\ Cardinality(Recent(S, p)) >= p.recent
         /\ \A g \in Recent(S, p) : g > x
<1>0. p.recent \in Nat /\ S \subseteq Nat
  BY TimesAreNat DEF Policy
<1> DEFINE newer(f) == {g \in S : g > f}
<1>1. \A f \in S : newer(f) \in SUBSET Times /\ Cardinality(newer(f)) \in Nat
  BY Counts
<1>2. \A f \in S : f \in Recent(S, p) <=> Cardinality(newer(f)) < p.recent
  BY DEF Recent
<1>3. ASSUME NEW f \in Recent(S, p), NEW y \in S \ Recent(S, p) PROVE f > y
  <2>1. f \in S
    BY DEF Recent
  <2>2. CASE f <= y
    <3>1. newer(y) \in SUBSET newer(f)
      <4>1. f \in Nat /\ y \in Nat
        BY <1>0, <2>1
      <4>2. \A g \in S : g > y => g > f
        BY <1>0, <2>2, <4>1
      <4> QED BY <4>2
    <3>2. Cardinality(newer(y)) <= Cardinality(newer(f))
      BY <1>1, <2>1, <3>1, Counts
    <3> QED BY <1>0, <1>1, <1>2, <1>3, <2>1, <3>2
  <2> QED BY <1>0, <2>1, <2>2
<1>4. PICK y \in S \ Recent(S, p) : \A z \in S \ Recent(S, p) : z <= y
  BY NewestExists
<1>5. newer(y) \in SUBSET Recent(S, p)
  <2>1. y \in Nat /\ \A z \in S : z > y => ~ (z <= y)
    BY <1>0
  <2> QED BY <1>4, <2>1
<1>6. Recent(S, p) \in SUBSET Times
  BY DEF Recent
<1>7. Cardinality(newer(y)) <= Cardinality(Recent(S, p)) /\ Cardinality(Recent(S, p)) \in Nat
  BY <1>5, <1>6, Counts
<1> QED BY <1>0, <1>1, <1>2, <1>3, <1>4, <1>7

(* Every week has a newest backup. *)
LEMMA WeekHasNewest ==
  ASSUME NEW R \in SUBSET Times, NEW f \in R
  PROVE  \E g \in NewestOfWeek(R) : Week[g] = Week[f] /\ f <= g
<1>1. {g \in R : Week[g] = Week[f]} \in SUBSET Times /\ f \in {g \in R : Week[g] = Week[f]}
  OBVIOUS
<1>2. PICK g \in {h \in R : Week[h] = Week[f]} : \A h \in {h \in R : Week[h] = Week[f]} : h <= g
  BY <1>1, NewestExists
<1> QED BY <1>2 DEF NewestOfWeek

LEMMA NewestIsOne ==
  ASSUME NEW R \in SUBSET Times, NEW f \in NewestOfWeek(R), NEW g \in NewestOfWeek(R),
         Week[f] = Week[g]
  PROVE  f = g
<1>1. f <= g /\ g <= f /\ f \in Nat /\ g \in Nat
  BY TimesAreNat DEF NewestOfWeek
<1> QED BY <1>1

(* The weeks of the weekly tier are the first ones, and once a week is not  *)
(* among them the tier is full.                                             *)
Earlier(R, f) == {g \in NewestOfWeek(R) : Week[g] < Week[f]}

LEMMA EarlierCounts ==
  ASSUME NEW R \in SUBSET Times, NEW f
  PROVE  /\ Earlier(R, f) \in SUBSET Times /\ Cardinality(Earlier(R, f)) \in Nat
         /\ IsFiniteSet(Earlier(R, f))
<1>1. Earlier(R, f) \in SUBSET Times
  BY DEF Earlier, NewestOfWeek
<1> QED BY <1>1, Counts

LEMMA WeeklyIs ==
  ASSUME NEW R \in SUBSET Times, NEW p \in Policy, NEW f
  PROVE  f \in Weekly(R, p) <=> f \in NewestOfWeek(R) /\ Cardinality(Earlier(R, f)) < p.weekly
BY DEF Weekly, Earlier

LEMMA WeeklyFull ==
  ASSUME NEW R \in SUBSET Times, NEW p \in Policy, NEW x \in NewestOfWeek(R) \ Weekly(R, p)
  PROVE  /\ Cardinality(Weekly(R, p)) >= p.weekly
         /\ \A g \in Weekly(R, p) : Week[g] < Week[x]
<1>0. p.weekly \in Nat /\ NewestOfWeek(R) \in SUBSET Times
  BY DEF Policy, NewestOfWeek
<1>3. ASSUME NEW f \in Weekly(R, p), NEW y \in NewestOfWeek(R) \ Weekly(R, p)
      PROVE  Week[f] < Week[y]
  <2>1. f \in NewestOfWeek(R) /\ Week[f] \in Nat /\ Week[y] \in Nat
    BY <1>0, WeeklyIs, TimesAreNat
  <2>2. CASE Week[y] <= Week[f]
    <3>1. Earlier(R, y) \in SUBSET Earlier(R, f)
      <4>1. \A g \in NewestOfWeek(R) : Week[g] \in Nat
        BY <1>0, TimesAreNat
      <4>2. \A g \in NewestOfWeek(R) : Week[g] < Week[y] => Week[g] < Week[f]
        BY <2>1, <2>2, <4>1
      <4> QED BY <4>2 DEF Earlier
    <3>2. Cardinality(Earlier(R, y)) <= Cardinality(Earlier(R, f))
      BY <3>1, EarlierCounts, Counts
    <3>3. Cardinality(Earlier(R, f)) < p.weekly /\ ~ (Cardinality(Earlier(R, y)) < p.weekly)
      BY <1>3, WeeklyIs
    <3>4. Cardinality(Earlier(R, f)) \in Nat /\ Cardinality(Earlier(R, y)) \in Nat
      BY EarlierCounts
    <3> QED BY <1>0, <3>2, <3>3, <3>4
  <2> QED BY <2>1, <2>2
<1> DEFINE late == NewestOfWeek(R) \ Weekly(R, p)
           weeks == {Week[y] : y \in late}
<1>4. weeks \in SUBSET Nat /\ weeks # {}
  BY <1>0, TimesAreNat
<1>5. PICK w \in weeks : \A v \in weeks : w <= v
  <2> HIDE DEF weeks
  <2> QED BY <1>4, LeastExists
<1>6. PICK y \in late : w = Week[y]
  BY <1>5
<1>7. Earlier(R, y) \in SUBSET Weekly(R, p)
  <2>1. \A g \in late : Week[y] <= Week[g]
    BY <1>5, <1>6
  <2>3. \A g \in NewestOfWeek(R) : Week[g] \in Nat
    BY <1>0, TimesAreNat
  <2>4. Week[y] \in Nat
    BY <2>3
  <2>2. \A g \in Earlier(R, y) : g \notin late
    BY <2>1, <2>3, <2>4 DEF Earlier
  <2> QED BY <2>2 DEF Earlier
<1>8. Weekly(R, p) \in SUBSET Times
  BY <1>0, WeeklyIs
<1>9. Cardinality(Earlier(R, y)) <= Cardinality(Weekly(R, p)) /\ Cardinality(Weekly(R, p)) \in Nat
  BY <1>7, <1>8, Counts
<1>10. ~ (Cardinality(Earlier(R, y)) < p.weekly)
  BY <1>6, WeeklyIs
<1> QED BY <1>0, <1>3, <1>9, <1>10, EarlierCounts

(* A tier is the same for whatever contains it. *)
LEMMA RecentStable ==
  ASSUME NEW S \in SUBSET Times, NEW p \in Policy, NEW T \in SUBSET S, Recent(S, p) \subseteq T
  PROVE  Recent(T, p) = Recent(S, p)
<1>0. p.recent \in Nat /\ T \in SUBSET Times /\ S \subseteq Nat
  BY TimesAreNat DEF Policy
<1> DEFINE newer(Q, f) == {g \in Q : g > f}
<1>1. ASSUME NEW Q \in SUBSET Times, NEW f
      PROVE  newer(Q, f) \in SUBSET Times /\ Cardinality(newer(Q, f)) \in Nat
  BY Counts
<1>2. ASSUME NEW f \in Recent(S, p) PROVE f \in Recent(T, p)
  <2>1. newer(T, f) \in SUBSET newer(S, f)
    OBVIOUS
  <2>2. Cardinality(newer(T, f)) <= Cardinality(newer(S, f))
    BY <1>1, <2>1, Counts
  <2>3. Cardinality(newer(S, f)) < p.recent
    BY DEF Recent
  <2>4. Cardinality(newer(T, f)) \in Nat /\ Cardinality(newer(S, f)) \in Nat
    BY <1>0, <1>1
  <2>5. Cardinality(newer(T, f)) < p.recent
    BY <1>0, <2>2, <2>3, <2>4
  <2> QED BY <2>5 DEF Recent
<1>3. ASSUME NEW f \in T, f \notin Recent(S, p) PROVE f \notin Recent(T, p)
  <2>1. Cardinality(Recent(S, p)) >= p.recent /\ \A g \in Recent(S, p) : g > f
    BY <1>3, RecentFull
  <2>2. Recent(S, p) \in SUBSET newer(T, f)
    BY <2>1
  <2>3. Cardinality(Recent(S, p)) <= Cardinality(newer(T, f))
    BY <1>0, <1>1, <2>2, Counts
  <2>4. Cardinality(newer(T, f)) \in Nat /\ Cardinality(Recent(S, p)) \in Nat
    BY <1>0, <1>1, <2>2, Counts
  <2>5. ~ (Cardinality(newer(T, f)) < p.recent)
    BY <1>0, <2>1, <2>3, <2>4
  <2> QED BY <2>5 DEF Recent
<1> QED BY <1>2, <1>3 DEF Recent

LEMMA WeeklyStable ==
  ASSUME NEW R \in SUBSET Times, NEW p \in Policy, NEW Q \in SUBSET R, Weekly(R, p) \subseteq Q
  PROVE  Weekly(Q, p) = Weekly(R, p)
<1>0. p.weekly \in Nat /\ Q \in SUBSET Times /\ R \subseteq Nat
  BY TimesAreNat DEF Policy
<1>1. \A f \in Q : f \in NewestOfWeek(R) => f \in NewestOfWeek(Q)
  BY DEF NewestOfWeek
<1>2. ASSUME NEW f \in Weekly(R, p) PROVE f \in Weekly(Q, p)
  <2>1. f \in NewestOfWeek(R) /\ Cardinality(Earlier(R, f)) < p.weekly
    BY WeeklyIs
  <2>2. ASSUME NEW g \in Earlier(Q, f) PROVE g \in Earlier(R, f)
    <3>1. g \in NewestOfWeek(Q) /\ g \in Q /\ Week[g] < Week[f]
      BY DEF Earlier, NewestOfWeek
    <3>2. PICK h \in NewestOfWeek(R) : Week[h] = Week[g] /\ g <= h
      BY <3>1, WeekHasNewest
    <3>3. h \in R /\ f \in R
      BY <2>1 DEF NewestOfWeek
    <3>4. Week[h] \in Nat /\ Week[f] \in Nat /\ \A x \in NewestOfWeek(R) : Week[x] \in Nat
      BY <1>0, <3>3, TimesAreNat DEF NewestOfWeek
    <3>5. Earlier(R, h) \in SUBSET Earlier(R, f)
      BY <3>1, <3>2, <3>4 DEF Earlier
    <3>6. Cardinality(Earlier(R, h)) <= Cardinality(Earlier(R, f))
      BY <3>5, EarlierCounts, Counts
    <3>7. Cardinality(Earlier(R, h)) \in Nat /\ Cardinality(Earlier(R, f)) \in Nat
      BY EarlierCounts
    <3>8. Cardinality(Earlier(R, h)) < p.weekly
      BY <1>0, <2>1, <3>6, <3>7
    <3>9. h \in Weekly(R, p)
      BY <3>8, WeeklyIs
    <3>10. h \in NewestOfWeek(Q)
      BY <1>1, <3>9
    <3>11. g = h
      BY <1>0, <3>1, <3>2, <3>10, NewestIsOne
    <3> QED BY <3>1, <3>11 DEF Earlier
  <2>3. Cardinality(Earlier(Q, f)) <= Cardinality(Earlier(R, f))
    <3>1. Earlier(Q, f) \in SUBSET Earlier(R, f)
      BY <2>2
    <3> QED BY <3>1, EarlierCounts, Counts
  <2>4. Cardinality(Earlier(Q, f)) \in Nat /\ Cardinality(Earlier(R, f)) \in Nat
    BY <1>0, EarlierCounts
  <2>5. Cardinality(Earlier(Q, f)) < p.weekly
    BY <1>0, <2>1, <2>3, <2>4
  <2> QED BY <1>0, <1>1, <2>1, <2>5, WeeklyIs
<1>3. ASSUME NEW f \in Weekly(Q, p) PROVE f \in Weekly(R, p)
  <2>1. f \in NewestOfWeek(Q) /\ Cardinality(Earlier(Q, f)) < p.weekly /\ f \in Q
    <3>1. f \in NewestOfWeek(Q) /\ Cardinality(Earlier(Q, f)) < p.weekly
      BY <1>0, WeeklyIs
    <3> QED BY <3>1 DEF NewestOfWeek
  <2>2. PICK h \in NewestOfWeek(R) : Week[h] = Week[f] /\ f <= h
    BY <2>1, WeekHasNewest
  <2>3. CASE h \in Weekly(R, p)
    <3>1. h \in NewestOfWeek(Q)
      BY <1>1, <2>2, <2>3
    <3>2. f = h
      BY <1>0, <2>1, <2>2, <3>1, NewestIsOne
    <3> QED BY <2>3, <3>2
  <2>4. CASE h \notin Weekly(R, p)
    <3>1. Cardinality(Weekly(R, p)) >= p.weekly /\ \A g \in Weekly(R, p) : Week[g] < Week[h]
      BY <2>2, <2>4, WeeklyFull
    <3>2. \A g \in Weekly(R, p) : g \in NewestOfWeek(R) /\ g \in Q
      BY WeeklyIs
    <3>3. Weekly(R, p) \in SUBSET Earlier(Q, f)
      BY <1>1, <2>2, <3>1, <3>2 DEF Earlier
    <3>4. Cardinality(Weekly(R, p)) <= Cardinality(Earlier(Q, f))
      BY <1>0, <3>3, EarlierCounts, Counts
    <3>5. Cardinality(Weekly(R, p)) \in Nat /\ Cardinality(Earlier(Q, f)) \in Nat
      BY <1>0, <3>3, EarlierCounts, Counts
    <3> QED BY <1>0, <2>1, <3>1, <3>4, <3>5
  <2> QED BY <2>3, <2>4
<1> QED BY <1>2, <1>3

LEMMA MonthHasNewest ==
  ASSUME NEW R \in SUBSET Times, NEW p, NEW f \in R \ Weekly(R, p)
  PROVE  \E g \in Monthly(R, p) : Month[g] = Month[f] /\ f <= g
<1> DEFINE T == {g \in R \ Weekly(R, p) : Month[g] = Month[f]}
<1>1. T \in SUBSET Times /\ f \in T
  OBVIOUS
<1>2. PICK g \in T : \A h \in T : h <= g
  <2> HIDE DEF T
  <2> QED BY <1>1, NewestExists
<1> QED BY <1>2 DEF Monthly

LEMMA MonthlyStable ==
  ASSUME NEW R \in SUBSET Times, NEW p \in Policy, NEW Q \in SUBSET R,
         Weekly(R, p) \cup Monthly(R, p) \subseteq Q
  PROVE  Monthly(Q, p) = Monthly(R, p)
<1>1. Weekly(Q, p) = Weekly(R, p) /\ R \subseteq Nat
  BY WeeklyStable, TimesAreNat
<1>2. ASSUME NEW f \in Monthly(R, p) PROVE f \in Monthly(Q, p)
  BY <1>1 DEF Monthly
<1>3. ASSUME NEW f \in Monthly(Q, p) PROVE f \in Monthly(R, p)
  <2>1. /\ f \in Q \ Weekly(R, p)
        /\ \A g \in Q \ Weekly(R, p) : Month[g] = Month[f] => g <= f
    BY <1>1 DEF Monthly
  <2>2. PICK g \in Monthly(R, p) : Month[g] = Month[f] /\ f <= g
    BY <2>1, MonthHasNewest
  <2>3. g \in Q \ Weekly(R, p)
    BY <2>2 DEF Monthly
  <2>4. f = g
    BY <1>1, <2>1, <2>2, <2>3
  <2> QED BY <2>2, <2>4
<1> QED BY <1>2, <1>3

(* What the policy keeps does not depend on what it throws away: however    *)
(* much of that is removed before the policy is applied again.              *)
LEMMA KeepStable ==
  ASSUME NEW S \in SUBSET Times, NEW p \in Policy, NEW T \in SUBSET S, Keep(S, p) \subseteq T
  PROVE  Keep(T, p) = Keep(S, p)
<1> DEFINE recent == Recent(S, p)
<1>1. recent \subseteq T /\ Weekly(S \ recent, p) \subseteq T /\ Monthly(S \ recent, p) \subseteq T
  BY DEF Keep
<1>2. Recent(T, p) = recent
  BY <1>1, RecentStable
<1>3. Weekly(S \ recent, p) \subseteq S \ recent /\ Monthly(S \ recent, p) \subseteq S \ recent
  BY DEF Weekly, NewestOfWeek, Monthly
<1> HIDE DEF recent
<1>4. Weekly(T \ recent, p) = Weekly(S \ recent, p)
  BY <1>1, <1>3, WeeklyStable
<1>5. Monthly(T \ recent, p) = Monthly(S \ recent, p)
  BY <1>1, <1>3, MonthlyStable
<1> QED BY <1>2, <1>4, <1>5 DEF Keep, recent

(* With more backups a tier keeps none of the old ones that it did not keep *)
(* before.                                                                  *)
LEMMA EarlierGrows ==
  ASSUME NEW Q \in SUBSET Times, NEW R \in SUBSET Q, NEW f
  PROVE  Cardinality(Earlier(R, f)) <= Cardinality(Earlier(Q, f))
<1>0. R \in SUBSET Times
  OBVIOUS
<1> DEFINE A == Earlier(R, f)
           B == Earlier(Q, f)
           rep == [g \in A |-> CHOOSE h \in B : Week[h] = Week[g]]
<1>1. ASSUME NEW g \in A PROVE \E h \in B : Week[h] = Week[g]
  <2>1. g \in Q /\ Week[g] < Week[f]
    BY DEF Earlier, NewestOfWeek
  <2>2. PICK h \in NewestOfWeek(Q) : Week[h] = Week[g]
    BY <2>1, WeekHasNewest
  <2> QED BY <2>1, <2>2 DEF Earlier
<1>2. \A g \in A : rep[g] \in B /\ Week[rep[g]] = Week[g]
  BY <1>1
<1>3. \A g, h \in A : Week[g] = Week[h] => g = h
  BY <1>0, NewestIsOne DEF Earlier
<1>4. rep \in Injection(A, B)
  <2>1. rep \in [A -> B]
    BY <1>2
  <2>2. \A g, h \in A : rep[g] = rep[h] => g = h
    <3> HIDE DEF rep, A, B
    <3> QED BY <1>2, <1>3
  <2> HIDE DEF rep
  <2> QED BY <2>1, <2>2 DEF Injection, IsInjective
<1>5. IsFiniteSet(B)
  BY EarlierCounts
<1> HIDE DEF rep, A, B
<1>6. Cardinality(A) <= Cardinality(B)
  BY <1>4, <1>5, FS_Injection
<1> QED BY <1>6 DEF A, B

LEMMA WeeklyOneMore ==
  ASSUME NEW Q \in SUBSET Times, NEW R \in SUBSET Q, NEW p \in Policy,
         NEW f \in R, f \in Weekly(Q, p)
  PROVE  f \in Weekly(R, p)
<1>0. p.weekly \in Nat /\ R \in SUBSET Times
  BY DEF Policy
<1>1. f \in NewestOfWeek(Q) /\ Cardinality(Earlier(Q, f)) < p.weekly
  BY WeeklyIs
<1>2. f \in NewestOfWeek(R)
  BY <1>1 DEF NewestOfWeek
<1>3. Cardinality(Earlier(R, f)) <= Cardinality(Earlier(Q, f))
  BY EarlierGrows
<1>4. Cardinality(Earlier(R, f)) \in Nat /\ Cardinality(Earlier(Q, f)) \in Nat
  BY <1>0, EarlierCounts
<1>5. Cardinality(Earlier(R, f)) < p.weekly
  BY <1>0, <1>1, <1>3, <1>4
<1> QED BY <1>0, <1>2, <1>5, WeeklyIs

LEMMA RecentOneMore ==
  ASSUME NEW Q \in SUBSET Times, NEW R \in SUBSET Q, NEW p \in Policy,
         NEW f \in R, f \in Recent(Q, p)
  PROVE  f \in Recent(R, p)
<1> DEFINE newer(S) == {g \in S : g > f}
<1>1. Cardinality(newer(Q)) < p.recent /\ p.recent \in Nat
  BY DEF Recent, Policy
<1>2. newer(R) \in SUBSET newer(Q) /\ newer(Q) \in SUBSET Times /\ newer(R) \in SUBSET Times
  OBVIOUS
<1>3. /\ Cardinality(newer(R)) <= Cardinality(newer(Q))
      /\ Cardinality(newer(R)) \in Nat /\ Cardinality(newer(Q)) \in Nat
  BY <1>2, Counts
<1>4. Cardinality(newer(R)) < p.recent
  BY <1>1, <1>3
<1> QED BY <1>4 DEF Recent

LEMMA KeepOneMore ==
  ASSUME NEW S \in SUBSET Times, NEW p \in Policy, NEW t \in Times
  PROVE  Keep(S \cup {t}, p) \subseteq Keep(S, p) \cup {t}
<1> DEFINE Q == S \cup {t}
           R == S \ Recent(S, p)
           RQ == Q \ Recent(Q, p)
<1>1. Q \in SUBSET Times /\ S \in SUBSET Q
  OBVIOUS
<1>2. \A f \in S : f \in Recent(Q, p) => f \in Recent(S, p)
  BY <1>1, RecentOneMore
<1>3. R \in SUBSET RQ /\ RQ \in SUBSET Times
  BY <1>2
<1>4. \A f \in R : f \in Weekly(RQ, p) => f \in Weekly(R, p)
  <2> HIDE DEF R, RQ, Q
  <2> QED BY <1>3, WeeklyOneMore
<1>5. \A f \in R : f \in Monthly(RQ, p) => f \in Weekly(R, p) \cup Monthly(R, p)
  BY <1>3, <1>4 DEF Monthly
<1>6. ASSUME NEW f \in Keep(Q, p), f # t PROVE f \in Keep(S, p)
  <2>1. f \in S /\ (f \in Recent(Q, p) \/ f \in Weekly(RQ, p) \/ f \in Monthly(RQ, p))
    <3>1. f \in Q
      BY KeepWithin
    <3> QED BY <1>6, <3>1 DEF Keep
  <2>2. f \in Recent(S, p) \/ f \in R
    BY <2>1
  <2>3. Keep(S, p) = Recent(S, p) \cup Weekly(R, p) \cup Monthly(R, p)
    BY DEF Keep
  <2> HIDE DEF Q, R, RQ
  <2> QED BY <1>2, <1>4, <1>5, <2>1, <2>2, <2>3
<1> QED BY <1>6

(* A new backup may join what the policy has left, or everything there was. *)
LEMMA KeepAbsorbs ==
  ASSUME NEW S \in SUBSET Times, NEW p \in Policy, NEW t \in Times
  PROVE  Keep(Keep(S, p) \cup {t}, p) = Keep(S \cup {t}, p)
<1> DEFINE Q == S \cup {t}
           T == Keep(S, p) \cup {t}
<1>1. Q \in SUBSET Times /\ T \in SUBSET Q
  BY KeepWithin
<1>2. Keep(Q, p) \subseteq T
  BY KeepOneMore
<1> HIDE DEF Q, T
<1>3. Keep(T, p) = Keep(Q, p)
  BY <1>1, <1>2, KeepStable
<1> QED BY <1>3 DEF Q, T

(* What is removed is replaced: once the policy removes anything, its tiers *)
(* are full.                                                                *)
Tiers(p) == p.recent + (IF p.weekly > 0 THEN 1 ELSE 0)

LEMMA TiersFull ==
  ASSUME NEW S \in SUBSET Times, NEW p \in Policy, NEW g \in S \ Keep(S, p)
  PROVE  Cardinality(Keep(S, p)) > Tiers(p) /\ Tiers(p) \in Nat
<1> DEFINE recent == Recent(S, p)
           R == S \ recent
<1>0. p.recent \in Nat /\ p.weekly \in Nat /\ R \in SUBSET Times /\ recent \in SUBSET Times
      /\ Keep(S, p) \in SUBSET Times
  BY KeepWithin DEF Policy, Recent
<1>1. Keep(S, p) = recent \cup Weekly(R, p) \cup Monthly(R, p)
  BY DEF Keep
<1>2. g \in R \ Weekly(R, p)
  BY <1>1
<1>3. Cardinality(recent) >= p.recent
  BY <1>2, RecentFull
<1> HIDE DEF recent, R
<1>4. PICK m \in Monthly(R, p) : TRUE
  BY <1>0, <1>2, MonthHasNewest
<1>5. m \in R \ Weekly(R, p)
  BY DEF Monthly
<1>6. recent \cap R = {}
  BY DEF R
<1>7. IsFiniteSet(recent) /\ Cardinality(recent) \in Nat
  BY <1>0, Counts
<1>8. CASE p.weekly > 0
  <2>1. Weekly(R, p) # {}
    <3> SUFFICES ASSUME Weekly(R, p) = {} PROVE FALSE
      OBVIOUS
    <3>1. PICK h \in NewestOfWeek(R) : TRUE
      BY <1>0, <1>2, WeekHasNewest
    <3>2. h \in NewestOfWeek(R) \ Weekly(R, p)
      OBVIOUS
    <3>3. Cardinality(Weekly(R, p)) >= p.weekly
      BY <1>0, <3>2, WeeklyFull
    <3>4. Cardinality(Weekly(R, p)) = 0
      BY FS_EmptySet
    <3> QED BY <1>0, <1>8, <3>3, <3>4
  <2>2. PICK w \in Weekly(R, p) : TRUE
    BY <2>1
  <2>3. w \in R /\ w # m
    BY <1>5 DEF Weekly, NewestOfWeek
  <2>4. w \notin recent /\ m \notin recent \cup {w}
    BY <1>5, <1>6, <2>3
  <2>9. IsFiniteSet(recent \cup {w}) /\ Cardinality(recent \cup {w}) = Cardinality(recent) + 1
    BY <1>7, <2>4, FS_AddElement
  <2>10. Cardinality((recent \cup {w}) \cup {m}) = Cardinality(recent \cup {w}) + 1
    BY <2>4, <2>9, FS_AddElement
  <2>5. Cardinality((recent \cup {w}) \cup {m}) = Cardinality(recent) + 2
    BY <1>7, <2>9, <2>10
  <2>6. (recent \cup {w}) \cup {m} \in SUBSET Keep(S, p)
    BY <1>1, <1>4, <2>2
  <2>7. Cardinality((recent \cup {w}) \cup {m}) <= Cardinality(Keep(S, p))
        /\ Cardinality(Keep(S, p)) \in Nat
    BY <1>0, <2>6, Counts
  <2>8. Tiers(p) = p.recent + 1
    BY <1>8 DEF Tiers
  <2> QED BY <1>0, <1>3, <1>7, <2>5, <2>7, <2>8
<1>9. CASE ~ (p.weekly > 0)
  <2>1. Cardinality(recent \cup {m}) = Cardinality(recent) + 1
    BY <1>5, <1>6, <1>7, FS_AddElement
  <2>2. recent \cup {m} \in SUBSET Keep(S, p)
    BY <1>1, <1>4
  <2>3. Cardinality(recent \cup {m}) <= Cardinality(Keep(S, p)) /\ Cardinality(Keep(S, p)) \in Nat
    BY <1>0, <2>2, Counts
  <2> QED BY <1>0, <1>3, <1>7, <1>9, <2>1, <2>3 DEF Tiers
<1> QED BY <1>8, <1>9

(* A prune that still has something to remove leaves more copies than the  *)
(* tiers hold.                                                              *)
PruneLeavesTiers ==
  pc = "pruning" /\ doomed # {} =>
    Tiers(policy) \in Nat /\ Cardinality(files \ doomed) > Tiers(policy)

CopyInv == Inv /\ CopySurvives /\ PruneLeavesTiers

LEMMA CopySurvivesIs ==
  CopySurvives <=> (copied /\ Cardinality(hollow) <= Tiers(policy) => files \ hollow # {})
BY DEF CopySurvives, Tiers

LEMMA NewestOfDoomed ==
  ASSUME TypeOK, doomed # {}
  PROVE  Newest(doomed) \in doomed
<1>1. doomed \in SUBSET Times
  BY DEF TypeOK
<1> QED
  BY <1>1, NewestExists DEF Newest

(* Adding a file, whole or hollow, leaves the complete copies alone. *)
LEMMA AddFileCopy ==
  ASSUME TypeOK, TypeOK', CopySurvives, NEW ok \in BOOLEAN, AddFile(ok), policy' = policy
  PROVE  CopySurvives'
<1>0. /\ files \subseteq Times /\ hollow \subseteq files /\ hollow' \subseteq Times
      /\ policy \in Policy
  BY PoliciesAssumption DEF TypeOK
<1>1. CASE ok
  <2>1. clock \in files' \ hollow'
    BY <1>1 DEF AddFile
  <2> QED
    BY <2>1 DEF CopySurvives
<1>2. CASE ~ ok
  <2>1. copied' = copied /\ files' = files \cup {clock}
        /\ hollow' = IF clock \in files THEN hollow ELSE hollow \cup {clock}
    <3>1. copied' = (copied \/ FALSE) /\ copied \in BOOLEAN
      BY <1>2 DEF AddFile, TypeOK
    <3>2. copied' = copied
      BY <3>1
    <3> QED
      BY <1>2, <3>2 DEF AddFile
  <2>2. hollow \in SUBSET hollow' /\ files \ hollow \subseteq files' \ hollow'
    BY <2>1
  <2>3. Cardinality(hollow) <= Cardinality(hollow') /\ Cardinality(hollow) \in Nat
        /\ Cardinality(hollow') \in Nat
    BY <1>0, <2>2, Counts
  <2>4. Tiers(policy) \in Nat
    BY <1>0 DEF Tiers, Policy
  <2>5. Cardinality(hollow') <= Tiers(policy) => Cardinality(hollow) <= Tiers(policy)
    BY <2>3, <2>4
  <2>6. Tiers(policy') = Tiers(policy)
    OBVIOUS
  <2>7. copied /\ Cardinality(hollow) <= Tiers(policy) => files \ hollow # {}
    BY CopySurvivesIs
  <2>8. copied' /\ Cardinality(hollow') <= Tiers(policy') => files' \ hollow' # {}
    BY <2>1, <2>2, <2>5, <2>6, <2>7
  <2> QED
    BY <2>8 DEF CopySurvives, Tiers
<1> QED
  BY <1>1, <1>2

LEMMA CopyStep ==
  ASSUME \A p, q \in Policies : Tiers(p) = Tiers(q), CopyInv, [Next]_vars
  PROVE  CopyInv'
<1> USE DEF settings, history
<1>0. Inv /\ TypeOK /\ CopySurvives /\ PruneLeavesTiers /\ (pc # "pruning" => doomed = {})
  BY DEF CopyInv, Inv
<1>t. Inv' /\ TypeOK'
  <2>1. Inv'
    BY <1>0, StepInv
  <2> QED
    BY <2>1 DEF Inv
<1>p. policy \in Policy /\ policy' \in Policy /\ Tiers(policy') = Tiers(policy)
  BY <1>0, <1>t, PoliciesAssumption DEF TypeOK
<1> SUFFICES CopySurvives' /\ PruneLeavesTiers'
  BY <1>t DEF CopyInv
<1>1. CASE UNCHANGED <<policy, files, hollow, doomed, copied>> /\ (pc' = "pruning" => pc = "pruning")
  BY <1>0, <1>1 DEF CopySurvives, PruneLeavesTiers
<1>2. CASE Pass \/ FallBack \/ StartWithoutBackup \/ Pruned \/ UNCHANGED vars
  <2>1. UNCHANGED <<policy, files, hollow, doomed, copied>> /\ (pc' = "pruning" => pc = "pruning")
    BY <1>2 DEF Pass, FallBack, StartWithoutBackup, Pruned, vars
  <2> QED
    BY <1>1, <2>1
<1>3. CASE ChangeSettings
  <2>1. UNCHANGED <<files, hollow, copied, pc>> /\ pc = "on"
    BY <1>3 DEF ChangeSettings
  <2>2. copied /\ Cardinality(hollow) <= Tiers(policy) => files \ hollow # {}
    BY <1>0, CopySurvivesIs
  <2>3. copied' /\ Cardinality(hollow') <= Tiers(policy') => files' \ hollow' # {}
    BY <1>p, <2>1, <2>2
  <2>4. CopySurvives'
    BY <2>3 DEF CopySurvives, Tiers
  <2> QED
    BY <2>1, <2>4 DEF PruneLeavesTiers
<1>4. CASE \E ok \in BOOLEAN : BackUp(ok)
  <2>1. PICK ok \in BOOLEAN : BackUp(ok)
    BY <1>4
  <2>2. AddFile(ok) /\ doomed' = files' \ Keep(files', policy) /\ policy' = policy
    BY <2>1 DEF BackUp
  <2>3. CopySurvives'
    BY <1>0, <1>t, <2>2, AddFileCopy
  <2>4. ASSUME doomed' # {}
        PROVE  Tiers(policy) \in Nat /\ Cardinality(files' \ doomed') > Tiers(policy)
    <3>1. files' \in SUBSET Times
      BY <1>t DEF TypeOK
    <3>2. PICK g \in files' \ Keep(files', policy) : TRUE
      BY <2>2, <2>4
    <3>3. Cardinality(Keep(files', policy)) > Tiers(policy) /\ Tiers(policy) \in Nat
      BY <1>p, <3>1, <3>2, TiersFull
    <3>4. files' \ doomed' = Keep(files', policy)
      BY <2>2, KeepWithin
    <3> QED
      BY <3>3, <3>4
  <2> QED
    BY <2>2, <2>3, <2>4 DEF PruneLeavesTiers
<1>5. CASE BackUpThrows
  <2>1. doomed' = {} /\ policy' = policy
    BY <1>0, <1>5 DEF BackUpThrows
  <2>2. CopySurvives'
    <3>1. CASE AddFile(FALSE)
      BY <1>0, <1>t, <2>1, <3>1, AddFileCopy
    <3>2. CASE UNCHANGED <<files, hollow, history>>
      BY <1>0, <2>1, <3>2 DEF CopySurvives
    <3> QED
      BY <1>5, <3>1, <3>2 DEF BackUpThrows
  <2> QED
    BY <2>1, <2>2 DEF PruneLeavesTiers
<1>6. CASE Remove
  <2> DEFINE n == Newest(doomed)
  <2>1. /\ files' = files \ {n} /\ hollow' = hollow \ {n} /\ doomed' = doomed \ {n}
        /\ UNCHANGED <<pc, policy, copied>> /\ pc = "pruning" /\ doomed # {}
    BY <1>6 DEF Remove
  <2>2. n \in doomed
    BY <1>0, <2>1, NewestOfDoomed
  <2> HIDE DEF n
  <2>3. files' \ doomed' = files \ doomed /\ files \ doomed \subseteq files'
    BY <2>1, <2>2
  <2>4. Tiers(policy) \in Nat /\ Cardinality(files \ doomed) > Tiers(policy)
    BY <1>0, <2>1 DEF PruneLeavesTiers
  <2>5. ASSUME Cardinality(hollow') <= Tiers(policy) PROVE files' \ hollow' # {}
    <3> SUFFICES ASSUME files' \subseteq hollow' PROVE FALSE
      OBVIOUS
    <3>1. files \ doomed \in SUBSET hollow' /\ hollow' \in SUBSET Times
      BY <1>t, <2>3 DEF TypeOK
    <3>2. /\ Cardinality(files \ doomed) <= Cardinality(hollow')
          /\ Cardinality(files \ doomed) \in Nat /\ Cardinality(hollow') \in Nat
      BY <3>1, Counts
    <3> QED
      BY <2>4, <2>5, <3>2
  <2>6. CopySurvives'
    <3>1. Cardinality(hollow') <= Tiers(policy') => files' \ hollow' # {}
      BY <2>1, <2>5
    <3> QED
      BY <3>1 DEF CopySurvives, Tiers
  <2>7. PruneLeavesTiers'
    BY <2>1, <2>3, <2>4 DEF PruneLeavesTiers
  <2> QED
    BY <2>6, <2>7
<1>7. CASE RemoveThrows \/ End
  <2>1. doomed' = {} /\ UNCHANGED <<policy, files, hollow, copied>>
    BY <1>7 DEF RemoveThrows, End
  <2> QED
    BY <1>0, <2>1 DEF CopySurvives, PruneLeavesTiers
<1> QED
  BY <1>2, <1>3, <1>4, <1>5, <1>6, <1>7 DEF Next

(* While the policies hold equally many copies, a complete copy survives    *)
(* every prune as long as no more copies have failed than the recent tier   *)
(* and one week of the weekly tier hold: a prune that removes anything      *)
(* leaves more copies than that.                                            *)
THEOREM CompleteCopySurvives ==
  ASSUME \A p, q \in Policies : Tiers(p) = Tiers(q)
  PROVE  Spec => []CopySurvives
<1>1. Init => CopyInv
  BY InitInv DEF Init, CopyInv, CopySurvives, PruneLeavesTiers
<1>2. CopyInv /\ [Next]_vars => CopyInv'
  BY CopyStep
<1>3. CopyInv => CopySurvives
  BY DEF CopyInv
<1> QED
  BY <1>1, <1>2, <1>3, PTL DEF Spec

-----------------------------------------------------------------------------
(* The abstract specification applies the policy with the same tiers. *)
LEMMA CutCardinality == ASSUME NEW S PROVE Cut!Cardinality(S) = Cardinality(S)
BY DEF Cut!Cardinality, Cardinality, Cut!IsFiniteSet, IsFiniteSet

LEMMA CutKeepIs == ASSUME NEW S, NEW p PROVE Cut!Keep(S, p) = Keep(S, p)
BY CutCardinality, ZenonT(30) DEF Cut!Keep, Cut!Recent, Cut!Weekly, Cut!Monthly, Cut!NewestOfWeek,
       Keep, Recent, Weekly, Monthly, NewestOfWeek

(* What the abstract specification sees of the directory. *)
Kept == IF settled THEN files ELSE Keep(files, policy)

(* A prune under way has doomed exactly what the policy does not keep. *)
DoomedInv ==
  Inv /\ (pc = "pruning" => ~ settled /\ files \ doomed = Keep(files, policy))

(* A new backup joins what is kept, however much of the last prune was done. *)
LEMMA AddFileKeeps ==
  ASSUME TypeOK, NEW ok \in BOOLEAN, AddFile(ok), policy' = policy, settled' = FALSE
  PROVE  Kept' = Keep(Kept \cup {clock}, policy)
<1>1. files \in SUBSET Times /\ clock \in Times /\ policy \in Policy
  BY PoliciesAssumption DEF TypeOK
<1>2. Kept' = Keep(files \cup {clock}, policy)
  BY DEF Kept, AddFile
<1>3. Keep(Keep(files, policy) \cup {clock}, policy) = Keep(files \cup {clock}, policy)
  BY <1>1, KeepAbsorbs
<1> QED
  BY <1>2, <1>3 DEF Kept

LEMMA DoomedStep ==
  ASSUME \A p, q \in Policies : p = q, DoomedInv, [Next]_vars
  PROVE  /\ DoomedInv'
         /\ Kept' = Kept \/ \E t \in Times : Kept' = Keep(Kept \cup {t}, policy)
<1> USE DEF settings, history
<1>0. Inv /\ TypeOK /\ (pc # "pruning" => doomed = {})
      /\ (pc = "pruning" => ~ settled /\ files \ doomed = Keep(files, policy))
  BY DEF DoomedInv, Inv
<1>t. Inv' /\ TypeOK'
  <2>1. Inv'
    BY <1>0, StepInv
  <2> QED
    BY <2>1 DEF Inv
<1>p. policy \in Policy /\ policy' = policy /\ files \in SUBSET Times
  BY <1>0, <1>t, PoliciesAssumption DEF TypeOK
<1>1. CASE UNCHANGED <<files, settled>> /\ (pc' = "pruning" => pc = "pruning" /\ doomed' = doomed)
  <2>1. Kept' = Kept
    BY <1>p, <1>1 DEF Kept
  <2> QED
    BY <1>0, <1>t, <1>p, <1>1, <2>1 DEF DoomedInv
<1>2. CASE Pass \/ FallBack \/ ChangeSettings \/ StartWithoutBackup \/ RemoveThrows \/ End \/ UNCHANGED vars
  <2>1. UNCHANGED <<files, settled>> /\ (pc' = "pruning" => pc = "pruning" /\ doomed' = doomed)
    BY <1>2 DEF Pass, FallBack, ChangeSettings, StartWithoutBackup, RemoveThrows, End, vars
  <2> QED
    BY <1>1, <2>1
<1>3. CASE \E ok \in BOOLEAN : BackUp(ok)
  <2>1. PICK ok \in BOOLEAN : BackUp(ok)
    BY <1>3
  <2>2. AddFile(ok) /\ doomed' = files' \ Keep(files', policy) /\ settled' = FALSE
    BY <2>1 DEF BackUp
  <2>3. clock \in Times /\ Kept' = Keep(Kept \cup {clock}, policy)
    BY <1>0, <1>p, <2>2, AddFileKeeps DEF TypeOK
  <2>4. ~ settled' /\ files' \ doomed' = Keep(files', policy')
    BY <1>p, <2>2, KeepWithin
  <2> QED
    BY <1>t, <2>3, <2>4 DEF DoomedInv
<1>4. CASE BackUpThrows
  <2>1. pc' = "on"
    BY <1>4 DEF BackUpThrows
  <2>2. CASE AddFile(FALSE) /\ settled' = FALSE
    <3>1. clock \in Times /\ Kept' = Keep(Kept \cup {clock}, policy)
      BY <1>0, <1>p, <2>2, AddFileKeeps DEF TypeOK
    <3> QED
      BY <1>t, <2>1, <3>1 DEF DoomedInv
  <2>3. CASE UNCHANGED <<files, hollow, history>>
    BY <1>1, <2>1, <2>3
  <2> QED
    BY <1>4, <2>2, <2>3 DEF BackUpThrows
<1>5. CASE Remove
  <2> DEFINE n == Newest(doomed)
  <2>1. /\ files' = files \ {n} /\ doomed' = doomed \ {n}
        /\ UNCHANGED <<pc, settled>> /\ pc = "pruning" /\ doomed # {}
    BY <1>5 DEF Remove
  <2>2. n \in doomed
    BY <1>0, <2>1, NewestOfDoomed
  <2> HIDE DEF n
  <2>3. files' \ doomed' = files \ doomed /\ files \ doomed \subseteq files' /\ files' \in SUBSET files
    BY <2>1, <2>2
  <2>4. ~ settled /\ files \ doomed = Keep(files, policy)
    BY <1>0, <2>1
  <2>5. Keep(files', policy) = Keep(files, policy)
    BY <1>p, <2>3, <2>4, KeepStable
  <2> QED
    BY <1>t, <1>p, <2>1, <2>3, <2>4, <2>5 DEF DoomedInv, Kept
<1>6. CASE Pruned
  <2>1. pc = "pruning" /\ doomed = {} /\ pc' = "on" /\ settled' = TRUE /\ files' = files
    BY <1>6 DEF Pruned
  <2>2. ~ settled /\ files = Keep(files, policy)
    BY <1>0, <2>1
  <2> QED
    BY <1>t, <2>1, <2>2 DEF DoomedInv, Kept
<1> QED
  BY <1>2, <1>3, <1>4, <1>5, <1>6 DEF Next

(* With a single policy, prunes that were cut off leave no trace: the       *)
(* directory is at every moment worth what Retention has, which applies the *)
(* policy to each new backup at once, and is exactly that after a prune     *)
(* that was completed.                                                      *)
THEOREM CutsRefineRetention ==
  ASSUME \A p, q \in Policies : p = q
  PROVE  Spec => CutsLeaveNoTrace
<1>1. Init => DoomedInv
  BY InitInv DEF Init, DoomedInv
<1>2. Init => Cut!Init
  BY DEF Init, Cut!Init
<1>3. DoomedInv /\ [Next]_vars => DoomedInv'
  BY DoomedStep
<1>4. DoomedInv /\ [Next]_vars => [Cut!Next]_Kept
  <2> SUFFICES ASSUME DoomedInv, [Next]_vars, Kept' # Kept PROVE Cut!Next
    OBVIOUS
  <2>1. PICK t \in Times : Kept' = Keep(Kept \cup {t}, policy)
    BY DoomedStep
  <2>2. policy = (CHOOSE p \in Policies : TRUE)
    BY DEF DoomedInv, Inv, TypeOK
  <2> QED
    BY <2>1, <2>2, CutKeepIs DEF Cut!Next, Cut!Times, Times, Kept
<1> QED
  BY <1>1, <1>2, <1>3, <1>4, PTL DEF Spec, CutsLeaveNoTrace, Cut!Spec, Kept

-----------------------------------------------------------------------------
(* The upgrade. *)

(* There are fifteen versions and none of them is empty. *)
LEMMA VersionsFilled ==
  /\ DbVersion = 15
  /\ \A v \in 1..DbVersion : Len(Versions[v]) \in Nat \ {0}
<1> DEFINE NonEmpty(s) == Len(s) \in Nat \ {0}
<1>1. DbVersion = 15
  BY DEF DbVersion, Versions
<1>2. /\ NonEmpty(V1) /\ NonEmpty(V3) /\ NonEmpty(V5) /\ NonEmpty(V7) /\ NonEmpty(V8)
      /\ NonEmpty(V9) /\ NonEmpty(V10)
  BY DEF V1, V3, V5, V7, V8, V9, V10
<1>3. /\ NonEmpty(V11) /\ NonEmpty(V12) /\ NonEmpty(V13) /\ NonEmpty(V14) /\ NonEmpty(V15)
  BY DEF V11, V12, V13, V14, V15
<1>4. NonEmpty(V4)
  BY DEF V4, CopyDropRename
<1>5. NonEmpty(V2)
  BY DEF V2, CopyDropRename
<1>6. NonEmpty(V6)
  BY DEF V6, DropAndRecreate
<1>7. \A v \in 1..15 : Versions[v] \in {V1, V2, V3, V4, V5, V6, V7, V8, V9, V10, V11, V12, V13, V14, V15}
  BY DEF Versions
<1> QED BY <1>1, <1>2, <1>3, <1>4, <1>5, <1>6, <1>7

LEMMA VersionNumbers == DbVersion \in Nat \ {0}
BY VersionsFilled

(* The position of an upgrade is well typed. *)
Position(a, s) ==
  /\ a \in 1..(DbVersion + 1)
  /\ s \in 1..(IF a <= DbVersion THEN Len(Versions[a]) ELSE 1)

LEMMA FirstPosition ==
  ASSUME NEW a \in 1..(DbVersion + 1)
  PROVE  Position(a, 1)
<1>1. DbVersion \in Nat /\ a \in Nat
  BY VersionNumbers
<1>2. CASE a <= DbVersion
  <2>1. a \in 1..DbVersion
    BY <1>1, <1>2
  <2>2. Len(Versions[a]) \in Nat \ {0}
    BY <2>1, VersionsFilled
  <2> QED BY <1>2, <2>2 DEF Position
<1>3. CASE ~ (a <= DbVersion)
  BY <1>3 DEF Position
<1> QED BY <1>2, <1>3

LEMMA NextPosition ==
  ASSUME NEW a \in 1..(DbVersion + 1), NEW s, Position(a, s), a <= DbVersion
  PROVE  IF s < Len(Versions[a]) THEN Position(a, s + 1) ELSE Position(a + 1, 1)
<1>1. a \in 1..DbVersion /\ DbVersion \in Nat /\ a \in Nat
  BY VersionNumbers
<1>4. Len(Versions[a]) \in Nat \ {0}
  BY <1>1, VersionsFilled
<1>2. CASE s < Len(Versions[a])
  BY <1>1, <1>2, <1>4 DEF Position
<1>3. CASE ~ (s < Len(Versions[a]))
  <2>1. a + 1 \in 1..(DbVersion + 1)
    BY <1>1
  <2> QED BY <1>3, <2>1, FirstPosition
<1> QED BY <1>2, <1>3

-----------------------------------------------------------------------------
(* What each step does to the tables and to their rows. *)

(* Changing the rows of one table. *)
WithRows(db, t, rows) ==
  [db EXCEPT ![t] = [cols |-> db[t].cols, refs |-> db[t].refs, unique |-> db[t].unique,
                     rows |-> rows]]

LEMMA RowsChanged ==
  ASSUME NEW db, IsDb(db), NEW t \in DOMAIN db, NEW rows
  PROVE  [db EXCEPT ![t].rows = rows] = WithRows(db, t, rows)
<1>1. [db[t] EXCEPT !.rows = rows]
        = [cols |-> db[t].cols, refs |-> db[t].refs, unique |-> db[t].unique, rows |-> rows]
  BY DEF IsDb
<1> QED BY <1>1 DEF WithRows

(* What is left of a database without its rows. *)
LEMMA BareRow ==
  ASSUME NEW db
  PROVE  /\ DOMAIN Bare(db) = DOMAIN db
         /\ \A t \in DOMAIN db : /\ Bare(db)[t].cols = db[t].cols
                                 /\ Bare(db)[t].refs = db[t].refs
                                 /\ Bare(db)[t].unique = db[t].unique
                                 /\ Bare(db)[t].rows = {}
         /\ IsDb(Bare(db))
BY DEF Bare, Empty, IsDb

(* Other rows leave the schema and the other tables as they are. *)
LEMMA WithRowsIs ==
  ASSUME NEW db, IsDb(db), NEW t \in DOMAIN db, NEW rows
  PROVE  LET new == WithRows(db, t, rows)
         IN  /\ DOMAIN new = DOMAIN db /\ IsDb(new) /\ Bare(new) = Bare(db)
             /\ new[t].rows = rows
             /\ \A u \in DOMAIN db : /\ new[u].cols = db[u].cols /\ new[u].refs = db[u].refs
                                     /\ new[u].unique = db[u].unique
             /\ \A u \in DOMAIN db \ {t} : new[u] = db[u]
<1> DEFINE new == WithRows(db, t, rows)
<1>1. /\ DOMAIN new = DOMAIN db
      /\ new[t] = [cols |-> db[t].cols, refs |-> db[t].refs, unique |-> db[t].unique,
                   rows |-> rows]
      /\ \A u \in DOMAIN db \ {t} : new[u] = db[u]
      /\ new = [u \in DOMAIN new |-> new[u]]
  BY DEF WithRows, IsDb
<1> HIDE DEF new
<1>2. \A u \in DOMAIN db : /\ new[u].cols = db[u].cols /\ new[u].refs = db[u].refs
                           /\ new[u].unique = db[u].unique
  BY <1>1
<1>3. IsDb(new)
  BY <1>1 DEF IsDb
<1>4. Bare(new) = Bare(db)
  BY <1>1, <1>2 DEF Bare, Empty
<1> QED BY <1>1, <1>2, <1>3, <1>4 DEF new

(* What each step makes of a database. *)
LEMMA Creates ==
  ASSUME NEW db, IsDb(db), NEW s, s.do = "create"
  PROVE  IF s.table \in DOMAIN db THEN Applied(db, s) = db
         ELSE /\ Applied(db, s) = [t \in DOMAIN db \cup {s.table} |->
                                    IF t = s.table THEN Empty(s.model) ELSE db[t]]
              /\ IsDb(Applied(db, s))
<1>1. Applied(db, s) = IF s.table \in DOMAIN db THEN db ELSE With(db, s.table, Empty(s.model))
  BY DEF Applied
<1>2. CASE s.table \notin DOMAIN db
  <2>1. Applied(db, s) = [t \in DOMAIN db \cup {s.table} |->
                            IF t = s.table THEN Empty(s.model) ELSE db[t]]
    BY <1>1, <1>2 DEF With
  <2> DEFINE new == [t \in DOMAIN db \cup {s.table} |->
                       IF t = s.table THEN Empty(s.model) ELSE db[t]]
  <2>2. ASSUME NEW t \in DOMAIN new
        PROVE  new[t] = [cols |-> new[t].cols, refs |-> new[t].refs,
                         unique |-> new[t].unique, rows |-> new[t].rows]
    <3>1. CASE t = s.table
      BY <3>1 DEF Empty
    <3>2. CASE t # s.table
      BY <3>2 DEF IsDb
    <3> QED BY <3>1, <3>2
  <2>3. IsDb(new)
    <3>1. new = [t \in DOMAIN new |-> new[t]]
      OBVIOUS
    <3> HIDE DEF new
    <3> QED BY <2>2, <3>1 DEF IsDb
  <2> QED BY <1>2, <2>1, <2>3
<1> QED BY <1>1, <1>2

LEMMA Copies ==
  ASSUME NEW db, IsDb(db), NEW s, s.do = "copy", s.to \in DOMAIN db
  PROVE  Applied(db, s) = WithRows(db, s.to, db[s.to].rows \cup db[s.table].rows)
<1>1. Applied(db, s) = [db EXCEPT ![s.to].rows = db[s.to].rows \cup db[s.table].rows]
  BY DEF Applied
<1> QED BY <1>1, RowsChanged

LEMMA Dedupes ==
  ASSUME NEW db, IsDb(db), NEW s, s.do = "dedupe", s.table \in DOMAIN db
  PROVE  Applied(db, s) = WithRows(db, s.table, Deduped(db[s.table].rows))
<1>1. Applied(db, s) = [db EXCEPT ![s.table].rows = Deduped(db[s.table].rows)]
  BY DEF Applied
<1> QED BY <1>1, RowsChanged

LEMMA Retypes ==
  ASSUME NEW db, IsDb(db), NEW s, s.do = "retype", s.table \in DOMAIN db
  PROVE  Applied(db, s) = WithRows(db, s.table, Retyped(db[s.table].rows))
<1>1. Applied(db, s) = [db EXCEPT ![s.table].rows = Retyped(db[s.table].rows)]
  BY DEF Applied
<1> QED BY <1>1, RowsChanged

(* Only empty tables refer to a table that is dropped. *)
LEMMA Drops ==
  ASSUME NEW db, IsDb(db), NEW s, s.do = "drop",
         \A u \in DOMAIN db : RefersTo(db[u], s.table) => db[u].rows = {}
  PROVE  /\ Applied(db, s) = [u \in DOMAIN db \ {s.table} |-> db[u]]
         /\ IsDb(Applied(db, s))
<1>1. ASSUME NEW u \in DOMAIN db, \E k \in db[u].refs : k.to = s.table /\ k.cascade
      PROVE  [db[u] EXCEPT !.rows = {}] = db[u]
  <2>1. db[u].rows = {}
    BY <1>1 DEF RefersTo
  <2> QED BY <2>1 DEF IsDb
<1>2. Applied(db, s) = Dropped(db, s.table)
  BY DEF Applied
<1>3. Dropped(db, s.table) = [u \in DOMAIN db \ {s.table} |-> db[u]]
  BY <1>1 DEF Dropped
<1> QED BY <1>2, <1>3 DEF IsDb

LEMMA Renames ==
  ASSUME NEW db, IsDb(db), NEW s, s.do = "rename",
         \A u \in DOMAIN db : ~ RefersTo(db[u], s.table),
         \A u \in DOMAIN db : \A k \in db[u].refs : k = Ref(k.col, k.to, k.cascade),
         s.table \in DOMAIN db
  PROVE  /\ Applied(db, s) = [u \in (DOMAIN db \ {s.table}) \cup {s.to} |->
                                IF u = s.to THEN db[s.table] ELSE db[u]]
         /\ IsDb(Applied(db, s))
<1> DEFINE taken == [t \in (DOMAIN db \ {s.table}) \cup {s.to} |->
                       IF t = s.to THEN db[s.table] ELSE db[t]]
           tos(refs) == {[k EXCEPT !.to = IF k.to = s.table THEN s.to ELSE k.to] : k \in refs}
<1>1. Applied(db, s) = Renamed(db, s.table, s.to)
  BY DEF Applied
<1>2. Renamed(db, s.table, s.to) = [t \in DOMAIN taken |-> [taken[t] EXCEPT !.refs = tos(taken[t].refs)]]
  BY DEF Renamed
<1>3. ASSUME NEW u \in DOMAIN db PROVE [db[u] EXCEPT !.refs = tos(db[u].refs)] = db[u]
  <2>1. ASSUME NEW k \in db[u].refs
        PROVE  [k EXCEPT !.to = IF k.to = s.table THEN s.to ELSE k.to] = k
    <3>1. k = Ref(k.col, k.to, k.cascade) /\ k.to # s.table
      BY DEF RefersTo
    <3> QED BY <3>1 DEF Ref
  <2>2. tos(db[u].refs) = db[u].refs
    BY <2>1
  <2> HIDE DEF tos
  <2> QED BY <2>2 DEF IsDb
<1>4. \A t \in DOMAIN taken : [taken[t] EXCEPT !.refs = tos(taken[t].refs)] = taken[t]
  <2> HIDE DEF tos
  <2> QED BY <1>3
<1>5. Applied(db, s) = taken
  <2> HIDE DEF tos
  <2> QED BY <1>1, <1>2, <1>4
<1> QED BY <1>5 DEF IsDb

(* A column is added, or no longer dropped. *)
Extended(rows, s) == {With(r, s.col, s.value) : r \in rows}

LEMMA AddsColumn ==
  ASSUME NEW db, IsDb(db), NEW s, s.do = "addColumn", s.table \in DOMAIN db
  PROVE  IF s.col \in db[s.table].cols THEN Applied(db, s) = db
         ELSE LET tab == db[s.table]
              IN  /\ Applied(db, s) =
                       [db EXCEPT ![s.table] =
                          [cols |-> tab.cols \cup {s.col}, refs |-> tab.refs,
                           unique |-> tab.unique, rows |-> Extended(tab.rows, s)]]
                  /\ IsDb(Applied(db, s))
<1>1. Applied(db, s) = [db EXCEPT ![s.table] = WithColumn(db[s.table], s)]
  BY DEF Applied
<1>2. CASE s.col \in db[s.table].cols
  <2>1. WithColumn(db[s.table], s) = db[s.table]
    BY <1>2 DEF WithColumn
  <2> QED BY <1>1, <1>2, <2>1 DEF IsDb
<1>3. CASE s.col \notin db[s.table].cols
  <2>1. WithColumn(db[s.table], s)
          = [cols |-> db[s.table].cols \cup {s.col}, refs |-> db[s.table].refs,
             unique |-> db[s.table].unique, rows |-> Extended(db[s.table].rows, s)]
    BY <1>3 DEF WithColumn, Extended
  <2> QED BY <1>1, <1>3, <2>1 DEF IsDb
<1> QED BY <1>2, <1>3

LEMMA DropsNoColumn ==
  ASSUME NEW db, IsDb(db), RowsFit(db), NEW s, s.do = "dropColumn",
         s.table \in DOMAIN db => s.col \notin db[s.table].cols
  PROVE  Applied(db, s) = db
<1>1. Applied(db, s) = IF s.table \in DOMAIN db
                       THEN [db EXCEPT ![s.table] = WithoutColumn(db[s.table], s.col)]
                       ELSE db
  BY DEF Applied
<1>2. CASE s.table \in DOMAIN db
  <2> DEFINE tab == db[s.table]
  <2>1. \A r \in tab.rows : Without(r, s.col) = r
    BY <1>2 DEF Without, RowsFit, IsRow
  <2>2. {Without(r, s.col) : r \in tab.rows} = tab.rows
    BY <2>1
  <2>3. tab.cols \ {s.col} = tab.cols
    BY <1>2
  <2>4. WithoutColumn(tab, s.col) = tab
    <3>1. tab = [cols |-> tab.cols, refs |-> tab.refs, unique |-> tab.unique, rows |-> tab.rows]
      BY <1>2 DEF IsDb
    <3> QED BY <2>2, <2>3, <3>1 DEF WithoutColumn
  <2> QED BY <1>1, <1>2, <2>4 DEF IsDb
<1> QED BY <1>1, <1>2

(* What is so without rows is so with them. *)
LEMMA ForeseenWithRows ==
  ASSUME NEW o, NEW p, NEW db, NEW s, IsForeseen(o, p, Bare(db), s)
  PROVE  IsForeseen(o, p, db, s)
<1> DEFINE bare == Bare(db)
<1>1. /\ DOMAIN bare = DOMAIN db
      /\ \A t \in DOMAIN db : /\ bare[t].cols = db[t].cols /\ bare[t].refs = db[t].refs
                              /\ bare[t].unique = db[t].unique
  BY BareRow
<1>2. IsForeseen(o, p, bare, s)
  OBVIOUS
<1> HIDE DEF bare
<1>3. \A t \in DOMAIN db : KeyCols(bare[t]) = KeyCols(db[t])
  BY <1>1 DEF KeyCols
<1>4. \A u : \A t \in DOMAIN db : RefersTo(bare[t], u) <=> RefersTo(db[t], u)
  BY <1>1 DEF RefersTo
<1>5. Applicable(db, s)
  <2>1. Applicable(bare, s)
    BY <1>2 DEF IsForeseen
  <2> QED BY <1>1, <2>1 DEF Applicable
<1>6. s.do = "copy" => "account" \in DOMAIN db /\ TmpName \in DOMAIN db
  BY <1>2, <1>5 DEF IsForeseen, Applicable
<1>7. s.do = "dedupe" => "account" \in DOMAIN db
  BY <1>2, <1>5 DEF IsForeseen, Applicable
<1>8. s.do = "retype" => "transaction_" \in DOMAIN db
  BY <1>2, <1>5 DEF IsForeseen, Applicable
<1>9. s.do = "addColumn" => s.table \in DOMAIN db
  BY <1>5 DEF Applicable
<1> QED BY <1>1, <1>2, <1>3, <1>4, <1>5, <1>6, <1>7, <1>8, <1>9 DEF IsForeseen

(* What a step does to the schema does not depend on the rows. *)
LEMMA BareApplied ==
  ASSUME NEW o, NEW p, NEW db, IsDb(db), RowsFit(db), NEW s, IsForeseen(o, p, db, s),
         s.do = "drop" => \A u \in DOMAIN db : RefersTo(db[u], s.table) => db[u].rows = {}
  PROVE  Bare(Applied(db, s)) = Bare(Applied(Bare(db), s)) /\ IsDb(Applied(db, s))
<1> SUFFICES ASSUME NEW bare, bare = Bare(db)
             PROVE  Bare(Applied(db, s)) = Bare(Applied(bare, s)) /\ IsDb(Applied(db, s))
  OBVIOUS
<1> DEFINE new == Applied(db, s)
           plain == Applied(bare, s)
<1>1. /\ DOMAIN bare = DOMAIN db /\ IsDb(bare) /\ RowsFit(bare)
      /\ \A t \in DOMAIN db : /\ bare[t].cols = db[t].cols /\ bare[t].refs = db[t].refs
                              /\ bare[t].unique = db[t].unique /\ bare[t].rows = {}
  BY BareRow DEF RowsFit
<1>b. \A a, b : /\ DOMAIN a = DOMAIN b
                /\ \A t \in DOMAIN a : /\ a[t].cols = b[t].cols /\ a[t].refs = b[t].refs
                                       /\ a[t].unique = b[t].unique
                => Bare(a) = Bare(b)
  BY DEF Bare, Empty
<1>2. Bare(bare) = Bare(db)
  BY <1>1, <1>b
<1>c. IsDb(bare) /\ DOMAIN bare = DOMAIN db
  BY <1>1
<1>3. CASE s.do = "create"
  <2>1. CASE s.table \in DOMAIN db
    BY <1>1, <1>2, <1>3, <2>1, Creates
  <2>2. CASE s.table \notin DOMAIN db
    <3>1. /\ new = [t \in DOMAIN db \cup {s.table} |->
                     IF t = s.table THEN Empty(s.model) ELSE db[t]]
          /\ IsDb(new)
      BY <1>3, <2>2, Creates
    <3>3. plain = [t \in DOMAIN bare \cup {s.table} |->
                     IF t = s.table THEN Empty(s.model) ELSE bare[t]]
      BY <1>c, <1>3, <2>2, Creates
    <3> HIDE DEF new, plain
    <3>2. Bare(new) = Bare(plain)
      BY <1>1, <1>b, <3>1, <3>3
    <3> QED BY <3>1, <3>2 DEF new, plain
  <2> QED BY <2>1, <2>2
<1>4. CASE s.do = "copy"
  <2>1. s.to \in DOMAIN db
    BY <1>4 DEF IsForeseen, Applicable
  <2>2. new = WithRows(db, s.to, db[s.to].rows \cup db[s.table].rows)
    BY <1>4, <2>1, Copies
  <2>3. plain = WithRows(bare, s.to, bare[s.to].rows \cup bare[s.table].rows)
    BY <1>1, <1>4, <2>1, Copies
  <2>4. IsDb(new) /\ Bare(new) = Bare(db)
    BY <2>1, <2>2, WithRowsIs
  <2>5. Bare(plain) = Bare(bare)
    BY <1>1, <2>1, <2>3, WithRowsIs
  <2> QED BY <1>2, <2>4, <2>5
<1>5. CASE s.do = "drop"
  <2>1. \A u \in DOMAIN db : RefersTo(db[u], s.table) => db[u].rows = {}
    BY <1>5
  <2>2. new = [u \in DOMAIN db \ {s.table} |-> db[u]] /\ IsDb(new)
    BY <1>5, <2>1, Drops
  <2>5. \A u \in DOMAIN bare : RefersTo(bare[u], s.table) => bare[u].rows = {}
    BY <1>1
  <2>3. plain = [u \in DOMAIN bare \ {s.table} |-> bare[u]]
    BY <1>c, <1>5, <2>5, Drops
  <2> HIDE DEF new, plain
  <2>4. Bare(new) = Bare(plain)
    BY <1>1, <1>b, <2>2, <2>3
  <2> QED BY <2>2, <2>4 DEF new, plain
<1>6. CASE s.do = "rename"
  <2>1. /\ \A u \in DOMAIN db : ~ RefersTo(db[u], s.table)
        /\ \A u \in DOMAIN db : \A k \in db[u].refs : k = Ref(k.col, k.to, k.cascade)
        /\ s.table \in DOMAIN db
    BY <1>6 DEF IsForeseen, Applicable
  <2>2. /\ \A u \in DOMAIN bare : ~ RefersTo(bare[u], s.table)
        /\ \A u \in DOMAIN bare : \A k \in bare[u].refs : k = Ref(k.col, k.to, k.cascade)
        /\ s.table \in DOMAIN bare
    BY <1>1, <2>1 DEF RefersTo
  <2>3. /\ new = [u \in (DOMAIN db \ {s.table}) \cup {s.to} |->
                   IF u = s.to THEN db[s.table] ELSE db[u]]
        /\ IsDb(new)
    BY <1>6, <2>1, Renames
  <2>4. plain = [u \in (DOMAIN bare \ {s.table}) \cup {s.to} |->
                     IF u = s.to THEN bare[s.table] ELSE bare[u]]
    BY <1>c, <1>6, <2>2, Renames
  <2> HIDE DEF new, plain
  <2>5. Bare(new) = Bare(plain)
    BY <1>1, <1>b, <2>1, <2>3, <2>4
  <2> QED BY <2>3, <2>5 DEF new, plain
<1>7. CASE s.do = "addColumn"
  <2>1. s.table \in DOMAIN db
    BY <1>7 DEF IsForeseen, Applicable
  <2>2. CASE s.col \in db[s.table].cols
    BY <1>1, <1>2, <1>7, <2>1, <2>2, AddsColumn
  <2>3. CASE s.col \notin db[s.table].cols
    <3>1. /\ new = [db EXCEPT ![s.table] =
                      [cols |-> db[s.table].cols \cup {s.col}, refs |-> db[s.table].refs,
                       unique |-> db[s.table].unique, rows |-> Extended(db[s.table].rows, s)]]
          /\ IsDb(new)
      BY <1>7, <2>1, <2>3, AddsColumn
    <3>2. plain = [bare EXCEPT ![s.table] =
                      [cols |-> bare[s.table].cols \cup {s.col}, refs |-> bare[s.table].refs,
                       unique |-> bare[s.table].unique,
                       rows |-> Extended(bare[s.table].rows, s)]]
      BY <1>1, <1>7, <2>1, <2>3, AddsColumn
    <3> HIDE DEF new, plain
    <3>4. DOMAIN new = DOMAIN db /\ DOMAIN plain = DOMAIN db
      BY <1>1, <3>1, <3>2
    <3>5. /\ new[s.table].cols = db[s.table].cols \cup {s.col}
          /\ new[s.table].refs = db[s.table].refs /\ new[s.table].unique = db[s.table].unique
      BY <2>1, <3>1
    <3>6. /\ plain[s.table].cols = db[s.table].cols \cup {s.col}
          /\ plain[s.table].refs = db[s.table].refs
          /\ plain[s.table].unique = db[s.table].unique
      BY <1>1, <2>1, <3>2
    <3>7. \A u \in DOMAIN db \ {s.table} : new[u] = db[u] /\ plain[u] = bare[u]
      BY <1>1, <3>1, <3>2
    <3>8. \A u \in DOMAIN db : /\ new[u].cols = plain[u].cols /\ new[u].refs = plain[u].refs
                              /\ new[u].unique = plain[u].unique
      <4> TAKE u \in DOMAIN db
      <4>1. CASE u = s.table
        BY <3>5, <3>6, <4>1
      <4>2. CASE u # s.table
        <5>1. new[u] = db[u] /\ plain[u] = bare[u]
          BY <3>7, <4>2
        <5> QED BY <1>1, <5>1
      <4> QED BY <4>1, <4>2
    <3>3. Bare(new) = Bare(plain)
      BY <1>b, <3>4, <3>8
    <3> QED BY <3>1, <3>3 DEF new, plain
  <2> QED BY <2>2, <2>3
<1>8. CASE s.do = "dropColumn"
  <2>1. s.table \in DOMAIN db => s.col \notin db[s.table].cols
    BY <1>8 DEF IsForeseen
  <2> QED BY <1>1, <1>2, <1>8, <2>1, DropsNoColumn
<1>9. CASE s.do = "dedupe"
  <2>1. s.table \in DOMAIN db
    BY <1>9 DEF IsForeseen, Applicable
  <2>2. new = WithRows(db, s.table, Deduped(db[s.table].rows))
    BY <1>9, <2>1, Dedupes
  <2>3. plain = WithRows(bare, s.table, Deduped(bare[s.table].rows))
    BY <1>1, <1>9, <2>1, Dedupes
  <2>4. IsDb(new) /\ Bare(new) = Bare(db)
    BY <2>1, <2>2, WithRowsIs
  <2>5. Bare(plain) = Bare(bare)
    BY <1>1, <2>1, <2>3, WithRowsIs
  <2> QED BY <1>2, <2>4, <2>5
<1>10. CASE s.do = "retype"
  <2>1. s.table \in DOMAIN db
    BY <1>10 DEF IsForeseen, Applicable
  <2>2. new = WithRows(db, s.table, Retyped(db[s.table].rows))
    BY <1>10, <2>1, Retypes
  <2>3. plain = WithRows(bare, s.table, Retyped(bare[s.table].rows))
    BY <1>1, <1>10, <2>1, Retypes
  <2>4. IsDb(new) /\ Bare(new) = Bare(db)
    BY <2>1, <2>2, WithRowsIs
  <2>5. Bare(plain) = Bare(bare)
    BY <1>1, <2>1, <2>3, WithRowsIs
  <2> QED BY <1>2, <2>4, <2>5
<1> QED BY <1>3, <1>4, <1>5, <1>6, <1>7, <1>8, <1>9, <1>10 DEF IsForeseen

(* The rows while the upgrade of a file, with the tables old, is before p.  *)
RowsIn(db, t) == IF t \in DOMAIN db THEN db[t].rows ELSE {}
AccountRows(db) ==
  IF "account" \in DOMAIN db THEN db["account"].rows ELSE RowsIn(db, TmpName)
Dropping(rows, x) == {Without(r, x) : r \in rows}
NoType(rows) == Dropping(rows, "type")
Typed == {"transaction_", "tx_entry"}

FreshAreEmpty(o, p, db) == \A t \in DOMAIN db : Fresh(o, p, t) => db[t].rows = {}
OthersAreKept(o, p, db, old) ==
  \A t \in DOMAIN db \ Accounts : ~ Fresh(o, p, t) =>
    IF t \in Typed THEN NoType(db[t].rows) = NoType(old[t].rows)
    ELSE db[t].rows = old[t].rows
TradesAreStock(o, p, db) ==
  IsMade("retype", o, p) \/ o.version >= 12 => NoTrades(db)
AccountsAreKept(o, p, db, old) ==
  AccountRows(db) = IF IsMade("dedupe", o, p) THEN Deduped(RowsIn(old, "account"))
                    ELSE RowsIn(old, "account")
ReadyFor(s, db) ==
  /\ Constrained(db)
  /\ s.do = "copy" => RowsIn(db, TmpName) = {}
  /\ s.do = "drop" /\ s.table = "account" /\ "account" \in DOMAIN db =>
       RowsIn(db, TmpName) = db["account"].rows

RowsFollow(o, p, db, old) ==
  /\ RowsFit(db)
  /\ FreshAreEmpty(o, p, db) /\ OthersAreKept(o, p, db, old)
  /\ TradesAreStock(o, p, db) /\ AccountsAreKept(o, p, db, old)

(* What is fresh and what was made after a step. *)
LEMMA Onward ==
  ASSUME NEW o, NEW p, NEW q, NEW s, Made(o, q) = Made(o, p) \cup {s}
  PROVE  /\ \A do : IsMade(do, o, q) <=> IsMade(do, o, p) \/ s.do = do
         /\ \A t : Fresh(o, q, t) <=>
                   Fresh(o, p, t) \/ (s.do = "drop" /\ t = s.table /\ t \notin Accounts)
<1>1. \A do : IsMade(do, o, q) <=> IsMade(do, o, p) \/ s.do = do
  BY DEF IsMade
<1>2. Gone(o, q) = Gone(o, p) \cup (IF s.do = "drop" THEN {s.table} \ Accounts ELSE {})
  BY DEF Gone
<1> QED BY <1>1, <1>2 DEF Fresh

LEMMA AccountsDiffer == "account" # TmpName /\ Accounts \cap Typed = {}
                        /\ "account" \in Accounts /\ TmpName \in Accounts
BY DEF TmpName, Accounts, Typed

(* UPDATE account changes names only. *)
LEMMA DedupedIs ==
  ASSUME NEW rows, NEW cols, "name" \in cols, \A r \in rows : IsRow(r, cols)
  PROVE  \A d \in Deduped(rows) :
           /\ IsRow(d, cols)
           /\ \E r \in rows : \A c \in cols \ {"name"} : d[c] = r[c]
<1> TAKE d \in Deduped(rows)
<1>1. PICK a \in rows : d = IF IsFirst(a, rows) THEN a
                           ELSE [a EXCEPT !["name"] = Append(a["name"], a["id"])]
  BY DEF Deduped
<1>2. IsRow(a, cols)
  OBVIOUS
<1> QED BY <1>1, <1>2 DEF IsRow

LEMMA DedupedHas ==
  ASSUME NEW rows, NEW cols, "name" \in cols, \A r \in rows : IsRow(r, cols)
  PROVE  \A r \in rows : \E d \in Deduped(rows) : \A c \in cols \ {"name"} : d[c] = r[c]
<1> TAKE r \in rows
<1>1. IsRow(r, cols)
  OBVIOUS
<1> DEFINE d == IF IsFirst(r, rows) THEN r ELSE [r EXCEPT !["name"] = Append(r["name"], r["id"])]
<1>2. d \in Deduped(rows)
  BY DEF Deduped
<1>3. \A c \in cols \ {"name"} : d[c] = r[c]
  BY <1>1
<1> HIDE DEF d
<1> QED BY <1>2, <1>3

(* The update of version 12 changes types only. *)
LEMMA RetypedIs ==
  ASSUME NEW rows, NEW cols, "type" \in cols, \A r \in rows : IsRow(r, cols)
  PROVE  /\ \A d \in Retyped(rows) :
              /\ IsRow(d, cols) /\ d["type"] # "Trade"
              /\ \E r \in rows : /\ Without(d, "type") = Without(r, "type")
                                /\ \A c \in cols \ {"type"} : d[c] = r[c]
                                /\ d = IF r["type"] = "Trade"
                                       THEN [r EXCEPT !["type"] = "Stock"] ELSE r
         /\ \A r \in rows : \E d \in Retyped(rows) :
              /\ Without(d, "type") = Without(r, "type")
              /\ \A c \in cols \ {"type"} : d[c] = r[c]
         /\ NoType(Retyped(rows)) = NoType(rows)
<1> DEFINE new(r) == IF r["type"] = "Trade" THEN [r EXCEPT !["type"] = "Stock"] ELSE r
<1>1. ASSUME NEW r \in rows
      PROVE  /\ IsRow(new(r), cols) /\ new(r)["type"] # "Trade"
             /\ Without(new(r), "type") = Without(r, "type")
             /\ \A c \in cols \ {"type"} : new(r)[c] = r[c]
  <2>1. IsRow(r, cols)
    OBVIOUS
  <2>2. IsRow(new(r), cols) /\ new(r)["type"] # "Trade"
        /\ \A c \in cols \ {"type"} : new(r)[c] = r[c]
    BY <2>1 DEF IsRow
  <2>3. Without(new(r), "type") = Without(r, "type")
    <3> HIDE DEF new
    <3> QED BY <2>1, <2>2 DEF Without, IsRow
  <2> QED BY <2>2, <2>3
<1>2. Retyped(rows) = {new(r) : r \in rows}
  BY DEF Retyped
<1>3. NoType(Retyped(rows)) = NoType(rows)
  <2> HIDE DEF new
  <2> QED BY <1>1, <1>2 DEF NoType, Dropping
<1>4. \A d \in Retyped(rows) : \E r \in rows : d = new(r)
  BY <1>2
<1>5. \A r \in rows : new(r) \in Retyped(rows)
  BY <1>2
<1> QED
  <2>1. \A r \in rows : new(r) = IF r["type"] = "Trade"
                                  THEN [r EXCEPT !["type"] = "Stock"] ELSE r
    OBVIOUS
  <2> HIDE DEF new
  <2>2. ASSUME NEW d \in Retyped(rows)
        PROVE  /\ IsRow(d, cols) /\ d["type"] # "Trade"
               /\ \E r \in rows : /\ Without(d, "type") = Without(r, "type")
                                 /\ \A c \in cols \ {"type"} : d[c] = r[c]
                                 /\ d = IF r["type"] = "Trade"
                                        THEN [r EXCEPT !["type"] = "Stock"] ELSE r
    <3>1. PICK r \in rows : d = new(r)
      BY <1>4
    <3>2. d = IF r["type"] = "Trade" THEN [r EXCEPT !["type"] = "Stock"] ELSE r
      BY <2>1, <3>1
    <3> QED BY <1>1, <3>1, <3>2
  <2>3. ASSUME NEW r \in rows
        PROVE  \E d \in Retyped(rows) :
                 /\ Without(d, "type") = Without(r, "type")
                 /\ \A c \in cols \ {"type"} : d[c] = r[c]
    BY <1>1, <1>5
  <2> QED BY <1>3, <2>2, <2>3

(* A new column leaves the others as they are. *)
LEMMA WithIs ==
  ASSUME NEW cols, NEW x, NEW v, NEW r, x \notin cols, IsRow(r, cols)
  PROVE  /\ IsRow(With(r, x, v), cols \cup {x})
         /\ \A c \in cols : With(r, x, v)[c] = r[c]
BY DEF With, IsRow

LEMMA ExtendedRows ==
  ASSUME NEW rows, NEW cols, NEW s, s.col \notin cols, \A r \in rows : IsRow(r, cols)
  PROVE  \A d \in Extended(rows, s) :
           /\ IsRow(d, cols \cup {s.col})
           /\ \E r \in rows : d = With(r, s.col, s.value) /\ \A c \in cols : d[c] = r[c]
<1> TAKE d \in Extended(rows, s)
<1>1. PICK r \in rows : d = With(r, s.col, s.value)
  BY DEF Extended
<1>2. /\ IsRow(With(r, s.col, s.value), cols \cup {s.col})
      /\ \A c \in cols : With(r, s.col, s.value)[c] = r[c]
  BY WithIs
<1> QED BY <1>1, <1>2

LEMMA ExtendedWithout ==
  ASSUME NEW rows, NEW cols, NEW s, s.col \notin cols, \A r \in rows : IsRow(r, cols)
  PROVE  Dropping(Extended(rows, s), s.col) = Dropping(rows, s.col)
<1>1. ASSUME NEW r \in rows
      PROVE  Without(With(r, s.col, s.value), s.col) = Without(r, s.col)
  <2>1. IsRow(r, cols)
    OBVIOUS
  <2> QED BY <2>1 DEF With, Without, IsRow
<1> QED BY <1>1 DEF Dropping, Extended

(* A table that is renamed takes its rows along. *)
LEMMA RenamedTables ==
  ASSUME NEW o, NEW p, NEW db, NEW s, IsDb(db), IsForeseen(o, p, db, s), s.do = "rename"
  PROVE  DOMAIN Applied(db, s) = (DOMAIN db \ {s.table}) \cup {s.to}
<1>1. /\ \A u \in DOMAIN db : ~ RefersTo(db[u], s.table)
      /\ \A u \in DOMAIN db : \A k \in db[u].refs : k = Ref(k.col, k.to, k.cascade)
      /\ s.table \in DOMAIN db
  BY DEF IsForeseen, Applicable
<1>2. Applied(db, s) = [u \in (DOMAIN db \ {s.table}) \cup {s.to} |->
                          IF u = s.to THEN db[s.table] ELSE db[u]]
  BY <1>1, Renames
<1> QED BY <1>2

LEMMA RenamedTable ==
  ASSUME NEW o, NEW p, NEW db, NEW s, IsDb(db), IsForeseen(o, p, db, s), s.do = "rename"
  PROVE  /\ Applied(db, s)[s.to] = db[s.table]
         /\ \A u \in DOMAIN db \ {s.table, s.to} : Applied(db, s)[u] = db[u]
<1>1. /\ \A u \in DOMAIN db : ~ RefersTo(db[u], s.table)
      /\ \A u \in DOMAIN db : \A k \in db[u].refs : k = Ref(k.col, k.to, k.cascade)
      /\ s.table \in DOMAIN db
  BY DEF IsForeseen, Applicable
<1>2. Applied(db, s) = [u \in (DOMAIN db \ {s.table}) \cup {s.to} |->
                          IF u = s.to THEN db[s.table] ELSE db[u]]
  BY <1>1, Renames
<1> SUFFICES ASSUME NEW new, new = Applied(db, s)
             PROVE  /\ new[s.to] = db[s.table]
                    /\ \A u \in DOMAIN db \ {s.table, s.to} : new[u] = db[u]
  OBVIOUS
<1> QED BY <1>2

(* A step keeps what was said of the rows. *)
LEMMA StepKeepsRows ==
  ASSUME NEW o, NEW p, NEW q, NEW s, NEW db, NEW old, IsDb(db), RowsFollow(o, p, db, old),
         DOMAIN old = DOMAIN o.db, IsForeseen(o, p, db, s), ReadyFor(s, db),
         Made(o, q) = Made(o, p) \cup {s}
  PROVE  RowsFollow(o, q, Applied(db, s), old)
<1> DEFINE new == Applied(db, s)
<1>1. /\ RowsFit(db) /\ FreshAreEmpty(o, p, db) /\ OthersAreKept(o, p, db, old)
      /\ TradesAreStock(o, p, db) /\ AccountsAreKept(o, p, db, old)
  BY DEF RowsFollow
<1>2. /\ \A do : IsMade(do, o, q) <=> IsMade(do, o, p) \/ s.do = do
      /\ \A t : Fresh(o, q, t) <=>
                Fresh(o, p, t) \/ (s.do = "drop" /\ t = s.table /\ t \notin Accounts)
  BY Onward
(* A step that changes nothing. *)
<1>3. ASSUME new = db, s.do \notin {"drop", "dedupe", "retype"}
      PROVE  RowsFollow(o, q, new, old)
  BY <1>1, <1>2, <1>3 DEF RowsFollow, FreshAreEmpty, OthersAreKept, TradesAreStock, AccountsAreKept
<1>4. CASE s.do = "create"
  <2>1. CASE s.table \in DOMAIN db
    BY <1>3, <1>4, <2>1, Creates
  <2>2. CASE s.table \notin DOMAIN db
    <3>1. /\ new = [t \in DOMAIN db \cup {s.table} |->
                     IF t = s.table THEN Empty(s.model) ELSE db[t]]
      BY <1>4, <2>2, Creates
    <3> HIDE DEF new
    <3>2. /\ DOMAIN new = DOMAIN db \cup {s.table} /\ new[s.table].rows = {}
          /\ \A t \in DOMAIN db : new[t] = db[t]
      BY <2>2, <3>1 DEF Empty
    <3>3. RowsFit(new) /\ FreshAreEmpty(o, q, new)
      BY <1>1, <1>2, <1>4, <3>2 DEF RowsFit, FreshAreEmpty
    <3>4. s.table \in Accounts \/ Fresh(o, q, s.table)
      BY <1>2, <2>2 DEF IsForeseen, Fresh
    <3>5. OthersAreKept(o, q, new, old)
      BY <1>1, <1>2, <1>4, <3>2, <3>4 DEF OthersAreKept
    <3>6. TradesAreStock(o, q, new)
      BY <1>1, <1>2, <1>4, <3>2 DEF TradesAreStock, NoTrades
    <3>7. AccountRows(new) = AccountRows(db)
      <4>1. /\ s.table = TmpName => "account" \in DOMAIN db
            /\ s.table = "account" => TmpName \notin DOMAIN db
        BY <1>4, <2>2 DEF IsForeseen
      <4> QED BY <2>2, <3>2, <4>1, AccountsDiffer DEF AccountRows, RowsIn
    <3>8. AccountsAreKept(o, q, new, old)
      BY <1>1, <1>2, <1>4, <3>7 DEF AccountsAreKept
    <3> QED BY <3>3, <3>5, <3>6, <3>8 DEF RowsFollow, new
  <2> QED BY <2>1, <2>2
<1>5. CASE s.do = "copy"
  <2>1. /\ s.table = "account" /\ s.to = TmpName /\ {"account", TmpName} \subseteq DOMAIN db
        /\ db["account"].cols = db[TmpName].cols
    BY <1>5 DEF IsForeseen, Applicable
  <2>2. db[TmpName].rows = {}
    BY <1>5, <2>1 DEF ReadyFor, RowsIn
  <2>3. new = WithRows(db, TmpName, db["account"].rows)
    <3>1. {} \cup db["account"].rows = db["account"].rows
      OBVIOUS
    <3> QED BY <1>5, <2>1, <2>2, <3>1, Copies
  <2> HIDE DEF new
  <2>4. /\ DOMAIN new = DOMAIN db /\ new[TmpName].rows = db["account"].rows
        /\ \A t \in DOMAIN db : new[t].cols = db[t].cols
        /\ \A t \in DOMAIN db \ {TmpName} : new[t] = db[t]
    BY <2>1, <2>3, WithRowsIs
  <2>5. RowsFit(new)
    BY <1>1, <2>1, <2>4 DEF RowsFit
  <2>6. FreshAreEmpty(o, q, new) /\ OthersAreKept(o, q, new, old) /\ TradesAreStock(o, q, new)
    <3>1. \A t : Fresh(o, q, t) <=> Fresh(o, p, t)
      BY <1>2, <1>5
    <3>2. ~ Fresh(o, p, TmpName) /\ TmpName # "transaction_"
      BY AccountsDiffer DEF Fresh, Typed
    <3>3. FreshAreEmpty(o, q, new)
      BY <1>1, <2>4, <3>1, <3>2 DEF FreshAreEmpty
    <3>4. OthersAreKept(o, q, new, old)
      BY <1>1, <2>4, <3>1, AccountsDiffer DEF OthersAreKept
    <3> QED BY <1>1, <1>2, <1>5, <2>4, <3>2, <3>3, <3>4 DEF TradesAreStock, NoTrades
  <2>7. AccountsAreKept(o, q, new, old)
    BY <1>1, <1>2, <1>5, <2>1, <2>4, AccountsDiffer DEF AccountsAreKept, AccountRows
  <2> QED BY <2>5, <2>6, <2>7 DEF RowsFollow, new
<1>6. CASE s.do = "drop"
  <2>1. /\ s.table # TmpName /\ s.table \in DOMAIN db
        /\ \A t \in DOMAIN db : RefersTo(db[t], s.table) => Fresh(o, p, t)
    BY <1>6 DEF IsForeseen, Applicable
  <2>2. \A u \in DOMAIN db : RefersTo(db[u], s.table) => db[u].rows = {}
    BY <1>1, <2>1 DEF FreshAreEmpty
  <2>3. new = [u \in DOMAIN db \ {s.table} |-> db[u]]
    BY <1>6, <2>2, Drops
  <2> HIDE DEF new
  <2>4. DOMAIN new = DOMAIN db \ {s.table} /\ \A u \in DOMAIN new : new[u] = db[u]
    BY <2>3
  <2>5. \A t \in DOMAIN new : Fresh(o, q, t) <=> Fresh(o, p, t)
    BY <1>2, <2>4
  <2>6. RowsFit(new) /\ FreshAreEmpty(o, q, new) /\ OthersAreKept(o, q, new, old)
    BY <1>1, <2>4, <2>5 DEF RowsFit, FreshAreEmpty, OthersAreKept
  <2>7. TradesAreStock(o, q, new)
    BY <1>1, <1>2, <1>6, <2>4 DEF TradesAreStock, NoTrades
  <2>8. AccountRows(new) = AccountRows(db)
    <3>1. CASE s.table = "account"
      BY <1>6, <2>1, <2>4, <3>1, AccountsDiffer DEF ReadyFor, AccountRows, RowsIn
    <3>2. CASE s.table # "account"
      BY <2>1, <2>4, <3>2 DEF AccountRows, RowsIn
    <3> QED BY <3>1, <3>2
  <2>9. AccountsAreKept(o, q, new, old)
    BY <1>1, <1>2, <1>6, <2>8 DEF AccountsAreKept
  <2> QED BY <2>6, <2>7, <2>9 DEF RowsFollow, new
<1>7. CASE s.do = "rename"
  <2>1. /\ s.table = TmpName /\ s.to = "account"
        /\ TmpName \in DOMAIN db /\ "account" \notin DOMAIN db
        /\ \A t \in DOMAIN db : ~ RefersTo(db[t], TmpName)
    BY <1>7 DEF IsForeseen, Applicable
  <2>a. DOMAIN new = (DOMAIN db \ {s.table}) \cup {s.to}
    BY <1>7, RenamedTables
  <2>2. /\ new[s.to] = db[s.table]
        /\ \A u \in DOMAIN db \ {s.table, s.to} : new[u] = db[u]
    BY <1>7, RenamedTable
  <2>3. /\ DOMAIN new = (DOMAIN db \ {TmpName}) \cup {"account"}
        /\ new["account"] = db[TmpName]
        /\ \A u \in DOMAIN db \ {TmpName} : new[u] = db[u]
    <3> HIDE DEF new
    <3> QED BY <2>1, <2>a, <2>2
  <2> HIDE DEF new
  <2>4. \A t : Fresh(o, q, t) <=> Fresh(o, p, t)
    BY <1>2, <1>7
  <2>5. ~ Fresh(o, p, "account") /\ "account" # "transaction_"
    BY AccountsDiffer DEF Fresh
  <2>6. RowsFit(new) /\ FreshAreEmpty(o, q, new)
    BY <1>1, <2>1, <2>3, <2>4, <2>5 DEF RowsFit, FreshAreEmpty
  <2>7. OthersAreKept(o, q, new, old)
    BY <1>1, <2>3, <2>4, AccountsDiffer DEF OthersAreKept
  <2>8. TradesAreStock(o, q, new)
    BY <1>1, <1>2, <1>7, <2>3, <2>5 DEF TradesAreStock, NoTrades
  <2>9. AccountsAreKept(o, q, new, old)
    BY <1>1, <1>2, <1>7, <2>1, <2>3, AccountsDiffer DEF AccountsAreKept, AccountRows, RowsIn
  <2> QED BY <2>6, <2>7, <2>8, <2>9 DEF RowsFollow, new
<1>8. CASE s.do = "addColumn"
  <2>1. s.table \in DOMAIN db
    BY <1>8 DEF IsForeseen, Applicable
  <2>2. CASE s.col \in db[s.table].cols
    BY <1>3, <1>8, <2>1, <2>2, AddsColumn
  <2>3. CASE s.col \notin db[s.table].cols
    <3> DEFINE t == s.table
    <3>1. new = [db EXCEPT ![t] =
                   [cols |-> db[t].cols \cup {s.col}, refs |-> db[t].refs,
                    unique |-> db[t].unique, rows |-> Extended(db[t].rows, s)]]
      BY <1>8, <2>1, <2>3, AddsColumn
    <3>2. Fresh(o, p, t) \/ (t = "tx_entry" /\ s.col = "type")
      BY <1>8, <2>3 DEF IsForeseen
    <3>x. s.col \notin db[t].cols /\ t \in DOMAIN db
      BY <2>1, <2>3
    <3> HIDE DEF new, t
    <3>3. /\ DOMAIN new = DOMAIN db
          /\ new[t].cols = db[t].cols \cup {s.col} /\ new[t].rows = Extended(db[t].rows, s)
          /\ \A u \in DOMAIN db \ {t} : new[u] = db[u]
      BY <3>x, <3>1
    <3>4. /\ \A d \in Extended(db[t].rows, s) : IsRow(d, db[t].cols \cup {s.col})
          /\ s.col = "type" => NoType(Extended(db[t].rows, s)) = NoType(db[t].rows)
          /\ db[t].rows = {} => Extended(db[t].rows, s) = {}
      <4>1. \A r \in db[t].rows : IsRow(r, db[t].cols)
        BY <1>1, <3>x DEF RowsFit
      <4>2. db[t].rows = {} => Extended(db[t].rows, s) = {}
        BY DEF Extended
      <4>3. \A d \in Extended(db[t].rows, s) : IsRow(d, db[t].cols \cup {s.col})
        BY <3>x, <4>1, ExtendedRows
      <4>4. s.col = "type" => NoType(Extended(db[t].rows, s)) = NoType(db[t].rows)
        BY <3>x, <4>1, ExtendedWithout DEF NoType
      <4> QED BY <4>2, <4>3, <4>4
    <3>5. RowsFit(new)
      BY <1>1, <3>3, <3>4 DEF RowsFit
    <3>6. \A u : Fresh(o, q, u) <=> Fresh(o, p, u)
      BY <1>2, <1>8
    <3>7. FreshAreEmpty(o, q, new)
      BY <1>1, <3>3, <3>4, <3>6 DEF FreshAreEmpty
    <3>8. OthersAreKept(o, q, new, old)
      BY <1>1, <3>2, <3>3, <3>4, <3>6 DEF OthersAreKept, Typed
    <3>9. t \notin Accounts /\ (t = "transaction_" => db[t].rows = {})
      BY <1>1, <3>2, <3>x, AccountsDiffer DEF Fresh, FreshAreEmpty, Typed
    <3>10. TradesAreStock(o, q, new)
      BY <1>1, <1>2, <1>8, <3>3, <3>4, <3>9 DEF TradesAreStock, NoTrades
    <3>11. AccountsAreKept(o, q, new, old)
      BY <1>1, <1>2, <1>8, <3>3, <3>9, AccountsDiffer DEF AccountsAreKept, AccountRows, RowsIn
    <3> QED BY <3>5, <3>7, <3>8, <3>10, <3>11 DEF RowsFollow, new
  <2> QED BY <2>2, <2>3
<1>9. CASE s.do = "dropColumn"
  <2>1. s.table \in DOMAIN db => s.col \notin db[s.table].cols
    BY <1>9 DEF IsForeseen
  <2> QED BY <1>1, <1>3, <1>9, <2>1, DropsNoColumn
<1>10. CASE s.do = "dedupe"
  <2>1. /\ s.table = "account" /\ "account" \in DOMAIN db /\ "name" \in db["account"].cols
        /\ ~ IsMade("dedupe", o, p)
    BY <1>10 DEF IsForeseen, Applicable
  <2>2. new = WithRows(db, "account", Deduped(db["account"].rows))
    BY <1>10, <2>1, Dedupes
  <2> HIDE DEF new
  <2>3. /\ DOMAIN new = DOMAIN db /\ new["account"].rows = Deduped(db["account"].rows)
        /\ \A t \in DOMAIN db : new[t].cols = db[t].cols
        /\ \A t \in DOMAIN db \ {"account"} : new[t] = db[t]
    BY <2>1, <2>2, WithRowsIs
  <2>4. \A r \in db["account"].rows : IsRow(r, db["account"].cols)
    BY <1>1, <2>1 DEF RowsFit
  <2>5. \A d \in Deduped(db["account"].rows) : IsRow(d, db["account"].cols)
    BY <2>1, <2>4, DedupedIs
  <2>6. RowsFit(new)
    BY <1>1, <2>3, <2>5 DEF RowsFit
  <2>7. \A t : Fresh(o, q, t) <=> Fresh(o, p, t)
    BY <1>2, <1>10
  <2>8. ~ Fresh(o, p, "account") /\ "account" # "transaction_"
    BY AccountsDiffer DEF Fresh
  <2>9. FreshAreEmpty(o, q, new)
    BY <1>1, <2>3, <2>7, <2>8 DEF FreshAreEmpty
  <2>10. OthersAreKept(o, q, new, old)
    BY <1>1, <2>3, <2>7, AccountsDiffer DEF OthersAreKept
  <2>11. TradesAreStock(o, q, new)
    BY <1>1, <1>2, <1>10, <2>3, <2>8 DEF TradesAreStock, NoTrades
  <2>12. AccountsAreKept(o, q, new, old)
    BY <1>1, <1>2, <1>10, <2>1, <2>3 DEF AccountsAreKept, AccountRows
  <2> QED BY <2>6, <2>9, <2>10, <2>11, <2>12 DEF RowsFollow, new
<1>11. CASE s.do = "retype"
  <2> DEFINE t == "transaction_"
  <2>1. s.table = t /\ t \in DOMAIN db /\ "type" \in db[t].cols
    BY <1>11 DEF IsForeseen, Applicable
  <2>2. new = WithRows(db, t, Retyped(db[t].rows))
    BY <1>11, <2>1, Retypes
  <2>v. t \in Typed /\ t \notin Accounts /\ t # "account" /\ t # TmpName
    BY AccountsDiffer DEF Typed
  <2>w. NoTrades(new) <=> (t \in DOMAIN new => \A r \in new[t].rows : r["type"] # "Trade")
    BY DEF NoTrades
  <2> HIDE DEF new, t
  <2>3. /\ DOMAIN new = DOMAIN db /\ new[t].rows = Retyped(db[t].rows)
        /\ \A u \in DOMAIN db : new[u].cols = db[u].cols
        /\ \A u \in DOMAIN db \ {t} : new[u] = db[u]
    BY <2>1, <2>2, WithRowsIs
  <2>4. \A r \in db[t].rows : IsRow(r, db[t].cols)
    BY <1>1, <2>1 DEF RowsFit
  <2>5. /\ \A d \in Retyped(db[t].rows) : IsRow(d, db[t].cols) /\ d["type"] # "Trade"
        /\ NoType(Retyped(db[t].rows)) = NoType(db[t].rows)
        /\ db[t].rows = {} => Retyped(db[t].rows) = {}
    <3>1. db[t].rows = {} => Retyped(db[t].rows) = {}
      BY DEF Retyped
    <3>2. /\ \A d \in Retyped(db[t].rows) : IsRow(d, db[t].cols) /\ d["type"] # "Trade"
          /\ NoType(Retyped(db[t].rows)) = NoType(db[t].rows)
      BY <2>1, <2>4, RetypedIs
    <3> QED BY <3>1, <3>2
  <2>6. RowsFit(new)
    BY <1>1, <2>3, <2>5 DEF RowsFit
  <2>7. \A u : Fresh(o, q, u) <=> Fresh(o, p, u)
    BY <1>2, <1>11
  <2>8. FreshAreEmpty(o, q, new)
    BY <1>1, <2>3, <2>5, <2>7 DEF FreshAreEmpty
  <2>9. OthersAreKept(o, q, new, old)
    BY <1>1, <2>3, <2>5, <2>7, <2>v DEF OthersAreKept
  <2>10. TradesAreStock(o, q, new)
    BY <2>3, <2>5, <2>w DEF TradesAreStock
  <2>11. AccountsAreKept(o, q, new, old)
    BY <1>1, <1>2, <1>11, <2>3, <2>v DEF AccountsAreKept, AccountRows, RowsIn
  <2> QED BY <2>6, <2>8, <2>9, <2>10, <2>11 DEF RowsFollow, new
<1> QED BY <1>4, <1>5, <1>6, <1>7, <1>8, <1>9, <1>10, <1>11 DEF IsForeseen

(* Two accounts that version 2 gives the same name. *)
SameAccount(a, b) == \A c \in {"profile_id", "kind", "name"} : a[c] = b[c]
Clash(old) ==
  /\ "account" \in DOMAIN old
  /\ \E a, b \in Deduped(old["account"].rows) : a # b /\ SameAccount(a, b)

(* Rows that change into rows with the same values in the columns of the    *)
(* keys stay unique, and stay those that others refer to.                   *)
LEMMA KeysUnchanged ==
  ASSUME NEW db, NEW new, NEW t \in DOMAIN db, Constrained(db),
         DOMAIN new = DOMAIN db, \A u \in DOMAIN db \ {t} : new[u] = db[u],
         new[t].refs = db[t].refs, new[t].unique = db[t].unique,
         \A d \in new[t].rows : \E r \in db[t].rows : \A k \in db[t].refs : d[k.col] = r[k.col],
         \A r \in db[t].rows : \E d \in new[t].rows : d["id"] = r["id"],
         UniqueIn(new[t])
  PROVE  Constrained(new)
<1>1. RefsHold(db) /\ \A u \in DOMAIN db : UniqueIn(db[u])
  BY DEF Constrained
<1>2. \A u \in DOMAIN new : UniqueIn(new[u])
  BY <1>1
<1>3. ASSUME NEW u \in DOMAIN new, NEW k \in new[u].refs, NEW d \in new[u].rows
      PROVE  k.to \in DOMAIN new /\ \E e \in new[k.to].rows : e["id"] = d[k.col]
  <2>1. k \in db[u].refs
    BY <1>3
  <2>2. PICK r \in db[u].rows : r[k.col] = d[k.col]
    BY <1>3
  <2>3. PICK q \in db[k.to].rows : k.to \in DOMAIN db /\ q["id"] = r[k.col]
    BY <1>1, <2>1 DEF RefsHold
  <2>4. \E e \in new[k.to].rows : e["id"] = q["id"]
    BY <2>3
  <2> QED BY <2>2, <2>3, <2>4
<1> QED BY <1>2, <1>3 DEF Constrained, RefsHold

(* A step fails for a clash of names only. *)
LEMMA StepRefused ==
  ASSUME NEW o, NEW p, NEW s, NEW db, NEW old, IsDb(db), RowsFollow(o, p, db, old),
         DOMAIN old = DOMAIN o.db, IsForeseen(o, p, db, s), ReadyFor(s, db)
  PROVE  Constrained(Applied(db, s)) \/ Clash(old)
<1> DEFINE new == Applied(db, s)
<1>1. /\ RowsFit(db) /\ FreshAreEmpty(o, p, db) /\ AccountsAreKept(o, p, db, old)
  BY DEF RowsFollow
<1>2. Constrained(db) /\ RefsHold(db) /\ \A u \in DOMAIN db : UniqueIn(db[u])
  BY DEF ReadyFor, Constrained
<1>3. \A t \in DOMAIN db : /\ "id" \in db[t].cols
                           /\ \A k \in db[t].refs : k.col \in db[t].cols
                           /\ \A g \in db[t].unique : g \subseteq db[t].cols
  BY DEF IsForeseen, KeyCols
<1>4. CASE s.do = "create"
  <2>1. CASE s.table \in DOMAIN db
    BY <1>2, <1>4, <2>1, Creates
  <2>2. CASE s.table \notin DOMAIN db
    <3>1. new = [t \in DOMAIN db \cup {s.table} |->
                   IF t = s.table THEN Empty(s.model) ELSE db[t]]
      BY <1>4, <2>2, Creates
    <3> HIDE DEF new
    <3>2. /\ DOMAIN new = DOMAIN db \cup {s.table} /\ new[s.table].rows = {}
          /\ \A t \in DOMAIN db : new[t] = db[t]
      BY <2>2, <3>1 DEF Empty
    <3>3. \A t \in DOMAIN new : UniqueIn(new[t])
      BY <1>2, <3>2 DEF UniqueIn
    <3>4. RefsHold(new)
      BY <1>2, <3>2 DEF RefsHold
    <3> QED BY <3>3, <3>4 DEF Constrained, new
  <2> QED BY <2>1, <2>2
<1>5. CASE s.do = "copy"
  <2>1. /\ s.table = "account" /\ s.to = TmpName /\ {"account", TmpName} \subseteq DOMAIN db
        /\ db["account"].refs = db[TmpName].refs
        /\ \/ db["account"].unique = db[TmpName].unique
           \/ /\ db[TmpName].unique = {{"profile_id", "kind", "name"}}
              /\ IsMade("dedupe", o, p)
    BY <1>5 DEF IsForeseen, Applicable
  <2>2. db[TmpName].rows = {}
    BY <1>5, <2>1 DEF ReadyFor, RowsIn
  <2>3. new = WithRows(db, TmpName, db["account"].rows)
    <3>1. {} \cup db["account"].rows = db["account"].rows
      OBVIOUS
    <3> QED BY <1>5, <2>1, <2>2, <3>1, Copies
  <2> HIDE DEF new
  <2>4. /\ DOMAIN new = DOMAIN db /\ new[TmpName].rows = db["account"].rows
        /\ new[TmpName].refs = db["account"].refs /\ new[TmpName].unique = db[TmpName].unique
        /\ \A t \in DOMAIN db \ {TmpName} : new[t] = db[t]
    BY <2>1, <2>3, WithRowsIs
  <2>5. RefsHold(new)
    <3> SUFFICES ASSUME NEW t \in DOMAIN new, NEW k \in new[t].refs, NEW r \in new[t].rows
                 PROVE  k.to \in DOMAIN new /\ \E q \in new[k.to].rows : q["id"] = r[k.col]
      BY DEF RefsHold
    <3>1. PICK u \in DOMAIN db : k \in db[u].refs /\ r \in db[u].rows
      BY <2>1, <2>4
    <3>2. k.to \in DOMAIN db /\ \E q \in db[k.to].rows : q["id"] = r[k.col]
      BY <1>2, <3>1 DEF RefsHold
    <3> QED BY <2>2, <2>4, <3>2
  <2>6. CASE UniqueIn(new[TmpName])
    BY <1>2, <2>4, <2>5, <2>6 DEF Constrained, new
  <2>7. CASE ~ UniqueIn(new[TmpName])
    <3>1. PICK g \in db[TmpName].unique, a \in db["account"].rows, b \in db["account"].rows :
            (\A c \in g : a[c] = b[c]) /\ a # b
      BY <2>4, <2>7 DEF UniqueIn
    <3>2. db["account"].unique # db[TmpName].unique
      BY <1>2, <2>1, <3>1 DEF UniqueIn
    <3>3. SameAccount(a, b)
      BY <2>1, <3>1, <3>2 DEF SameAccount
    <3>4. db["account"].rows = Deduped(RowsIn(old, "account"))
      BY <1>1, <2>1, <3>2 DEF AccountsAreKept, AccountRows
    <3>5. RowsIn(old, "account") # {}
      BY <3>1, <3>4 DEF Deduped
    <3>6. "account" \in DOMAIN old /\ db["account"].rows = Deduped(old["account"].rows)
      BY <3>4, <3>5 DEF RowsIn
    <3> QED BY <3>1, <3>3, <3>6 DEF Clash
  <2> QED BY <2>6, <2>7
<1>6. CASE s.do = "drop"
  <2>1. \A t \in DOMAIN db : RefersTo(db[t], s.table) => db[t].rows = {}
    BY <1>1, <1>6 DEF IsForeseen, FreshAreEmpty
  <2>2. new = [u \in DOMAIN db \ {s.table} |-> db[u]]
    BY <1>6, <2>1, Drops
  <2> HIDE DEF new
  <2>3. DOMAIN new = DOMAIN db \ {s.table} /\ \A u \in DOMAIN new : new[u] = db[u]
    BY <2>2
  <2>4. ASSUME NEW t \in DOMAIN new, NEW k \in new[t].refs, NEW r \in new[t].rows
        PROVE  k.to \in DOMAIN new /\ \E q \in new[k.to].rows : q["id"] = r[k.col]
    <3>1. t \in DOMAIN db /\ k \in db[t].refs /\ r \in db[t].rows
      BY <2>3
    <3>2. k.to \in DOMAIN db /\ \E q \in db[k.to].rows : q["id"] = r[k.col]
      BY <1>2, <3>1 DEF RefsHold
    <3>3. k.to # s.table
      BY <2>1, <3>1 DEF RefersTo
    <3> QED BY <2>3, <3>2, <3>3
  <2> QED BY <1>2, <2>3, <2>4 DEF Constrained, RefsHold, new
<1>7. CASE s.do = "rename"
  <2>1. /\ s.table = TmpName /\ s.to = "account"
        /\ TmpName \in DOMAIN db /\ "account" \notin DOMAIN db
        /\ \A t \in DOMAIN db : ~ RefersTo(db[t], TmpName)
    BY <1>7 DEF IsForeseen, Applicable
  <2>a. DOMAIN new = (DOMAIN db \ {s.table}) \cup {s.to}
    BY <1>7, RenamedTables
  <2>2. /\ new[s.to] = db[s.table]
        /\ \A u \in DOMAIN db \ {s.table, s.to} : new[u] = db[u]
    BY <1>7, RenamedTable
  <2>3. /\ DOMAIN new = (DOMAIN db \ {TmpName}) \cup {"account"}
        /\ new["account"] = db[TmpName]
        /\ \A u \in DOMAIN db \ {TmpName} : new[u] = db[u]
    <3> HIDE DEF new
    <3> QED BY <2>1, <2>a, <2>2
  <2> HIDE DEF new
  <2>4. \A t \in DOMAIN new : UniqueIn(new[t])
    BY <1>2, <2>1, <2>3
  <2>5. ASSUME NEW t \in DOMAIN new, NEW k \in new[t].refs, NEW r \in new[t].rows
        PROVE  k.to \in DOMAIN new /\ \E q \in new[k.to].rows : q["id"] = r[k.col]
    <3>1. PICK u \in DOMAIN db : k \in db[u].refs /\ r \in db[u].rows
      BY <2>1, <2>3
    <3>2. k.to \in DOMAIN db /\ \E q \in db[k.to].rows : q["id"] = r[k.col]
      BY <1>2, <3>1 DEF RefsHold
    <3>3. k.to # TmpName
      BY <2>1, <3>1 DEF RefersTo
    <3> QED BY <2>3, <3>2, <3>3
  <2> QED BY <2>4, <2>5 DEF Constrained, RefsHold, new
<1>8. CASE s.do = "addColumn"
  <2>1. s.table \in DOMAIN db
    BY <1>8 DEF IsForeseen, Applicable
  <2>2. CASE s.col \in db[s.table].cols
    BY <1>2, <1>8, <2>1, <2>2, AddsColumn
  <2>3. CASE s.col \notin db[s.table].cols
    <3> DEFINE t == s.table
    <3>1. new = [db EXCEPT ![t] =
                   [cols |-> db[t].cols \cup {s.col}, refs |-> db[t].refs,
                    unique |-> db[t].unique, rows |-> Extended(db[t].rows, s)]]
      BY <1>8, <2>1, <2>3, AddsColumn
    <3>x. s.col \notin db[t].cols /\ t \in DOMAIN db
      BY <2>1, <2>3
    <3> HIDE DEF new, t
    <3>3. /\ DOMAIN new = DOMAIN db
          /\ new[t].refs = db[t].refs /\ new[t].unique = db[t].unique
          /\ new[t].rows = Extended(db[t].rows, s)
          /\ \A u \in DOMAIN db \ {t} : new[u] = db[u]
      BY <3>x, <3>1
    <3>4. \A r \in db[t].rows : IsRow(r, db[t].cols)
      BY <1>1, <3>x DEF RowsFit
    <3>5. \A d \in new[t].rows : \E r \in db[t].rows :
            d = With(r, s.col, s.value) /\ \A c \in db[t].cols : d[c] = r[c]
      <4> TAKE d \in new[t].rows
      <4>1. PICK r \in db[t].rows : d = With(r, s.col, s.value)
        BY <3>3 DEF Extended
      <4>2. IsRow(r, db[t].cols)
        BY <3>4
      <4>3. \A c \in db[t].cols : With(r, s.col, s.value)[c] = r[c]
        BY <3>x, <4>2 DEF With, IsRow
      <4> QED BY <4>1, <4>3
    <3>6. \A r \in db[t].rows : \E d \in new[t].rows : \A c \in db[t].cols : d[c] = r[c]
      <4> TAKE r \in db[t].rows
      <4>1. With(r, s.col, s.value) \in new[t].rows
        BY <3>3 DEF Extended
      <4>2. \A c \in db[t].cols : With(r, s.col, s.value)[c] = r[c]
        BY <3>x, <3>4 DEF With, IsRow
      <4> QED BY <4>1, <4>2
    <3>7. /\ \A d \in new[t].rows : \E r \in db[t].rows : \A k \in db[t].refs : d[k.col] = r[k.col]
          /\ \A r \in db[t].rows : \E d \in new[t].rows : d["id"] = r["id"]
      BY <1>3, <3>x, <3>5, <3>6
    <3>8. UniqueIn(new[t])
      <4> SUFFICES ASSUME NEW g \in db[t].unique, NEW d \in new[t].rows, NEW e \in new[t].rows,
                          \A c \in g : d[c] = e[c]
                   PROVE  d = e
        BY <3>3 DEF UniqueIn
      <4>1. PICK r \in db[t].rows : d = With(r, s.col, s.value) /\ \A c \in db[t].cols : d[c] = r[c]
        BY <3>5
      <4>2. PICK q \in db[t].rows : e = With(q, s.col, s.value) /\ \A c \in db[t].cols : e[c] = q[c]
        BY <3>5
      <4>3. \A c \in g : r[c] = q[c]
        BY <1>3, <3>x, <4>1, <4>2
      <4>4. r = q
        BY <1>2, <3>x, <4>3 DEF UniqueIn
      <4> QED BY <4>1, <4>2, <4>4
    <3>9. Constrained(new)
      BY <1>2, <3>x, <3>3, <3>7, <3>8, KeysUnchanged
    <3> QED BY <3>9 DEF new
  <2> QED BY <2>2, <2>3
<1>9. CASE s.do = "dropColumn"
  <2>1. s.table \in DOMAIN db => s.col \notin db[s.table].cols
    BY <1>9 DEF IsForeseen
  <2> QED BY <1>1, <1>2, <1>9, <2>1, DropsNoColumn
<1>10. CASE s.do = "dedupe"
  <2> DEFINE t == "account"
  <2>1. /\ s.table = t /\ t \in DOMAIN db /\ "name" \in db[t].cols
        /\ ~ IsMade("dedupe", o, p) /\ \A k \in db[t].refs : k.col # "name"
        /\ t \in DOMAIN o.db => db[t].unique = {}
    BY <1>10 DEF IsForeseen, Applicable
  <2>2. new = WithRows(db, t, Deduped(db[t].rows))
    BY <1>10, <2>1, Dedupes
  <2>3. db[t].unique = {} \/ db[t].rows = {}
    BY <1>1, <2>1 DEF AccountsAreKept, AccountRows, RowsIn
  <2> HIDE DEF new, t
  <2>4. /\ DOMAIN new = DOMAIN db /\ new[t].rows = Deduped(db[t].rows)
        /\ new[t].refs = db[t].refs /\ new[t].unique = db[t].unique
        /\ \A u \in DOMAIN db \ {t} : new[u] = db[u]
    BY <2>1, <2>2, WithRowsIs
  <2>5. \A r \in db[t].rows : IsRow(r, db[t].cols)
    BY <1>1, <2>1 DEF RowsFit
  <2>6. \A d \in new[t].rows : \E r \in db[t].rows : \A c \in db[t].cols \ {"name"} : d[c] = r[c]
    BY <2>1, <2>4, <2>5, DedupedIs
  <2>7. \A r \in db[t].rows : \E d \in new[t].rows : \A c \in db[t].cols \ {"name"} : d[c] = r[c]
    BY <2>1, <2>4, <2>5, DedupedHas
  <2>8. /\ \A d \in new[t].rows : \E r \in db[t].rows : \A k \in db[t].refs : d[k.col] = r[k.col]
        /\ \A r \in db[t].rows : \E d \in new[t].rows : d["id"] = r["id"]
    BY <1>3, <2>1, <2>6, <2>7
  <2>9. UniqueIn(new[t])
    BY <2>3, <2>4 DEF UniqueIn, Deduped
  <2>10. Constrained(new)
    BY <1>2, <2>1, <2>4, <2>8, <2>9, KeysUnchanged
  <2> QED BY <2>10 DEF new
<1>11. CASE s.do = "retype"
  <2> DEFINE t == "transaction_"
  <2>1. s.table = t /\ t \in DOMAIN db /\ "type" \in db[t].cols /\ "type" \notin KeyCols(db[t])
    BY <1>11 DEF IsForeseen, Applicable
  <2>2. new = WithRows(db, t, Retyped(db[t].rows))
    BY <1>11, <2>1, Retypes
  <2> HIDE DEF new, t
  <2>4. /\ DOMAIN new = DOMAIN db /\ new[t].rows = Retyped(db[t].rows)
        /\ new[t].refs = db[t].refs /\ new[t].unique = db[t].unique
        /\ \A u \in DOMAIN db \ {t} : new[u] = db[u]
    BY <2>1, <2>2, WithRowsIs
  <2>5. \A r \in db[t].rows : IsRow(r, db[t].cols)
    BY <1>1, <2>1 DEF RowsFit
  <2>6. \A d \in new[t].rows : \E r \in db[t].rows :
          /\ \A c \in db[t].cols \ {"type"} : d[c] = r[c]
          /\ d = IF r["type"] = "Trade" THEN [r EXCEPT !["type"] = "Stock"] ELSE r
    <3> TAKE d \in new[t].rows
    <3>1. PICK r \in db[t].rows :
            d = IF r["type"] = "Trade" THEN [r EXCEPT !["type"] = "Stock"] ELSE r
      BY <2>4 DEF Retyped
    <3>2. IsRow(r, db[t].cols)
      BY <2>5
    <3>3. \A c \in db[t].cols \ {"type"} : d[c] = r[c]
      BY <3>1, <3>2 DEF IsRow
    <3> QED BY <3>1, <3>3
  <2>7. \A r \in db[t].rows : \E d \in new[t].rows : \A c \in db[t].cols \ {"type"} : d[c] = r[c]
    BY <2>1, <2>4, <2>5, RetypedIs
  <2>k. /\ "id" # "type" /\ \A k \in db[t].refs : k.col # "type"
        /\ \A g \in db[t].unique : "type" \notin g
    BY <2>1 DEF KeyCols
  <2>8. /\ \A d \in new[t].rows : \E r \in db[t].rows : \A k \in db[t].refs : d[k.col] = r[k.col]
        /\ \A r \in db[t].rows : \E d \in new[t].rows : d["id"] = r["id"]
    BY <1>3, <2>1, <2>6, <2>7, <2>k
  <2>9. UniqueIn(new[t])
    <3> SUFFICES ASSUME NEW g \in db[t].unique, NEW d \in new[t].rows, NEW e \in new[t].rows,
                        \A c \in g : d[c] = e[c]
                 PROVE  d = e
      BY <2>4 DEF UniqueIn
    <3>1. PICK r \in db[t].rows :
            /\ \A c \in db[t].cols \ {"type"} : d[c] = r[c]
            /\ d = IF r["type"] = "Trade" THEN [r EXCEPT !["type"] = "Stock"] ELSE r
      BY <2>6
    <3>2. PICK q \in db[t].rows :
            /\ \A c \in db[t].cols \ {"type"} : e[c] = q[c]
            /\ e = IF q["type"] = "Trade" THEN [q EXCEPT !["type"] = "Stock"] ELSE q
      BY <2>6
    <3>3. \A c \in g : r[c] = q[c]
      BY <1>3, <2>1, <2>k, <3>1, <3>2
    <3>4. r = q
      BY <1>2, <2>1, <3>3 DEF UniqueIn
    <3> QED BY <3>1, <3>2, <3>4
  <2>10. Constrained(new)
    BY <1>2, <2>1, <2>4, <2>8, <2>9, KeysUnchanged
  <2> QED BY <2>10 DEF new
<1> QED BY <1>4, <1>5, <1>6, <1>7, <1>8, <1>9, <1>10, <1>11 DEF IsForeseen
-----------------------------------------------------------------------------
(* The schema of a database is that of its tables without rows. *)
LEMMA BareSchema ==
  ASSUME NEW db
  PROVE  SchemaOf(Bare(db)) = SchemaOf(db) /\ (CanReload(Bare(db)) <=> CanReload(db))
BY BareRow DEF SchemaOf, CanReload

OriginOf(f) == [version |-> f.version, db |-> Bare(f.db)]

(* What every file keeps, whether a release left it or an upgrade. *)
FileFits(f) ==
  /\ f = [version |-> f.version, db |-> f.db]
  /\ OriginOf(f) \in Origins
  /\ IsDb(f.db) /\ RowsFit(f.db)
  /\ f.version # DbVersion => Constrained(f.db)
  /\ f.version >= 12 => NoTrades(f.db)
  /\ IdsDiffer(RowsIn(f.db, "account"))

LEMMA ReleasedFits ==
  ASSUME NEW f \in Releases
  PROVE  FileFits(f)
<1>1. IsReleased(f)
  BY ReleasesAssumption
<1>2. IdsDiffer(RowsIn(f.db, "account"))
  <2>1. CASE "account" \in DOMAIN f.db
    BY <1>1, <2>1 DEF IsReleased, RowsIn
  <2>2. CASE "account" \notin DOMAIN f.db
    BY <2>2 DEF IdsDiffer, RowsIn
  <2> QED BY <2>1, <2>2
<1> QED BY <1>1, <1>2 DEF IsReleased, FileFits, OriginOf

(* The origins are of released versions, and one of them is of today. *)
LEMMA OriginsAre ==
  /\ \A o \in Origins : o.version \in ReleasedVersions /\ o.version \in 0..DbVersion
  /\ \A o \in Origins : o.version = DbVersion => o.db = BareAt(DbVersion)
  /\ [version |-> DbVersion, db |-> BareAt(DbVersion)] \in Origins
<1>1. DbVersion = 15
  BY VersionsFilled
<1>2. ReleasedVersions = {0, 5, 10, 15}
  BY DEF ReleasedVersions
<1> QED BY <1>1, <1>2 DEF Origins

(* The stores can be reloaded from files of today only. *)
LEMMA OnlyTodayReloads ==
  ASSUME NEW f, FileFits(f)
  PROVE  /\ CanReload(f.db) <=> f.version = DbVersion
         /\ SchemaOf(f.db) = CurrentSchema <=> f.version = DbVersion
         /\ f.version = DbVersion => Bare(f.db) = BareAt(DbVersion)
<1>1. OriginOf(f) \in Origins
  BY DEF FileFits
<1>2. OriginOf(f).version = f.version /\ OriginOf(f).db = Bare(f.db)
  BY DEF OriginOf
<1>3. /\ CanReload(Bare(f.db)) <=> f.version = DbVersion
      /\ SchemaOf(Bare(f.db)) = CurrentSchema <=> f.version = DbVersion
  BY <1>1, <1>2, ReloadAssumption
<1>4. f.version = DbVersion => Bare(f.db) = BareAt(DbVersion)
  BY <1>1, <1>2, OriginsAre
<1> QED BY <1>3, <1>4, BareSchema

(* The upgrade of the origin o, before the step at p: it has the tables db  *)
(* and began with the tables old.                                           *)
InUpgrade(o, p, db, old) ==
  /\ p \in Positions(o) \cup {Last}
  /\ Bare(db) = Plan(o)[p] /\ IsDb(db)
  /\ RowsFollow(o, p, db, old)
  /\ p # Last => ReadyFor(StepAt(p), db)

(* The invariant: the files are of a release or of today, the program runs  *)
(* on a file of today, and a running upgrade is where its plan says.        *)
UpgradeInv ==
  /\ \A f \in backups \cup {file} : FileFits(f)
  /\ stage = "on" => file.version = DbVersion
  /\ stage = "upgrading" => InUpgrade(OriginOf(file), <<at, step>>, work, file.db)

(* A position is that of a step, or the end. *)
LEMMA AtPosition ==
  ASSUME NEW o \in Origins, NEW p \in Positions(o) \cup {Last}
  PROVE  /\ p[1] \in Nat /\ p = <<p[1], p[2]>>
         /\ p[1] <= DbVersion <=> p \in Positions(o)
         /\ p[1] <= DbVersion <=> p # Last
<1>1. DbVersion \in Nat /\ o.version \in Nat
  BY VersionNumbers, OriginsAre
<1>2. CASE p = Last
  <2>1. p = <<DbVersion + 1, 1>>
    BY <1>2 DEF Last
  <2>2. p \notin Positions(o)
    BY <1>1, <2>1 DEF Positions
  <2> QED BY <1>1, <1>2, <2>1, <2>2
<1>3. CASE p \in Positions(o)
  <2>1. PICK v \in (o.version + 1)..DbVersion : p \in {v} \X DOMAIN Versions[v]
    BY <1>3 DEF Positions
  <2>2. p = <<p[1], p[2]>> /\ p[1] = v
    BY <2>1
  <2> QED BY <1>1, <1>3, <2>1, <2>2 DEF Last
<1> QED BY <1>2, <1>3

(* What is so before a step of an upgrade, and after it. *)
LEMMA BeforeStep ==
  ASSUME UpgradeInv, stage = "upgrading", at <= DbVersion
  PROVE  LET o == OriginOf(file)
             p == <<at, step>>
         IN  /\ o \in Origins /\ p \in Positions(o) /\ StepAt(p) = Todo
             /\ IsForeseen(o, p, work, Todo) /\ LeadsOn(o, p, Bare(work), Todo)
             /\ IsDb(work) /\ RowsFollow(o, p, work, file.db) /\ ReadyFor(Todo, work)
             /\ DOMAIN file.db = DOMAIN o.db
<1> DEFINE o == OriginOf(file)
           p == <<at, step>>
<1>1. o \in Origins /\ InUpgrade(o, p, work, file.db)
  BY DEF UpgradeInv, FileFits
<1>2. p \in Positions(o) \cup {Last} /\ p[1] = at
  BY <1>1 DEF InUpgrade
<1> HIDE DEF o, p
<1>3. p \in Positions(o) /\ p # Last
  BY <1>1, <1>2, AtPosition
<1>4. IsPlanned(o)
  BY <1>1, PlanAssumption
<1>5. IsForeseen(o, p, Plan(o)[p], StepAt(p)) /\ LeadsOn(o, p, Plan(o)[p], StepAt(p))
  BY <1>3, <1>4 DEF IsPlanned
<1>6. /\ Bare(work) = Plan(o)[p] /\ IsDb(work) /\ RowsFollow(o, p, work, file.db)
      /\ ReadyFor(StepAt(p), work)
  BY <1>1, <1>3 DEF InUpgrade
<1>7. StepAt(p) = Todo
  BY DEF StepAt, Todo, p
<1>8. DOMAIN file.db = DOMAIN o.db
  BY BareRow DEF o, OriginOf
<1>9. IsForeseen(o, p, work, Todo)
  BY <1>5, <1>6, <1>7, ForeseenWithRows
<1> QED BY <1>1, <1>3, <1>5, <1>6, <1>7, <1>8, <1>9 DEF o, p

(* A step leaves the tables as the next one must find them. *)
LEMMA LeavesReady ==
  ASSUME NEW o, NEW p, NEW s, NEW next, NEW db, IsDb(db), IsForeseen(o, p, db, s),
         ReadyFor(s, db), Constrained(Applied(db, s)),
         next.do = "copy" => s.do = "create" /\ s.table = TmpName /\ TmpName \notin DOMAIN db,
         next.do = "drop" /\ next.table = "account" => s.do = "copy"
  PROVE  ReadyFor(next, Applied(db, s))
<1> DEFINE new == Applied(db, s)
<1>1. ASSUME next.do = "copy" PROVE RowsIn(new, TmpName) = {}
  <2>1. s.do = "create" /\ s.table \notin DOMAIN db /\ s.table = TmpName
    BY <1>1
  <2>2. new = [t \in DOMAIN db \cup {s.table} |->
                 IF t = s.table THEN Empty(s.model) ELSE db[t]]
    BY <2>1, Creates
  <2> HIDE DEF new
  <2>3. new[s.table].rows = {}
    BY <2>2 DEF Empty
  <2> QED BY <2>1, <2>3 DEF RowsIn
<1>2. ASSUME next.do = "drop", next.table = "account", "account" \in DOMAIN new
      PROVE  RowsIn(new, TmpName) = new["account"].rows
  <2>1. s.do = "copy" /\ s.table = "account" /\ s.to = TmpName
        /\ {"account", TmpName} \subseteq DOMAIN db
    BY <1>2 DEF IsForeseen, Applicable
  <2>2. db[TmpName].rows = {}
    BY <2>1 DEF ReadyFor, RowsIn
  <2>3. new = WithRows(db, TmpName, db["account"].rows)
    <3>1. {} \cup db["account"].rows = db["account"].rows
      OBVIOUS
    <3> QED BY <2>1, <2>2, <3>1, Copies
  <2> HIDE DEF new
  <2>4. DOMAIN new = DOMAIN db /\ new[TmpName].rows = db["account"].rows
        /\ \A t \in DOMAIN db \ {TmpName} : new[t] = db[t]
    BY <2>1, <2>3, WithRowsIs
  <2> QED BY <2>1, <2>4, AccountsDiffer DEF RowsIn
<1> QED BY <1>1, <1>2 DEF ReadyFor

(* Each action keeps the invariant. *)
LEMMA StartsUpgrade ==
  ASSUME UpgradeInv, NEW saved \in BOOLEAN, Start(saved)
  PROVE  UpgradeInv'
<1> DEFINE o == OriginOf(file)
           p == First(o)
<1>1. /\ file' = file /\ stage' = "upgrading" /\ work' = file.db
      /\ backups' \cup {file'} = backups \cup {file}
      /\ <<at', step'>> = p
  BY DEF Start, First, OriginOf
<1>2. /\ o \in Origins /\ IsDb(file.db) /\ RowsFit(file.db) /\ FileFits(file)
      /\ file.version # DbVersion => Constrained(file.db)
      /\ o.version >= 12 => NoTrades(file.db)
      /\ o.db = Bare(file.db) /\ o.version = file.version
  BY DEF UpgradeInv, FileFits, OriginOf
<1>3. DOMAIN o.db = DOMAIN file.db
  BY BareRow DEF OriginOf
<1>p. p[1] = o.version + 1
  BY DEF First
<1> HIDE DEF o, p
<1>4. IsPlanned(o)
  BY <1>2, PlanAssumption
<1>5. /\ TmpName \notin DOMAIN file.db /\ Made(o, p) = {} /\ Plan(o)[p] = Bare(file.db)
      /\ p \in Positions(o) \cup {Last}
      /\ p # Last => StepAt(p).do # "copy"
                     /\ ~ (StepAt(p).do = "drop" /\ StepAt(p).table = "account")
  BY <1>2, <1>3, <1>4 DEF IsPlanned, p
<1>6. (\A do : ~ IsMade(do, o, p)) /\ \A t \in DOMAIN file.db : ~ Fresh(o, p, t)
  BY <1>3, <1>5 DEF IsMade, Fresh, Gone
<1>7. RowsFollow(o, p, file.db, file.db)
  <2>1. AccountRows(file.db) = RowsIn(file.db, "account")
    BY <1>5 DEF AccountRows, RowsIn
  <2>2. AccountsAreKept(o, p, file.db, file.db)
    BY <1>6, <2>1 DEF AccountsAreKept
  <2>3. FreshAreEmpty(o, p, file.db) /\ OthersAreKept(o, p, file.db, file.db)
    BY <1>6 DEF FreshAreEmpty, OthersAreKept
  <2>4. TradesAreStock(o, p, file.db)
    BY <1>2, <1>6 DEF TradesAreStock
  <2> QED BY <1>2, <2>2, <2>3, <2>4 DEF RowsFollow
<1>8. p # Last => Constrained(file.db)
  <2>1. p # Last => p[1] <= DbVersion
    BY <1>2, <1>5, AtPosition
  <2>2. o.version \in Nat /\ DbVersion \in Nat
    BY <1>2, VersionNumbers, OriginsAre
  <2> QED BY <1>2, <1>p, <2>1, <2>2
<1>9. p # Last => ReadyFor(StepAt(p), file.db)
  BY <1>5, <1>8 DEF ReadyFor
<1>10. InUpgrade(o, p, file.db, file.db)
  BY <1>2, <1>5, <1>7, <1>9 DEF InUpgrade
<1> QED
  <2>1. OriginOf(file') = o
    BY <1>1 DEF o
  <2>2. InUpgrade(OriginOf(file'), <<at', step'>>, work', file'.db)
    BY <1>1, <1>10, <2>1
  <2>3. \A f \in backups' \cup {file'} : FileFits(f)
    BY <1>1 DEF UpgradeInv
  <2> QED BY <1>1, <2>2, <2>3 DEF UpgradeInv

LEMMA MakesStep ==
  ASSUME UpgradeInv, Migrate
  PROVE  UpgradeInv'
<1> DEFINE o == OriginOf(file)
           p == <<at, step>>
           q == NextOf(p)
           new == Applied(work, Todo)
<1>1. /\ stage = "upgrading" /\ at <= DbVersion /\ Constrained(new) /\ work' = new
      /\ file' = file /\ backups' = backups /\ stage' = stage /\ <<at', step'>> = q
  BY DEF Migrate, Allowed, NextOf
<1>2. /\ o \in Origins /\ IsForeseen(o, p, work, Todo) /\ LeadsOn(o, p, Bare(work), Todo)
      /\ IsDb(work) /\ RowsFollow(o, p, work, file.db) /\ ReadyFor(Todo, work)
      /\ DOMAIN file.db = DOMAIN o.db
  BY <1>1, BeforeStep
<1>o. OriginOf(file') = o
  BY <1>1
<1>3. DOMAIN Bare(work) = DOMAIN work
  BY BareRow
<1> HIDE DEF o, p, q
<1>4. /\ q \in Positions(o) \cup {Last} /\ Made(o, q) = Made(o, p) \cup {Todo}
      /\ Plan(o)[q] = Bare(Applied(Bare(work), Todo))
  BY <1>2 DEF LeadsOn, q
<1>5. Bare(new) = Bare(Applied(Bare(work), Todo)) /\ IsDb(new)
  <2>1. RowsFit(work) /\ FreshAreEmpty(o, p, work)
    BY <1>2 DEF RowsFollow
  <2>2. Todo.do = "drop" => \A u \in DOMAIN work : RefersTo(work[u], Todo.table) => work[u].rows = {}
    BY <1>2, <2>1 DEF IsForeseen, FreshAreEmpty
  <2> QED BY <1>2, <2>1, <2>2, BareApplied
<1>6. RowsFollow(o, q, new, file.db)
  BY <1>2, <1>4, StepKeepsRows
<1>7. q # Last => ReadyFor(StepAt(q), new)
  <2> SUFFICES ASSUME q # Last PROVE ReadyFor(StepAt(q), new)
    OBVIOUS
  <2> DEFINE next == StepAt(q)
  <2>1. /\ next.do = "copy" => Todo.do = "create" /\ Todo.table = TmpName
                                /\ TmpName \notin DOMAIN work
        /\ next.do = "drop" /\ next.table = "account" => Todo.do = "copy"
    BY <1>2, <1>3 DEF LeadsOn, q
  <2> HIDE DEF next
  <2>2. ReadyFor(next, new)
    BY <1>1, <1>2, <2>1, LeavesReady
  <2> QED BY <2>2 DEF next
<1>8. InUpgrade(o, q, new, file.db)
  BY <1>4, <1>5, <1>6, <1>7 DEF InUpgrade
<1> QED
  <2>1. InUpgrade(OriginOf(file'), <<at', step'>>, work', file'.db)
    BY <1>1, <1>8, <1>o
  <2>2. \A f \in backups' \cup {file'} : FileFits(f)
    BY <1>1 DEF UpgradeInv
  <2> QED BY <1>1, <2>1, <2>2 DEF UpgradeInv

(* The accounts after version 2. *)
LEMMA DedupedIds ==
  ASSUME NEW rows, NEW cols, {"id", "name", "kind"} \subseteq cols,
         \A r \in rows : IsRow(r, cols), IdsDiffer(rows)
  PROVE  IdsDiffer(Deduped(rows))
<1>1. ASSUME NEW d \in Deduped(rows) PROVE \E a \in rows : /\ d["id"] = a["id"]
                                      /\ d = IF IsFirst(a, rows) THEN a
                                             ELSE [a EXCEPT !["name"] = Append(a["name"], a["id"])]
  <2>1. PICK a \in rows : d = IF IsFirst(a, rows) THEN a
                             ELSE [a EXCEPT !["name"] = Append(a["name"], a["id"])]
    BY DEF Deduped
  <2>2. IsRow(a, cols)
    OBVIOUS
  <2> QED BY <2>1, <2>2 DEF IsRow
<1> QED BY <1>1 DEF IdsDiffer

(* The tables of today. *)
LEMMA TodayHas ==
  ASSUME NEW db, Bare(db) = BareAt(DbVersion)
  PROVE  /\ {"account", "transaction_", "tx_entry"} \subseteq DOMAIN db
         /\ TmpName \notin DOMAIN db
         /\ db["transaction_"].cols = TransactionRow.cols
         /\ db["tx_entry"].cols = TransactionEntryRow.cols
<1>1. /\ DOMAIN db = DOMAIN BareAt(DbVersion)
      /\ \A t \in DOMAIN db : BareAt(DbVersion)[t].cols = db[t].cols
  BY BareRow
<1>2. TmpName \notin DOMAIN BareAt(DbVersion)
  <2> DEFINE o == [version |-> DbVersion, db |-> BareAt(DbVersion)]
  <2>1. o \in Origins /\ o.db = BareAt(DbVersion)
    BY OriginsAre
  <2> HIDE DEF o
  <2> QED BY <2>1, PlanAssumption DEF IsPlanned
<1> QED BY <1>1, <1>2, TodayAssumption

LEMMA CommitsUpgrade ==
  ASSUME UpgradeInv, Commit
  PROVE  /\ UpgradeInv' /\ OriginOf(file) \in Origins
         /\ InUpgrade(OriginOf(file), Last, work, file.db)
         /\ Bare(work) = BareAt(DbVersion)
<1> DEFINE o == OriginOf(file)
           p == <<at, step>>
<1>1. /\ stage = "upgrading" /\ at > DbVersion
      /\ file' = [version |-> DbVersion, db |-> work] /\ backups' = backups /\ stage' = "on"
  BY DEF Commit
<1>2. /\ o \in Origins /\ InUpgrade(o, p, work, file.db) /\ p[1] = at
      /\ RowsFit(file.db) /\ IdsDiffer(RowsIn(file.db, "account"))
      /\ o.db = Bare(file.db) /\ o.version = file.version
  BY <1>1 DEF UpgradeInv, FileFits, OriginOf
<1>b. /\ DOMAIN o.db = DOMAIN file.db
      /\ \A t \in DOMAIN file.db : o.db[t].cols = file.db[t].cols
  BY BareRow DEF OriginOf
<1> HIDE DEF o, p
<1>3. p = Last
  <2>1. p \in Positions(o) \cup {Last}
    BY <1>2 DEF InUpgrade
  <2> QED BY <1>1, <1>2, <2>1, AtPosition, VersionNumbers
<1>4. IsPlanned(o)
  BY <1>2, PlanAssumption
<1>5. /\ Bare(work) = BareAt(DbVersion) /\ IsDb(work) /\ RowsFollow(o, Last, work, file.db)
      /\ IsMade("retype", o, Last) \/ o.version >= 12
      /\ "account" \in DOMAIN o.db => {"id", "name", "kind"} \subseteq o.db["account"].cols
  <2>1. o.version \in Nat
    BY <1>2, OriginsAre
  <2> QED BY <1>2, <1>3, <1>4, <2>1 DEF IsPlanned, InUpgrade
<1>6. RowsFit(work) /\ NoTrades(work) /\ AccountsAreKept(o, Last, work, file.db)
  BY <1>5 DEF RowsFollow, TradesAreStock
<1>7. IdsDiffer(RowsIn(work, "account"))
  <2>1. RowsIn(work, "account") = AccountRows(work)
    BY <1>5, TodayHas DEF RowsIn, AccountRows
  <2>2. IdsDiffer(Deduped(RowsIn(file.db, "account")))
    <3>1. CASE "account" \in DOMAIN file.db
      <4> DEFINE cols == file.db["account"].cols
      <4>1. {"id", "name", "kind"} \subseteq cols
        BY <1>5, <1>b, <3>1
      <4>2. \A r \in file.db["account"].rows : IsRow(r, cols)
        BY <1>2, <3>1 DEF RowsFit
      <4>3. IdsDiffer(file.db["account"].rows)
        BY <1>2, <3>1 DEF RowsIn
      <4> HIDE DEF cols
      <4> QED BY <3>1, <4>1, <4>2, <4>3, DedupedIds DEF RowsIn
    <3>2. CASE "account" \notin DOMAIN file.db
      BY <3>2 DEF RowsIn, Deduped, IdsDiffer
    <3> QED BY <3>1, <3>2
  <2> QED BY <1>2, <1>6, <2>1, <2>2 DEF AccountsAreKept
<1>8. FileFits(file')
  <2> SUFFICES ASSUME NEW f, f = [version |-> DbVersion, db |-> work] PROVE FileFits(f)
    BY <1>1
  <2>1. f = [version |-> f.version, db |-> f.db] /\ f.version = DbVersion /\ f.db = work
    OBVIOUS
  <2>2. OriginOf(f) \in Origins
    BY <1>5, <2>1, OriginsAre DEF OriginOf
  <2> QED BY <1>5, <1>6, <1>7, <2>1, <2>2 DEF FileFits
<1>9. UpgradeInv'
  <2>1. \A f \in backups' \cup {file'} : FileFits(f)
    BY <1>1, <1>8 DEF UpgradeInv
  <2> QED BY <1>1, <2>1 DEF UpgradeInv
<1> QED BY <1>2, <1>3, <1>5, <1>9 DEF o

(* A booking adds rows of the right columns. *)
LEMMA RowAdded ==
  ASSUME NEW db, IsDb(db), RowsFit(db), NEW t \in DOMAIN db, NEW row, IsRow(row, db[t].cols)
  PROVE  LET new == WithRow(db, t, row)
         IN  /\ DOMAIN new = DOMAIN db /\ IsDb(new) /\ RowsFit(new) /\ Bare(new) = Bare(db)
             /\ new[t].rows = db[t].rows \cup {row}
             /\ \A u \in DOMAIN db : new[u].cols = db[u].cols
             /\ \A u \in DOMAIN db \ {t} : new[u] = db[u]
<1> DEFINE new == WithRow(db, t, row)
<1>1. new = WithRows(db, t, db[t].rows \cup {row})
  <2>1. new = [db EXCEPT ![t].rows = db[t].rows \cup {row}]
    BY DEF WithRow
  <2> QED BY <2>1, RowsChanged
<1> HIDE DEF new
<1>2. /\ DOMAIN new = DOMAIN db /\ IsDb(new) /\ Bare(new) = Bare(db)
      /\ new[t].rows = db[t].rows \cup {row}
      /\ \A u \in DOMAIN db : new[u].cols = db[u].cols
      /\ \A u \in DOMAIN db \ {t} : new[u] = db[u]
  BY <1>1, WithRowsIs
<1>3. RowsFit(new)
  BY <1>2 DEF RowsFit
<1> QED BY <1>2, <1>3 DEF new

LEMMA RowFilled ==
  ASSUME NEW m, NEW known
  PROVE  IsRow(Filled(m, known), m.cols)
BY DEF Filled, IsRow

LEMMA Books ==
  ASSUME UpgradeInv, Book
  PROVE  /\ UpgradeInv' /\ stage = "on" /\ stage' = "on" /\ backups' = backups
         /\ file'.version = file.version /\ Bare(file'.db) = Bare(file.db)
<1>1. /\ stage = "on" /\ stage' = "on" /\ backups' = backups /\ file.version = DbVersion
      /\ FileFits(file)
  BY DEF Book, UpgradeInv
<1>2. PICK n \in TxIds, a \in file.db["account"].rows :
        file' = [file EXCEPT !.db =
                   WithRow(WithRow(file.db, "transaction_", TxRow(n, "Cash")),
                           "tx_entry", EntryRow(n, a["id"]))]
  BY DEF Book
<1> DEFINE tx == TxRow(n, "Cash")
           entry == EntryRow(n, a["id"])
           one == WithRow(file.db, "transaction_", tx)
           two == WithRow(one, "tx_entry", entry)
<1>3. /\ file = [version |-> file.version, db |-> file.db]
      /\ OriginOf(file) \in Origins /\ IsDb(file.db) /\ RowsFit(file.db)
      /\ file.version >= 12 => NoTrades(file.db)
      /\ IdsDiffer(RowsIn(file.db, "account"))
  BY <1>1 DEF FileFits
<1>4. /\ {"account", "transaction_", "tx_entry"} \subseteq DOMAIN file.db
      /\ file.db["transaction_"].cols = TransactionRow.cols
      /\ file.db["tx_entry"].cols = TransactionEntryRow.cols
  BY <1>1, OnlyTodayReloads, TodayHas
<1>5. /\ IsRow(tx, TransactionRow.cols) /\ IsRow(entry, TransactionEntryRow.cols)
      /\ tx["type"] = "Cash"
  <2>1. tx["type"] = "Cash"
    BY DEF TxRow, Filled, TransactionRow
  <2> QED BY <2>1, RowFilled DEF TxRow, EntryRow
<1>6. file' = [version |-> DbVersion, db |-> two]
  BY <1>1, <1>2, <1>3
<1> HIDE DEF tx, entry, two
<1>7. /\ DOMAIN one = DOMAIN file.db /\ IsDb(one) /\ RowsFit(one)
      /\ Bare(one) = Bare(file.db)
      /\ one["transaction_"].rows = file.db["transaction_"].rows \cup {tx}
      /\ \A u \in DOMAIN file.db : one[u].cols = file.db[u].cols
      /\ \A u \in DOMAIN file.db \ {"transaction_"} : one[u] = file.db[u]
  BY <1>3, <1>4, <1>5, RowAdded
<1> HIDE DEF one
<1>8. /\ DOMAIN two = DOMAIN one /\ IsDb(two) /\ RowsFit(two) /\ Bare(two) = Bare(one)
      /\ \A u \in DOMAIN one \ {"tx_entry"} : two[u] = one[u]
  <2>1. "tx_entry" \in DOMAIN one /\ IsRow(entry, one["tx_entry"].cols)
    BY <1>4, <1>5, <1>7
  <2> QED BY <1>7, <2>1, RowAdded DEF two
<1>9. two["account"] = file.db["account"] /\ two["transaction_"] = one["transaction_"]
      /\ DOMAIN two = DOMAIN file.db
  BY <1>4, <1>7, <1>8
<1>10. NoTrades(two)
  <2>1. NoTrades(file.db)
    BY <1>1, <1>3, VersionsFilled
  <2> QED BY <1>4, <1>5, <1>7, <1>9, <2>1 DEF NoTrades
<1>11. RowsIn(two, "account") = RowsIn(file.db, "account")
  BY <1>4, <1>9 DEF RowsIn
<1>12. FileFits(file')
  <2> SUFFICES ASSUME NEW f, f = [version |-> DbVersion, db |-> two] PROVE FileFits(f)
    BY <1>6
  <2>1. f = [version |-> f.version, db |-> f.db] /\ f.version = DbVersion /\ f.db = two
    OBVIOUS
  <2>2. OriginOf(f) = OriginOf(file)
    BY <1>1, <1>7, <1>8, <2>1 DEF OriginOf
  <2> QED BY <1>3, <1>8, <1>10, <1>11, <2>1, <2>2 DEF FileFits
<1>13. file'.version = file.version /\ Bare(file'.db) = Bare(file.db)
  BY <1>1, <1>6, <1>7, <1>8
<1>14. UpgradeInv'
  <2>1. \A f \in backups' \cup {file'} : FileFits(f)
    BY <1>1, <1>12 DEF UpgradeInv
  <2> QED BY <1>1, <1>13, <2>1 DEF UpgradeInv
<1> QED BY <1>1, <1>13, <1>14

LEMMA UpgradeInit == MigrationInit => UpgradeInv
BY ReleasedFits DEF MigrationInit, UpgradeInv

LEMMA Restores ==
  ASSUME UpgradeInv, Restore
  PROVE  /\ UpgradeInv' /\ stage = "on" /\ file' \in backups /\ backups' = backups
         /\ stage' = "on" <=> SchemaOf(file'.db) = CurrentSchema
<1>1. PICK f \in backups : file' = f /\ stage' = IF CanReload(f.db) THEN "on" ELSE "off"
  BY DEF Restore
<1>2. FileFits(f) /\ backups' = backups /\ stage = "on" /\ FileFits(file)
  BY DEF UpgradeInv, Restore
<1>3. /\ CanReload(f.db) <=> f.version = DbVersion
      /\ SchemaOf(f.db) = CurrentSchema <=> f.version = DbVersion
  BY <1>2, OnlyTodayReloads
<1>4. \A g \in backups' \cup {file'} : FileFits(g)
  BY <1>1, <1>2 DEF UpgradeInv
<1> QED BY <1>1, <1>2, <1>3, <1>4 DEF UpgradeInv

LEMMA UpgradeStep == UpgradeInv /\ [MigrationNext]_migrationVars => UpgradeInv'
<1> SUFFICES ASSUME UpgradeInv, [MigrationNext]_migrationVars PROVE UpgradeInv'
  OBVIOUS
<1>1. CASE Refuse \/ Ends
  BY <1>1 DEF UpgradeInv, Refuse, Ends
<1>2. CASE UNCHANGED migrationVars
  BY <1>2 DEF UpgradeInv, migrationVars
<1> QED
  BY <1>1, <1>2, StartsUpgrade, MakesStep, CommitsUpgrade, Books, Restores DEF MigrationNext

LEMMA UpgradeInvHolds == MigrationSpec => []UpgradeInv
BY UpgradeInit, UpgradeStep, PTL DEF MigrationSpec

(* The two parts of TypeOK. *)
FilesTyped ==
  /\ file.version \in 0..DbVersion
  /\ \A f \in backups : f.version \in 0..DbVersion
RunTyped ==
  /\ stage \in {"off", "upgrading", "on"} /\ Position(at, step)
  /\ stage # "upgrading" => work = NoDb

(* A booking leaves the version as it is. *)
LEMMA BookKeepsVersion == Book => file'.version = file.version
<1> SUFFICES ASSUME Book PROVE file'.version = file.version
  OBVIOUS
<1>1. PICK d : file' = [file EXCEPT !.db = d]
  BY DEF Book
<1> QED BY <1>1

(* The upgrade is well typed: in particular it only ever asks for a step    *)
(* that a version has (Migrations::migrate).                                *)
THEOREM MigrationTypeCorrect == MigrationSpec => []MigrationTypeOK
<1>0. 1 \in 1..(DbVersion + 1) /\ DbVersion \in 0..DbVersion
  BY VersionNumbers
<1>1. MigrationInit => MigrationTypeOK
  <2> SUFFICES ASSUME MigrationInit PROVE FilesTyped /\ RunTyped
    BY DEF MigrationTypeOK, FilesTyped, RunTyped, Position
  <2>1. FilesTyped
    BY ReleasedFits, OriginsAre DEF MigrationInit, FilesTyped, FileFits, OriginOf
  <2>2. RunTyped
    BY <1>0, FirstPosition DEF MigrationInit, RunTyped
  <2> QED BY <2>1, <2>2
<1>2. MigrationTypeOK /\ [MigrationNext]_migrationVars => MigrationTypeOK'
  <2> SUFFICES ASSUME FilesTyped, RunTyped, [MigrationNext]_migrationVars
               PROVE  FilesTyped' /\ RunTyped'
    BY DEF MigrationTypeOK, FilesTyped, RunTyped, Position
  <2>c. Closed => Position(at, step)' /\ work' = NoDb
    BY <1>0, FirstPosition DEF Closed
  <2>1. ASSUME NEW saved \in BOOLEAN, Start(saved) PROVE FilesTyped' /\ RunTyped'
    <3>1. FilesTyped'
      BY <2>1 DEF Start, FilesTyped
    <3>2. file.version + 1 \in 1..(DbVersion + 1)
      BY VersionNumbers DEF FilesTyped
    <3>3. Position(file.version + 1, 1)
      BY <3>2, FirstPosition
    <3> QED BY <2>1, <3>1, <3>3 DEF Start, RunTyped
  <2>2. CASE Migrate
    <3>1. FilesTyped'
      BY <2>2 DEF Migrate, FilesTyped
    <3>2. IF step < Len(Versions[at]) THEN Position(at, step + 1) ELSE Position(at + 1, 1)
      BY <2>2, NextPosition DEF Migrate, RunTyped, Position
    <3>3. Position(at, step)'
      BY <2>2, <3>2 DEF Migrate
    <3> QED BY <2>2, <3>1, <3>3 DEF Migrate, RunTyped
  <2>3. CASE Refuse \/ Ends
    BY <2>3, <2>c DEF FilesTyped, RunTyped, Refuse, Ends
  <2>4. CASE Commit
    BY <2>4, <2>c, <1>0 DEF FilesTyped, RunTyped, Commit
  <2>5. CASE Book
    <3>1. UNCHANGED <<backups, stage, at, step, work>>
      BY <2>5 DEF Book
    <3> QED BY <2>5, <3>1, BookKeepsVersion DEF FilesTyped, RunTyped
  <2>6. CASE Restore
    BY <2>6 DEF FilesTyped, RunTyped, Restore
  <2>7. CASE UNCHANGED migrationVars
    BY <2>7 DEF FilesTyped, RunTyped, migrationVars
  <2> QED BY <2>1, <2>2, <2>3, <2>4, <2>5, <2>6, <2>7 DEF MigrationNext
<1> QED BY <1>1, <1>2, PTL DEF MigrationSpec

(* A crash never leaves a file between two versions: only the commit of an  *)
(* upgrade changes the schema of the file.  The program runs on files of    *)
(* today only, because no other could be reloaded, and bookings therefore   *)
(* never touch a file that a release left.                                  *)
THEOREM NoHalfUpgrades == MigrationSpec => []NoHalfUpgrade
<1>1. MigrationInit => NoHalfUpgrade
  BY DEF MigrationInit, NoHalfUpgrade
<1>2. NoHalfUpgrade /\ UpgradeInv /\ [MigrationNext]_migrationVars => NoHalfUpgrade'
  <2> SUFFICES ASSUME NoHalfUpgrade, UpgradeInv, [MigrationNext]_migrationVars
               PROVE  NoHalfUpgrade'
    OBVIOUS
  <2>1. ASSUME NEW saved \in BOOLEAN, Start(saved) PROVE NoHalfUpgrade'
    BY <2>1 DEF NoHalfUpgrade, Start
  <2>2. CASE Migrate \/ Refuse \/ Ends
    BY <2>2 DEF NoHalfUpgrade, Migrate, Refuse, Ends
  <2>3. CASE Commit
    BY <2>3 DEF NoHalfUpgrade, Commit
  <2>4. CASE Book
    <3>1. file'.version = DbVersion /\ backups' = backups
      BY <2>4, Books DEF UpgradeInv
    <3> QED BY <3>1 DEF NoHalfUpgrade
  <2>5. CASE Restore
    BY <2>5 DEF NoHalfUpgrade, Restore
  <2>6. CASE UNCHANGED migrationVars
    BY <2>6 DEF NoHalfUpgrade, migrationVars
  <2> QED BY <2>1, <2>2, <2>3, <2>4, <2>5, <2>6 DEF MigrationNext
<1> QED BY <1>1, <1>2, UpgradeInvHolds, PTL DEF MigrationSpec

(* Whatever release a file came from, and whatever was restored: while the  *)
(* program runs the file has the tables, columns, keys and unique groups of *)
(* the models.  StoreContainer reads them without looking.                  *)
THEOREM RunsOnTodaysSchema == MigrationSpec => []RunsOnToday
<1>1. UpgradeInv => RunsOnToday
  <2> SUFFICES ASSUME UpgradeInv, stage = "on" PROVE SchemaOf(file.db) = CurrentSchema
    BY DEF RunsOnToday
  <2>1. FileFits(file) /\ file.version = DbVersion
    BY DEF UpgradeInv
  <2> QED BY <2>1, OnlyTodayReloads
<1> QED BY <1>1, UpgradeInvHolds, PTL

(* No step of an upgrade fails (MigrationRunner throws), for any rows that a *)
(* file of a release may hold, but for the one case of two accounts that    *)
(* version 2 gives the same name.                                           *)
THEOREM OnlyAClashRefuses == MigrationSpec => []RefusedOnlyByClash
<1>1. UpgradeInv => RefusedOnlyByClash
  <2> SUFFICES ASSUME UpgradeInv, stage = "upgrading", at <= DbVersion, ~ Allowed(work, Todo)
               PROVE  SuffixClash
    BY DEF RefusedOnlyByClash
  <2> DEFINE o == OriginOf(file)
             p == <<at, step>>
  <2>1. /\ IsForeseen(o, p, work, Todo) /\ IsDb(work) /\ RowsFollow(o, p, work, file.db)
        /\ ReadyFor(Todo, work) /\ DOMAIN file.db = DOMAIN o.db
    BY BeforeStep
  <2> HIDE DEF o, p
  <2>2. Applicable(work, Todo)
    BY <2>1 DEF IsForeseen
  <2>3. Constrained(Applied(work, Todo)) \/ Clash(file.db)
    BY <2>1, StepRefused
  <2> QED BY <2>2, <2>3 DEF Allowed, Clash, SuffixClash, SameAccount
<1> QED BY <1>1, UpgradeInvHolds, PTL
-----------------------------------------------------------------------------
(* The upgrade implements its promise. *)

(* The promise speaks of the same tables and versions. *)
LEMMA PromiseVersion == Promise!DbVersion = DbVersion
BY DEF Promise!DbVersion, DbVersion, Promise!Versions, Versions,
  Promise!V1, Promise!V2, Promise!V3, Promise!V4, Promise!V5, Promise!V6, Promise!V7, Promise!V8, Promise!V9,
  Promise!V10, Promise!V11, Promise!V12, Promise!V13, Promise!V14, Promise!V15

LEMMA PromiseSchema == ASSUME NEW db PROVE Promise!SchemaOf(db) = SchemaOf(db)
BY DEF Promise!SchemaOf, SchemaOf

LEMMA PromiseModels == Promise!Models = Models
BY DEF Promise!Models, Models, Promise!Ref, Ref,
  Promise!ProfileRow, ProfileRow, Promise!AccountRow, AccountRow, Promise!InstrumentRow, InstrumentRow,
  Promise!TransactionRow, TransactionRow, Promise!TransactionEntryRow, TransactionEntryRow,
  Promise!TradeLegRow, TradeLegRow, Promise!StockRow, StockRow, Promise!PositionRow, PositionRow,
  Promise!OptionRow, OptionRow, Promise!TransactionOptionRow, TransactionOptionRow,
  Promise!WatchlistRow, WatchlistRow, Promise!WatchlistInstrumentRow, WatchlistInstrumentRow

LEMMA PromiseToday == Promise!CurrentSchema = CurrentSchema
BY PromiseModels DEF Promise!CurrentSchema, CurrentSchema

(* The accounts of an upgrade, whose names may have changed. *)
LEMMA DedupedKeeps ==
  ASSUME NEW rows, NEW cols, {"id", "name", "kind"} \subseteq cols,
         \A r \in rows : IsRow(r, cols), IdsDiffer(rows)
  PROVE  /\ Dropping(Deduped(rows), "name") = Dropping(rows, "name")
         /\ \A a \in Deduped(rows), b \in rows :
              a["id"] = b["id"] /\ a["name"] # b["name"] =>
                \E c \in rows : /\ c["id"] < b["id"]
                                /\ c["name"] = b["name"] /\ c["kind"] = b["kind"]
<1> DEFINE new(a) == IF IsFirst(a, rows) THEN a
                     ELSE [a EXCEPT !["name"] = Append(a["name"], a["id"])]
<1>1. Deduped(rows) = {new(a) : a \in rows}
  BY DEF Deduped
<1>2. ASSUME NEW a \in rows
      PROVE  /\ Without(new(a), "name") = Without(a, "name") /\ new(a)["id"] = a["id"]
             /\ IsFirst(a, rows) => new(a) = a
  <2>1. IsRow(a, cols)
    OBVIOUS
  <2>2. /\ DOMAIN new(a) = DOMAIN a /\ new(a)["id"] = a["id"]
        /\ \A c \in cols \ {"name"} : new(a)[c] = a[c]
        /\ IsFirst(a, rows) => new(a) = a
    BY <2>1 DEF IsRow
  <2>3. Without(new(a), "name") = Without(a, "name")
    <3> HIDE DEF new
    <3> QED BY <2>1, <2>2 DEF Without, IsRow
  <2> QED BY <2>2, <2>3
<1> HIDE DEF new
<1>3. Dropping(Deduped(rows), "name") = Dropping(rows, "name")
  BY <1>1, <1>2 DEF Dropping
<1>4. ASSUME NEW d \in Deduped(rows), NEW b \in rows, d["id"] = b["id"], d["name"] # b["name"]
      PROVE  \E c \in rows : /\ c["id"] < b["id"]
                             /\ c["name"] = b["name"] /\ c["kind"] = b["kind"]
  <2>1. PICK a \in rows : d = new(a)
    BY <1>1
  <2>2. a = b
    BY <1>2, <1>4, <2>1 DEF IdsDiffer
  <2>3. ~ IsFirst(b, rows)
    BY <1>2, <1>4, <2>1, <2>2
  <2>4. PICK c \in rows : c["name"] = b["name"] /\ c["kind"] = b["kind"] /\ ~ (b["id"] <= c["id"])
    BY <2>3 DEF IsFirst
  <2>5. c["id"] \in Nat /\ b["id"] \in Nat
    BY DEF IdsDiffer
  <2> QED BY <2>4, <2>5
<1> QED BY <1>3, <1>4

(* What is committed is an upgrade of the file. *)
LEMMA UpgradeKeeps ==
  ASSUME UpgradeInv, Commit
  PROVE  Promise!IsUpgradeOf(file', file)
<1> DEFINE o == OriginOf(file)
           old == file.db
<1>1. /\ o \in Origins /\ InUpgrade(o, Last, work, old) /\ Bare(work) = BareAt(DbVersion)
      /\ file' = [version |-> DbVersion, db |-> work] /\ FileFits(file) /\ UpgradeInv'
      /\ stage' = "on"
  BY CommitsUpgrade DEF Commit, UpgradeInv
<1>2. /\ RowsFit(old) /\ IdsDiffer(RowsIn(old, "account"))
      /\ o.db = Bare(old) /\ o.version = file.version /\ o.version \in Nat
  BY <1>1, OriginsAre DEF FileFits, OriginOf
<1>b. /\ DOMAIN o.db = DOMAIN old
      /\ \A t \in DOMAIN old : o.db[t].cols = old[t].cols
  BY BareRow DEF OriginOf
<1>v. file'.version = DbVersion /\ file'.db = work
  BY <1>1
<1> HIDE DEF o
<1>3. /\ RowsFollow(o, Last, work, old)
      /\ Gone(o, Last) = IF o.version < 6 THEN {"instrument", "transaction_", "tx_entry"} ELSE {}
      /\ IsMade("retype", o, Last) <=> o.version < 12
      /\ "account" \in DOMAIN o.db => {"id", "name", "kind"} \subseteq o.db["account"].cols
  BY <1>1, PlanAssumption DEF InUpgrade, IsPlanned
<1>4. /\ FreshAreEmpty(o, Last, work) /\ OthersAreKept(o, Last, work, old)
      /\ NoTrades(work) /\ AccountsAreKept(o, Last, work, old) /\ RowsFit(work)
  BY <1>2, <1>3 DEF RowsFollow, TradesAreStock
<1>5. /\ {"account", "transaction_", "tx_entry"} \subseteq DOMAIN work
      /\ TmpName \notin DOMAIN work
      /\ work["tx_entry"].cols = TransactionEntryRow.cols
  BY <1>1, TodayHas
<1>6. /\ \A t : Promise!RowsOf(file, t) = RowsIn(old, t)
      /\ \A t : Promise!RowsOf(file', t) = RowsIn(work, t)
      /\ \A rows, c : Promise!WithoutCol(rows, c) = Dropping(rows, c)
  BY <1>v DEF Promise!RowsOf, RowsIn, Promise!WithoutCol, Promise!Without, Dropping, Without
<1>7. Promise!KeepsAccounts(file, file')
  <2>1. RowsIn(work, "account") = AccountRows(work)
    BY <1>5 DEF RowsIn, AccountRows
  <2> DEFINE rows == RowsIn(old, "account")
             new == RowsIn(work, "account")
  <2>2. new = Deduped(rows) \/ new = rows
    BY <1>4, <2>1 DEF AccountsAreKept
  <2>3. ASSUME new = Deduped(rows)
        PROVE  /\ Dropping(new, "name") = Dropping(rows, "name")
               /\ \A a \in new, b \in rows :
                    a["id"] = b["id"] /\ a["name"] # b["name"] =>
                      \E c \in rows : /\ c["id"] < b["id"]
                                      /\ c["name"] = b["name"] /\ c["kind"] = b["kind"]
    <3>1. CASE "account" \in DOMAIN old
      <4> DEFINE cols == old["account"].cols
      <4>1. {"id", "name", "kind"} \subseteq cols
        BY <1>3, <1>b, <3>1
      <4>2. \A r \in rows : IsRow(r, cols)
        BY <1>2, <3>1 DEF RowsFit, RowsIn
      <4>3. IdsDiffer(rows)
        BY <1>2
      <4> HIDE DEF cols, rows, new
      <4> QED BY <2>3, <4>1, <4>2, <4>3, DedupedKeeps
    <3>2. CASE "account" \notin DOMAIN old
      <4>1. rows = {} /\ new = {}
        BY <2>3, <3>2 DEF RowsIn, Deduped
      <4> HIDE DEF rows, new
      <4> QED BY <4>1
    <3> QED BY <3>1, <3>2
  <2>4. ASSUME new = rows
        PROVE  /\ Dropping(new, "name") = Dropping(rows, "name")
               /\ \A a \in new, b \in rows : a["id"] = b["id"] => a["name"] = b["name"]
    BY <1>2, <2>4 DEF IdsDiffer
  <2>5. /\ Dropping(new, "name") = Dropping(rows, "name")
        /\ \A a \in new, b \in rows :
             a["id"] = b["id"] /\ a["name"] # b["name"] =>
               \E c \in rows : /\ c["id"] < b["id"]
                               /\ c["name"] = b["name"] /\ c["kind"] = b["kind"]
    <3> HIDE DEF new, rows
    <3> QED BY <2>2, <2>3, <2>4
  <2>6. /\ Promise!RowsOf(file, "account") = rows /\ Promise!RowsOf(file', "account") = new
        /\ \A r, c : Promise!WithoutCol(r, c) = Dropping(r, c)
    BY <1>6
  <2> HIDE DEF new, rows
  <2> QED BY <2>5, <2>6 DEF Promise!KeepsAccounts
<1>8. \A t \in DOMAIN work : Fresh(o, Last, t) => RowsIn(work, t) = {}
  BY <1>4 DEF FreshAreEmpty, RowsIn
<1>9. \A t \in DOMAIN work \ Accounts : ~ Fresh(o, Last, t) =>
        IF t \in Typed THEN NoType(RowsIn(work, t)) = NoType(RowsIn(old, t))
        ELSE RowsIn(work, t) = RowsIn(old, t)
  <2> SUFFICES ASSUME NEW t \in DOMAIN work \ Accounts, ~ Fresh(o, Last, t)
               PROVE  IF t \in Typed THEN NoType(RowsIn(work, t)) = NoType(RowsIn(old, t))
                      ELSE RowsIn(work, t) = RowsIn(old, t)
    OBVIOUS
  <2>1. t \in DOMAIN old
    BY <1>b DEF Fresh
  <2> QED BY <1>4, <2>1 DEF OthersAreKept, RowsIn
<1>10. \A t \in DOMAIN work \ Accounts : Fresh(o, Last, t) =>
         RowsIn(work, t) = {} /\ (t \in Gone(o, Last) \/ RowsIn(old, t) = {})
  BY <1>8, <1>b DEF Fresh, RowsIn
<1>11. Promise!KeepsTransactions(file, file')
  <2> DEFINE txs == RowsIn(work, "transaction_")
             entries == RowsIn(work, "tx_entry")
  <2>1. \A t \in Typed : t \in DOMAIN work \ Accounts
    BY <1>5, AccountsDiffer DEF Typed
  <2>2. ASSUME o.version < 6 PROVE txs = {} /\ entries = {}
    <3>1. \A t \in Typed : Fresh(o, Last, t)
      BY <1>3, <2>1, <2>2 DEF Fresh, Typed
    <3> QED BY <1>10, <2>1, <3>1 DEF Typed
  <2>3. ASSUME ~ (o.version < 6), NEW t \in Typed
        PROVE  NoType(RowsIn(work, t)) = NoType(RowsIn(old, t))
    <3>1. CASE Fresh(o, Last, t)
      BY <1>3, <1>10, <2>1, <2>3, <3>1
    <3>2. CASE ~ Fresh(o, Last, t)
      BY <1>9, <2>1, <2>3, <3>2
    <3> QED BY <3>1, <3>2
  <2>4. \A t \in txs : t["type"] # "Trade"
    BY <1>4, <1>5 DEF NoTrades, RowsIn
  <2>5. \A e \in entries : "type" \in DOMAIN e
    <3>1. \A e \in entries : IsRow(e, TransactionEntryRow.cols)
      BY <1>4, <1>5 DEF RowsFit, RowsIn
    <3>2. "type" \in TransactionEntryRow.cols
      BY DEF TransactionEntryRow
    <3> QED BY <3>1, <3>2 DEF IsRow
  <2>6. /\ Promise!RowsOf(file', "transaction_") = txs
        /\ Promise!RowsOf(file', "tx_entry") = entries
        /\ Promise!RowsOf(file, "transaction_") = RowsIn(old, "transaction_")
        /\ Promise!RowsOf(file, "tx_entry") = RowsIn(old, "tx_entry")
        /\ \A r : Promise!WithoutCol(r, "type") = NoType(r)
    BY <1>6 DEF NoType
  <2>7. ~ (o.version < 6) =>
          /\ NoType(txs) = NoType(RowsIn(old, "transaction_"))
          /\ NoType(entries) = NoType(RowsIn(old, "tx_entry"))
    BY <2>3 DEF Typed
  <2> HIDE DEF txs, entries
  <2> QED BY <1>2, <2>2, <2>4, <2>5, <2>6, <2>7 DEF Promise!KeepsTransactions
<1>12. Promise!KeepsOthers(file, file')
  <2> SUFFICES ASSUME NEW t \in DOMAIN work \ {"account", "transaction_", "tx_entry"}
               PROVE  RowsIn(work, t) = IF t = "instrument" /\ o.version < 6 THEN {}
                                        ELSE RowsIn(old, t)
    BY <1>2, <1>6, <1>v DEF Promise!KeepsOthers
  <2>1. t \in DOMAIN work \ Accounts /\ t \notin Typed
    BY <1>5 DEF Accounts, Typed
  <2>2. CASE Fresh(o, Last, t)
    <3>1. RowsIn(work, t) = {} /\ (t \in Gone(o, Last) \/ RowsIn(old, t) = {})
      BY <1>10, <2>1, <2>2
    <3> QED BY <1>3, <3>1
  <2>3. CASE ~ Fresh(o, Last, t)
    <3>1. RowsIn(work, t) = RowsIn(old, t)
      BY <1>9, <2>1, <2>3
    <3>2. ~ (t = "instrument" /\ o.version < 6)
      BY <1>3, <2>1, <2>3 DEF Fresh
    <3> QED BY <3>1, <3>2
  <2> QED BY <2>2, <2>3
<1>13. Promise!SchemaOf(file'.db) = Promise!CurrentSchema /\ file'.version = Promise!DbVersion
  <2>1. FileFits([version |-> DbVersion, db |-> work])
    BY <1>1 DEF UpgradeInv
  <2>2. SchemaOf(work) = CurrentSchema
    BY <2>1, OnlyTodayReloads
  <2> QED BY <1>v, <2>2, PromiseVersion, PromiseSchema, PromiseToday
<1> QED BY <1>7, <1>11, <1>12, <1>13 DEF Promise!IsUpgradeOf

(* The upgrade is atomic, and keeps what the user entered: the accounts, and *)
(* their names unless another had the same, the transactions and entries    *)
(* since version 6, and the rows of all other tables.                       *)
THEOREM UpgradesAreAtomic == MigrationSpec => UpgradesAtOnce
<1>1. UpgradeInv /\ [MigrationNext]_migrationVars =>
        [Promise!BackUp \/ Promise!Begin \/ Promise!Change \/ Promise!Restore
           \/ Promise!End]_<<file, backups, stage = "on">>
  <2> SUFFICES ASSUME UpgradeInv, [MigrationNext]_migrationVars
               PROVE  \/ Promise!BackUp \/ Promise!Begin \/ Promise!Change
                      \/ Promise!Restore \/ Promise!End
                      \/ UNCHANGED <<file, backups, stage = "on">>
    OBVIOUS
  <2>1. ASSUME NEW saved \in BOOLEAN, Start(saved)
        PROVE  Promise!BackUp \/ UNCHANGED <<file, backups, stage = "on">>
    BY <2>1 DEF Start, Promise!BackUp
  <2>2. CASE Migrate \/ Refuse
    BY <2>2 DEF Migrate, Refuse
  <2>3. CASE Commit
    <3>1. Promise!IsUpgradeOf(file', file)
      BY <2>3, UpgradeKeeps
    <3> QED BY <2>3, <3>1 DEF Commit, Promise!Begin
  <2>4. CASE Ends
    BY <2>4 DEF Ends, Promise!End
  <2>5. CASE Book
    <3>1. /\ stage = "on" /\ stage' = "on" /\ backups' = backups
          /\ file'.version = file.version /\ Bare(file'.db) = Bare(file.db)
      BY <2>5, Books
    <3>2. SchemaOf(file'.db) = SchemaOf(file.db)
      BY <3>1, BareSchema
    <3> QED BY <3>1, <3>2, PromiseSchema DEF Promise!Change
  <2>6. CASE Restore
    <3>1. /\ stage = "on" /\ file' \in backups /\ backups' = backups
          /\ stage' = "on" <=> SchemaOf(file'.db) = CurrentSchema
      BY <2>6, Restores
    <3> QED BY <3>1, PromiseSchema, PromiseToday DEF Promise!Restore
  <2>7. CASE UNCHANGED migrationVars
    BY <2>7 DEF migrationVars
  <2> QED BY <2>1, <2>2, <2>3, <2>4, <2>5, <2>6, <2>7 DEF MigrationNext
<1> QED BY <1>1, UpgradeInvHolds, PTL DEF MigrationSpec, UpgradesAtOnce, Promise!Spec
=============================================================================
