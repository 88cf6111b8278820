--------------------------- MODULE LogAndFormProofs --------------------------
(* The log files, for any capacity, number of files, lines and starts; and  *)
(* the forms of transactions, stocks and accounts, for any texts.           *)
EXTENDS LogFiles, EntryForms, SequenceTheorems, WellFoundedInduction, TLAPS

-----------------------------------------------------------------------------
(* What holds of every interleaving of the two threads. *)

Rotating == {"remove", "rename", "reopen"}
Stages == {"idle", "ensure", "close", "write", "flush"} \cup Rotating

LogLines == [n : Nat, level : Levels]

Rings == [Slots -> Seq(Nat) \cup {NoFile, Garbled}]
Streams == [at : Slots \cup {Closed, Unlinked}, good : BOOLEAN]
Sizes == [initial : Nat, bytes : Nat]

LogType ==
  /\ ring \in Rings /\ stream \in Streams
  /\ buffer \in Seq(LogLines) /\ torn \in BOOLEAN /\ size \in Sizes
  /\ pc \in [Threads -> Stages] /\ level \in [Threads -> Levels]
  /\ slot \in [Threads -> Slots]
  /\ running \in BOOLEAN /\ raced \in BOOLEAN /\ cut \in BOOLEAN
  /\ lines \in Nat

File(i) == LinesOf(ring[i])
Waiting == Numbers(buffer)

(* The lines come in order from file to file, and those the stream holds    *)
(* back after them.                                                         *)
FilesInOrder ==
  /\ \A i \in Slots : Ascending(File(i))
  /\ \A i, j \in Slots : i > j => \A m \in Entries(File(i)), n \in Entries(File(j)) : m < n
  /\ Ascending(Waiting)
  /\ \A m \in OnDisk, n \in Entries(Waiting) : m < n
  /\ \A n \in OnDisk \cup Entries(Waiting) : n <= lines

(* No file is newer than the one the stream writes to, which is what keeps  *)
(* a stream in order that is open on a file another thread has renamed.     *)
NothingNewer ==
  /\ stream.at \in Slots => \A j \in Slots : j < stream.at => File(j) = <<>>
  /\ stream.at = Closed => buffer = <<>>
  /\ torn => stream.at = Unlinked /\ buffer = <<>>
  /\ \A t \in Threads : pc[t] = "rename" => slot[t] # 0
  /\ ~running => stream.at = Closed /\ \A t \in Threads : pc[t] = "idle"

(* A line that is not an Info line waits only for the thread that wrote it. *)
UrgentWaits ==
  (stream.good /\ ~torn) =>
    \A k \in DOMAIN buffer :
      buffer[k].level = "Info" \/ \E t \in Threads : pc[t] = "flush" /\ level[t] # "Info"

-----------------------------------------------------------------------------
(* What holds until the threads meet. *)

(* What is in each file is known. *)
Clean == \A i \in Slots : ring[i] # Garbled

InRotation == \E t \in Threads : pc[t] \in Rotating

Alone ==
  /\ ~torn /\ Clean
  /\ \A t, u \in Threads : t # u => pc[t] = "idle" \/ pc[u] = "idle"
  /\ running => /\ stream.good /\ stream.at \in {0, Closed}
                /\ stream.at = Closed <=> InRotation

(* The size that is counted is that of the current file and of what is on   *)
(* the way to it.                                                           *)
Counted == Len(File(0)) + Len(buffer)
Sized ==
  /\ \A i \in Slots : Len(File(i)) <= Capacity
  /\ running /\ stream.at = 0 =>
       /\ size.initial + size.bytes = Counted /\ Counted <= Capacity
       /\ \A t \in Threads : /\ pc[t] = "write" => Counted < Capacity
                             /\ pc[t] = "close" => Counted = Capacity
  /\ \A t \in Threads : pc[t] = "reopen" => File(0) = <<>> /\ slot[t] = 0

(* File f is full and ends with line h, or there never were that many       *)
(* lines. Other files are as full as they ever get.                         *)
EndsWith(f, h) ==
  \/ /\ Len(f) = Capacity /\ 0 <= h - Capacity
     /\ \A k \in DOMAIN f : f[k] = h - Capacity + k
  \/ f = <<>> /\ h <= 0
StartsAfter(f, h) == \A k \in DOMAIN f : f[k] = h + k
Room(k) == k * Capacity
Files == [i \in Slots |-> File(i)]

(* The current file starts after line h, and each older one before.         *)
Settled(f, h) ==
  /\ 0 <= h /\ StartsAfter(f[0], h)
  /\ \A i \in Slots \ {0} : EndsWith(f[i], h - Room(i - 1))

(* A rotation after line n has come to index s: the files above it have     *)
(* their new names, and there is none of index s but the oldest, which is   *)
(* removed first.                                                           *)
Shifting(f, n, s, oldest) ==
  \A i \in Slots :
    /\ i < s \/ (i = s /\ oldest) => EndsWith(f[i], n - Room(i))
    /\ i = s /\ ~oldest => f[i] = <<>>
    /\ i > s => EndsWith(f[i], n - Room(i - 1))
Oldest(t) == pc[t] = "remove" /\ slot[t] = MaxFiles - 1

Gapless ==
  /\ ~running => \E h \in 0 .. lines : Settled(Files, h)
  /\ \A t \in Threads : pc[t] \in Rotating => Shifting(Files, lines, slot[t], Oldest(t))
  /\ running /\ ~InRotation =>
       /\ Settled(Files, lines - Counted)
       /\ \A k \in DOMAIN buffer : buffer[k].n = lines - Len(buffer) + k

NotMet == Alone /\ Sized /\ (~cut => Gapless)

(* The inductive invariant. *)
AnyRace == LogType /\ FilesInOrder /\ NothingNewer
LogInv == AnyRace /\ UrgentWaits /\ (~raced => NotMet)

-----------------------------------------------------------------------------
(* Sequences of line numbers. *)

LEMMA NumbersType ==
  ASSUME NEW ls \in Seq(LogLines)
  PROVE  /\ Numbers(ls) \in Seq(Nat) /\ Len(Numbers(ls)) = Len(ls)
         /\ DOMAIN Numbers(ls) = 1 .. Len(ls)
         /\ \A k \in 1 .. Len(ls) : Numbers(ls)[k] = ls[k].n
<1>1. DOMAIN ls = 1 .. Len(ls) /\ Len(ls) \in Nat /\ \A k \in 1 .. Len(ls) : ls[k] \in LogLines
  OBVIOUS
<1>2. Numbers(ls) \in [1 .. Len(ls) -> Nat]
  BY <1>1 DEF Numbers, LogLines
<1>3. Numbers(ls) \in Seq(Nat)
  BY <1>1, <1>2
<1> QED BY <1>1, <1>2, <1>3 DEF Numbers

LEMMA NoNumbers == Entries(Numbers(<<>>)) = {} /\ Ascending(Numbers(<<>>)) /\ Entries(<<>>) = {}
BY DEF Entries, Numbers, Ascending

LEMMA ConcatEntries ==
  ASSUME NEW s \in Seq(Nat), NEW t \in Seq(Nat)
  PROVE  Entries(s \o t) = Entries(s) \cup Entries(t)
<1>1. /\ s \o t \in Seq(Nat) /\ Len(s \o t) = Len(s) + Len(t)
      /\ Len(s) \in Nat /\ Len(t) \in Nat
      /\ \A i \in 1 .. Len(s) + Len(t) :
           (s \o t)[i] = IF i <= Len(s) THEN s[i] ELSE t[i - Len(s)]
  BY ConcatProperties
<1>2. DOMAIN (s \o t) = 1 .. Len(s) + Len(t) /\ DOMAIN s = 1 .. Len(s) /\ DOMAIN t = 1 .. Len(t)
  BY <1>1
<1>3. ASSUME NEW n \in Entries(s \o t) PROVE n \in Entries(s) \cup Entries(t)
  <2>1. PICK i \in 1 .. Len(s) + Len(t) : n = (s \o t)[i]
    BY <1>2 DEF Entries
  <2>2. CASE i <= Len(s)
    BY <1>1, <1>2, <2>1, <2>2 DEF Entries
  <2>3. CASE ~(i <= Len(s))
    <3>1. i - Len(s) \in 1 .. Len(t) /\ n = t[i - Len(s)]
      BY <1>1, <2>1, <2>3
    <3> QED BY <1>2, <3>1 DEF Entries
  <2> QED BY <2>2, <2>3
<1>4. Entries(s) \subseteq Entries(s \o t)
  BY <1>1, <1>2 DEF Entries
<1>5. ASSUME NEW n \in Entries(t) PROVE n \in Entries(s \o t)
  <2>1. PICK i \in 1 .. Len(t) : n = t[i]
    BY <1>2 DEF Entries
  <2>2. i + Len(s) \in 1 .. Len(s) + Len(t) /\ (s \o t)[i + Len(s)] = n
    BY <1>1, <2>1
  <2> QED BY <1>2, <2>2 DEF Entries
<1> QED BY <1>3, <1>4, <1>5

LEMMA ConcatAscending ==
  ASSUME NEW s \in Seq(Nat), NEW t \in Seq(Nat), Ascending(s), Ascending(t),
         \A m \in Entries(s), n \in Entries(t) : m < n
  PROVE  Ascending(s \o t)
<1>1. /\ Len(s \o t) = Len(s) + Len(t) /\ s \o t \in Seq(Nat)
      /\ Len(s) \in Nat /\ Len(t) \in Nat
      /\ \A i \in 1 .. Len(s) + Len(t) :
           (s \o t)[i] = IF i <= Len(s) THEN s[i] ELSE t[i - Len(s)]
  BY ConcatProperties
<1>2. DOMAIN (s \o t) = 1 .. Len(s) + Len(t) /\ DOMAIN s = 1 .. Len(s) /\ DOMAIN t = 1 .. Len(t)
  BY <1>1
<1> SUFFICES ASSUME NEW i \in 1 .. Len(s) + Len(t), NEW j \in 1 .. Len(s) + Len(t), i < j
             PROVE  (s \o t)[i] < (s \o t)[j]
  BY <1>2 DEF Ascending
<1>3. CASE j <= Len(s)
  <2>1. i \in 1 .. Len(s) /\ j \in 1 .. Len(s)
    BY <1>1, <1>3
  <2>2. s[i] < s[j]
    BY <1>2, <2>1 DEF Ascending
  <2> QED BY <1>1, <1>3, <2>1, <2>2
<1>4. CASE i <= Len(s) /\ ~(j <= Len(s))
  <2>1. s[i] \in Entries(s) /\ t[j - Len(s)] \in Entries(t)
    <3>1. i \in 1 .. Len(s) /\ j - Len(s) \in 1 .. Len(t)
      BY <1>1, <1>4
    <3> QED BY <1>2, <3>1 DEF Entries
  <2> QED BY <1>1, <1>4, <2>1
<1>5. CASE ~(i <= Len(s))
  <2>1. i - Len(s) \in 1 .. Len(t) /\ j - Len(s) \in 1 .. Len(t) /\ i - Len(s) < j - Len(s)
    BY <1>1, <1>5
  <2>2. t[i - Len(s)] < t[j - Len(s)]
    BY <1>2, <2>1 DEF Ascending
  <2> QED BY <1>1, <1>5, <2>2
<1> QED BY <1>1, <1>3, <1>4, <1>5

LEMMA ConcatNumbers ==
  ASSUME NEW s \in Seq(Nat), NEW ls \in Seq(LogLines)
  PROVE  /\ Len(s \o Numbers(ls)) = Len(s) + Len(ls) /\ DOMAIN (s \o Numbers(ls)) = 1 .. Len(s) + Len(ls)
         /\ \A k \in 1 .. Len(s) + Len(ls) :
              (s \o Numbers(ls))[k] = IF k <= Len(s) THEN s[k] ELSE ls[k - Len(s)].n
<1> DEFINE t == Numbers(ls)
<1>1. t \in Seq(Nat) /\ Len(t) = Len(ls) /\ \A k \in 1 .. Len(ls) : t[k] = ls[k].n
  BY NumbersType
<1> HIDE DEF t
<1>2. /\ s \o t \in Seq(Nat) /\ Len(s \o t) = Len(s) + Len(t)
      /\ \A k \in 1 .. Len(s) + Len(t) : (s \o t)[k] = IF k <= Len(s) THEN s[k] ELSE t[k - Len(s)]
  BY <1>1, ConcatProperties
<1>3. Len(s) \in Nat /\ Len(ls) \in Nat
  OBVIOUS
<1>4. ASSUME NEW k \in 1 .. Len(s) + Len(ls), ~(k <= Len(s)) PROVE t[k - Len(s)] = ls[k - Len(s)].n
  <2>1. k - Len(s) \in 1 .. Len(ls)
    BY <1>3, <1>4
  <2> QED BY <1>1, <2>1
<1>5. DOMAIN (s \o t) = 1 .. Len(s) + Len(ls)
  BY <1>1, <1>2
<1> QED BY <1>1, <1>2, <1>4, <1>5 DEF t

LEMMA LeastExists ==
  ASSUME NEW T \in SUBSET Nat, T # {}
  PROVE  \E x \in T : \A y \in T : x <= y
<1> DEFINE R == OpToRel(<, Nat)
<1>1. IsWellFoundedOn(R, Nat)
  BY NatLessThanWellFounded
<1>2. PICK x \in T : \A y \in T : ~(<<y, x>> \in R)
  <2> HIDE DEF R
  <2> QED BY <1>1, WFMin
<1>3. \A y \in T : <<y, x>> \in Nat \X Nat /\ (y < x => <<y, x>> \in R)
  BY DEF OpToRel
<1>4. \A y \in T : ~(y < x)
  BY <1>2, <1>3
<1> QED BY <1>4

(* The newest of some lines. *)
LEMMA GreatestExists ==
  ASSUME NEW S, NEW b \in Nat, S \subseteq 0 .. b, S # {}
  PROVE  Greatest(S) \in S /\ \A m \in S : m <= Greatest(S)
<1> DEFINE D == {b - m : m \in S}
<1>1. D \in SUBSET Nat /\ D # {}
  <2>1. PICK m \in S : TRUE
    OBVIOUS
  <2>2. b - m \in D
    BY <2>1
  <2> QED BY <2>2
<1>2. PICK d \in D : \A e \in D : d <= e
  <2> HIDE DEF D
  <2> QED BY <1>1, LeastExists
<1>3. PICK n \in S : d = b - n
  OBVIOUS
<1>4. \A m \in S : m <= n
  <2> SUFFICES ASSUME NEW m \in S PROVE m <= n
    OBVIOUS
  <2>1. d <= b - m
    BY <1>2
  <2> QED BY <1>3, <2>1
<1> QED BY <1>4 DEF Greatest

-----------------------------------------------------------------------------
(* What the steps do to the files. *)

LEMMA SlotNumbers ==
  /\ Slots \subseteq Nat /\ 0 \in Slots /\ MaxFiles - 1 \in Slots
  /\ \A i \in Slots : i <= MaxFiles - 1 /\ (i # 0 => i - 1 \in Slots /\ i - 1 < i)
  /\ Closed \notin Slots /\ Unlinked \notin Slots /\ Closed # Unlinked
BY LogFilesAssumption DEF Slots

LEMMA NotFiles ==
  /\ NoFile # Garbled /\ NoFile \notin Seq(Nat) /\ Garbled \notin Seq(Nat)
  /\ \A f \in Seq(Nat) : LinesOf(f) = f
  /\ LinesOf(NoFile) = <<>> /\ LinesOf(Garbled) = <<>> /\ <<>> \in Seq(Nat)
BY LogFilesAssumption DEF LinesOf

LEMMA FileType ==
  ASSUME LogType, NEW i \in Slots
  PROVE  /\ File(i) \in Seq(Nat) /\ DOMAIN File(i) = 1 .. Len(File(i)) /\ Len(File(i)) \in Nat
         /\ ring[i] \in Seq(Nat) \cup {NoFile, Garbled}
<1>1. ring[i] \in Seq(Nat) \cup {NoFile, Garbled}
  BY DEF LogType, Rings
<1>2. File(i) \in Seq(Nat)
  BY <1>1, NotFiles DEF File
<1> QED BY <1>1, <1>2

LEMMA OnDiskType ==
  ASSUME LogType
  PROVE  OnDisk \subseteq Nat
<1> SUFFICES ASSUME NEW i \in Slots, NEW n \in Entries(File(i)) PROVE n \in Nat
  BY DEF OnDisk, File
<1> QED BY FileType DEF Entries

LEMMA WaitingType ==
  ASSUME LogType
  PROVE  /\ Waiting \in Seq(Nat) /\ Len(Waiting) = Len(buffer) /\ Len(buffer) \in Nat
         /\ DOMAIN Waiting = 1 .. Len(buffer) /\ DOMAIN buffer = 1 .. Len(buffer)
         /\ \A k \in 1 .. Len(buffer) : Waiting[k] = buffer[k].n
BY NumbersType DEF LogType, Waiting

FilesStay == \A i \in Slots : File(i)' = File(i)

(* What is delivered is appended to the file the stream is open on. *)
DeliversTo(f, ls, i) ==
  IF i = stream.at /\ ring[i] # Garbled THEN f \o Numbers(ls) ELSE f

LEMMA DeliveredFiles ==
  ASSUME LogType, NEW ls \in Seq(LogLines), ring' = Delivered(ring, ls)
  PROVE  /\ ring' \in Rings /\ (Clean => Clean')
         /\ \A i \in Slots : File(i)' = DeliversTo(File(i), ls, i)
<1>1. Numbers(ls) \in Seq(Nat)
  BY NumbersType
<1>2. CASE stream.at \in Slots /\ ring[stream.at] # Garbled /\ ls # <<>>
  <2>1. File(stream.at) \o Numbers(ls) \in Seq(Nat)
    BY <1>1, <1>2, FileType, ConcatProperties
  <2>2. ring' = [ring EXCEPT ![stream.at] = File(stream.at) \o Numbers(ls)]
    BY <1>2 DEF Delivered, File
  <2>3. ring' \in Rings
    BY <1>2, <2>1, <2>2 DEF LogType, Rings
  <2>4. \A i \in Slots : ring'[i] = IF i = stream.at THEN File(i) \o Numbers(ls) ELSE ring[i]
    BY <2>2 DEF LogType, Rings
  <2> QED BY <1>2, <2>1, <2>3, <2>4, NotFiles DEF DeliversTo, File, Clean
<1>3. CASE ~(stream.at \in Slots /\ ring[stream.at] # Garbled)
  BY <1>3 DEF LogType, Delivered, DeliversTo, File, Clean
<1>4. CASE ls = <<>>
  <2>1. Numbers(ls) = <<>>
    <3>1. Len(Numbers(ls)) = 0
      BY <1>4, NumbersType
    <3> QED BY <1>1, <3>1, EmptySeq
  <2>2. \A i \in Slots : File(i) \o <<>> = File(i)
    BY FileType, ConcatEmptySeq
  <2> QED BY <1>4, <2>1, <2>2 DEF LogType, Delivered, DeliversTo, File, Clean
<1> QED BY <1>2, <1>3, <1>4

LEMMA FlushedFiles ==
  ASSUME LogType, Flushed
  PROVE  /\ ring' \in Rings /\ buffer' \in Seq(LogLines) /\ (Clean => Clean')
         /\ IF Usable
            THEN buffer' = <<>> /\ \A i \in Slots : File(i)' = DeliversTo(File(i), buffer, i)
            ELSE buffer' = buffer /\ FilesStay
<1>1. CASE Usable
  <2>1. ring' = Delivered(ring, buffer) /\ buffer' = <<>>
    BY <1>1 DEF Flushed
  <2> QED BY <1>1, <2>1, DeliveredFiles DEF LogType
<1>2. CASE ~Usable
  BY <1>2 DEF Flushed, LogType, FilesStay, File, Clean
<1> QED BY <1>1, <1>2

LEMMA OpenedFiles ==
  ASSUME LogType, OpenCurrent
  PROVE  /\ ring' \in Rings /\ FilesStay /\ (Clean => Clean') /\ buffer' = buffer
         /\ size' = [initial |-> Len(File(0)), bytes |-> 0] /\ size' \in Sizes
         /\ stream' \in Streams
         /\ stream.at = Closed => stream' = [at |-> 0, good |-> TRUE]
         /\ stream.at # Closed => stream'.at = stream.at /\ ~stream'.good
<1>1. ring' \in Rings /\ FilesStay /\ (Clean => Clean')
  <2>1. CASE stream.at = Closed /\ ring[0] = NoFile
    <3>1. ring' = [ring EXCEPT ![0] = <<>>]
      BY <2>1 DEF OpenCurrent
    <3>2. ring' \in Rings /\ \A i \in Slots : ring'[i] = IF i = 0 THEN <<>> ELSE ring[i]
      BY <3>1, NotFiles, SlotNumbers DEF LogType, Rings
    <3> QED BY <2>1, <3>2, NotFiles, SlotNumbers DEF FilesStay, File, Clean
  <2>2. CASE ~(stream.at = Closed /\ ring[0] = NoFile)
    BY <2>2 DEF OpenCurrent, LogType, FilesStay, File, Clean
  <2> QED BY <2>1, <2>2
<1>2. Len(File(0)) \in Nat
  BY FileType, SlotNumbers
<1>3. size' = [initial |-> Len(File(0)), bytes |-> 0] /\ size' \in Sizes
  BY <1>2 DEF OpenCurrent, File, Sizes
<1>4. stream' \in Streams /\ (stream.at = Closed => stream' = [at |-> 0, good |-> TRUE])
      /\ (stream.at # Closed => stream'.at = stream.at /\ ~stream'.good)
  BY SlotNumbers DEF OpenCurrent, LogType, Streams
<1> QED BY <1>1, <1>3, <1>4 DEF OpenCurrent

LEMMA SpoiledFiles ==
  ASSUME LogType, Spoils
  PROVE  ring' \in Rings /\ \A i \in Slots : File(i)' \in {File(i), <<>>}
<1>1. PICK new \in {NoFile, Garbled} :
        ring' = [i \in Slots |-> IF i = 0 THEN new
                                 ELSE IF i = stream.at THEN Garbled ELSE ring[i]]
  BY DEF Spoils
<1>2. ring' \in Rings
  BY <1>1 DEF LogType, Rings
<1>3. \A i \in Slots : ring'[i] \in {NoFile, Garbled, ring[i]}
  BY <1>1
<1> QED BY <1>2, <1>3, NotFiles DEF File

LEMMA RemovedFiles ==
  ASSUME LogType, NEW s \in Slots, Removed(s)
  PROVE  /\ ring' \in Rings /\ stream' \in Streams /\ (Clean => Clean')
         /\ \A i \in Slots : File(i)' = IF i = s THEN <<>> ELSE File(i)
         /\ stream'.at = IF stream.at = s THEN Unlinked ELSE stream.at
         /\ stream'.good = stream.good
<1>1. /\ ring' \in Rings
      /\ \A i \in Slots : ring'[i] = IF i = s THEN NoFile ELSE ring[i]
  BY DEF Removed, LogType, Rings
<1>2. /\ stream' \in Streams /\ stream'.good = stream.good
      /\ stream'.at = IF stream.at = s THEN Unlinked ELSE stream.at
  BY DEF Removed, LogType, Streams
<1> QED BY <1>1, <1>2, NotFiles DEF File, Clean

(* A file takes the next name, and its own is free. *)
LEMMA RenamedFiles ==
  ASSUME LogType, NEW s \in Slots \ {0}, Renamed(s)
  PROVE  /\ ring' \in Rings /\ stream' \in Streams /\ (Clean => Clean')
         /\ stream'.good = stream.good
         /\ \/ /\ FilesStay /\ File(s - 1) = <<>> /\ stream' = stream
            \/ /\ \A i \in Slots : File(i)' = IF i = s THEN File(s - 1)
                                              ELSE IF i = s - 1 THEN <<>> ELSE File(i)
               /\ stream'.at = IF stream.at = s THEN Unlinked
                               ELSE IF stream.at = s - 1 THEN s ELSE stream.at
<1>1. s - 1 \in Slots /\ s - 1 # s
  BY SlotNumbers
<1>2. CASE ring[s - 1] = NoFile
  <2>1. ring' = ring /\ stream' = stream
    BY <1>2 DEF Renamed
  <2> QED BY <1>1, <1>2, <2>1, NotFiles DEF FilesStay, File, Clean, LogType
<1>3. CASE ring[s - 1] # NoFile
  <2>1. /\ ring' \in Rings
        /\ \A i \in Slots : ring'[i] = IF i = s THEN ring[s - 1]
                                       ELSE IF i = s - 1 THEN NoFile ELSE ring[i]
    BY <1>1, <1>3 DEF Renamed, LogType, Rings
  <2>2. /\ stream' \in Streams /\ stream'.good = stream.good
        /\ stream'.at = IF stream.at = s THEN Unlinked
                        ELSE IF stream.at = s - 1 THEN s ELSE stream.at
    BY <1>3 DEF Renamed, LogType, Streams
  <2> QED BY <1>1, <2>1, <2>2, NotFiles DEF File, Clean
<1> QED BY <1>2, <1>3

-----------------------------------------------------------------------------
(* The order of the lines. *)

(* What remains of the lines stays in order. *)
LEMMA OrderThinned ==
  ASSUME LogType, FilesInOrder, \A i \in Slots : File(i)' \in {File(i), <<>>},
         buffer' \in {buffer, <<>>}, lines' \in Nat, lines <= lines'
  PROVE  FilesInOrder'
<1>1. \A i \in Slots : Ascending(File(i)') /\ Entries(File(i)') \subseteq Entries(File(i))
  BY NoNumbers DEF FilesInOrder, Ascending
<1>2. Ascending(Waiting') /\ Entries(Waiting') \subseteq Entries(Waiting)
  BY NoNumbers DEF FilesInOrder, Waiting
<1>3. OnDisk' \subseteq OnDisk
  BY <1>1 DEF OnDisk, File
<1>4. \A n \in OnDisk \cup Entries(Waiting) : n \in Nat /\ n <= lines
  BY OnDiskType, WaitingType DEF FilesInOrder, Entries
<1>5. \A n \in OnDisk' \cup Entries(Waiting') : n <= lines'
  BY <1>2, <1>3, <1>4 DEF LogType
<1>6. \A m \in OnDisk', n \in Entries(Waiting') : m < n
  BY <1>2, <1>3 DEF FilesInOrder
<1>7. \A i, j \in Slots : i > j => \A m \in Entries(File(i)'), n \in Entries(File(j)') : m < n
  BY <1>1 DEF FilesInOrder
<1> QED BY <1>1, <1>2, <1>5, <1>6, <1>7 DEF FilesInOrder

(* What is delivered follows all that is there, and nothing is newer than   *)
(* the file it is delivered to.                                             *)
LEMMA OrderDelivered ==
  ASSUME LogType, FilesInOrder, NothingNewer, NEW ls \in Seq(LogLines),
         Ascending(Numbers(ls)), lines' \in Nat, lines <= lines',
         \A m \in OnDisk, n \in Entries(Numbers(ls)) : m < n,
         \A n \in Entries(Numbers(ls)) : n <= lines',
         \A i \in Slots : File(i)' = DeliversTo(File(i), ls, i), buffer' = <<>>
  PROVE  FilesInOrder'
<1> DEFINE new == Numbers(ls)
<1>1. new \in Seq(Nat)
  BY NumbersType
<1> HIDE DEF new
<1>2. \A i \in Slots : Entries(File(i)) \subseteq OnDisk
  BY DEF OnDisk, File
<1>3. \A i \in Slots :
        \/ /\ i = stream.at /\ File(i)' = File(i) \o new
           /\ Entries(File(i)') = Entries(File(i)) \cup Entries(new)
        \/ File(i)' = File(i)
  BY <1>1, FileType, ConcatEntries DEF DeliversTo, new
<1>4. \A i \in Slots : Ascending(File(i)')
  <2>1. \A i \in Slots : Ascending(File(i) \o new)
    BY <1>1, <1>2, FileType, ConcatAscending DEF FilesInOrder, new
  <2> QED BY <1>3, <2>1 DEF FilesInOrder
<1>5. ASSUME NEW i \in Slots, NEW j \in Slots, i > j,
             NEW m \in Entries(File(i)'), NEW n \in Entries(File(j)')
      PROVE  m < n
  <2>1. CASE i = stream.at
    <3>1. File(j)' = <<>>
      BY <1>3, <1>5, <2>1, SlotNumbers DEF NothingNewer
    <3> QED BY <3>1, NoNumbers
  <2>2. CASE j = stream.at
    <3>1. File(i)' = File(i) /\ m \in OnDisk
      BY <1>2, <1>3, <1>5, <2>2, SlotNumbers
    <3>2. n \in Entries(File(j)) \/ n \in Entries(new)
      BY <1>3
    <3> QED BY <1>5, <3>1, <3>2 DEF FilesInOrder, new
  <2>3. CASE i # stream.at /\ j # stream.at
    BY <1>3, <1>5, <2>3 DEF FilesInOrder
  <2> QED BY <2>1, <2>2, <2>3
<1>6. \A n \in OnDisk' : n <= lines'
  <2> SUFFICES ASSUME NEW i \in Slots, NEW n \in Entries(File(i)') PROVE n <= lines'
    BY DEF OnDisk, File
  <2>1. n \in OnDisk \/ n \in Entries(new)
    BY <1>2, <1>3
  <2>2. n \in OnDisk => n \in Nat
    BY FileType DEF OnDisk, Entries, File
  <2> QED BY <2>1, <2>2 DEF FilesInOrder, LogType, new
<1>7. Entries(Waiting') = {} /\ Ascending(Waiting')
  BY NoNumbers DEF Waiting
<1> QED BY <1>4, <1>5, <1>6, <1>7 DEF FilesInOrder

(* One file moves to the index above, which it leaves free. *)
LEMMA OrderRenamed ==
  ASSUME LogType, FilesInOrder, NEW s \in Slots \ {0},
         \A i \in Slots : File(i)' = IF i = s THEN File(s - 1)
                                     ELSE IF i = s - 1 THEN <<>> ELSE File(i),
         UNCHANGED <<buffer, lines>>
  PROVE  FilesInOrder'
<1>2. s - 1 \in Slots
  BY SlotNumbers
<1>3. OnDisk' \subseteq OnDisk
  <2> SUFFICES ASSUME NEW i \in Slots, NEW n \in Entries(File(i)') PROVE n \in OnDisk
    BY DEF OnDisk, File
  <2>1. n \in Entries(File(i)) \/ n \in Entries(File(s - 1))
    BY NoNumbers
  <2> QED BY <1>2, <2>1 DEF OnDisk, File
<1>4. \A i \in Slots : Ascending(File(i)')
  <2>1. Ascending(<<>>)
    BY DEF Ascending
  <2> QED BY <1>2, <2>1 DEF FilesInOrder
<1>5. ASSUME NEW i \in Slots, NEW j \in Slots, i > j,
             NEW m \in Entries(File(i)'), NEW n \in Entries(File(j)')
      PROVE  m < n
  <2>1. i # s - 1 /\ j # s - 1
    <3>1. s - 1 # s /\ File(s - 1)' = <<>>
      BY <1>2, SlotNumbers
    <3>2. Entries(File(s - 1)') = {}
      BY <3>1, NoNumbers
    <3> QED BY <1>5, <3>2
  <2>2. CASE i = s
    <3>1. j < s - 1 /\ m \in Entries(File(s - 1)) /\ n \in Entries(File(j))
      BY <1>5, <2>1, <2>2, SlotNumbers
    <3> QED BY <1>2, <3>1, SlotNumbers DEF FilesInOrder
  <2>3. CASE j = s
    <3>1. i > s - 1 /\ m \in Entries(File(i)) /\ n \in Entries(File(s - 1))
      BY <1>5, <2>1, <2>3, SlotNumbers
    <3> QED BY <1>2, <3>1, SlotNumbers DEF FilesInOrder
  <2>4. CASE i # s /\ j # s
    BY <1>5, <2>1, <2>4 DEF FilesInOrder
  <2> QED BY <2>2, <2>3, <2>4
<1>6. Waiting' = Waiting
  BY DEF Waiting
<1> QED BY <1>3, <1>4, <1>5, <1>6 DEF FilesInOrder

-----------------------------------------------------------------------------
(* Type and order, step by step. *)

LEMMA InitOrder == Init => AnyRace
<1> SUFFICES ASSUME Init PROVE AnyRace
  OBVIOUS
<1>1. \A i \in Slots : File(i) = <<>>
  BY NotFiles DEF Init, File
<1>2. LogType
  <2>1. ring \in Rings /\ buffer \in Seq(LogLines)
    BY DEF Init, Rings
  <2>2. stream \in Streams /\ size \in Sizes
    BY DEF Init, Streams, Sizes
  <2>3. /\ pc \in [Threads -> Stages] /\ level \in [Threads -> Levels]
        /\ slot \in [Threads -> Slots]
    BY SlotNumbers DEF Init, Levels, Stages
  <2>4. lines = 0 /\ raced = FALSE /\ cut = FALSE /\ running = FALSE /\ torn = FALSE
    BY DEF Init
  <2>5. running \in BOOLEAN /\ raced \in BOOLEAN /\ cut \in BOOLEAN /\ torn \in BOOLEAN
    BY <2>4
  <2>6. lines \in Nat
    BY <2>4
  <2> QED BY <2>1, <2>2, <2>3, <2>5, <2>6 DEF LogType
<1>3. OnDisk = {} /\ Entries(Waiting) = {} /\ Ascending(Waiting)
  BY <1>1, NoNumbers DEF Init, OnDisk, File, Waiting
<1>4. FilesInOrder
  BY <1>1, <1>3, NoNumbers DEF FilesInOrder, Ascending
<1>5. NothingNewer
  BY SlotNumbers DEF Init, NothingNewer
<1> QED BY <1>2, <1>4, <1>5 DEF AnyRace

LEMMA StepTo ==
  ASSUME LogType, NEW t \in Threads, NEW from, NEW to \in Stages, Step(t, from, to)
  PROVE  /\ pc' \in [Threads -> Stages] /\ pc'[t] = to /\ pc[t] = from /\ running
         /\ \A u \in Threads : u # t => pc'[u] = pc[u]
BY DEF Step, LogType

(* A step of the running program, but for what it does to the stream. *)
Moves ==
  /\ running /\ running' /\ running' \in BOOLEAN
  /\ pc' \in [Threads -> Stages] /\ level' \in [Threads -> Levels]
  /\ slot' \in [Threads -> Slots]
  /\ raced' \in BOOLEAN /\ cut' \in BOOLEAN
  /\ lines' \in Nat /\ lines <= lines'
  /\ \A t \in Threads : pc'[t] = "rename" => slot'[t] # 0

LEMMA MovesTo ==
  ASSUME LogType, Moves, FilesInOrder', ring' \in Rings, stream' \in Streams,
         buffer' \in Seq(LogLines), torn' \in BOOLEAN, size' \in Sizes,
         stream'.at \in Slots => \A j \in Slots : j < stream'.at => File(j)' = <<>>,
         stream'.at = Closed => buffer' = <<>>,
         torn' => stream'.at = Unlinked /\ buffer' = <<>>
  PROVE  AnyRace'
<1>1. LogType'
  BY DEF LogType, Moves
<1>2. NothingNewer'
  BY DEF Moves, NothingNewer
<1> QED BY <1>1, <1>2 DEF AnyRace

LEMMA TearsOrder ==
  ASSUME AnyRace, Moves, Tears, torn' = TRUE
  PROVE  AnyRace'
<1>1. /\ ring' \in Rings /\ \A i \in Slots : File(i)' \in {File(i), <<>>}
  BY SpoiledFiles DEF Tears, AnyRace
<1>2. stream' = [at |-> Unlinked, good |-> TRUE] /\ buffer' = <<>>
      /\ size' = [initial |-> 0, bytes |-> 0]
  BY DEF Tears
<1>3. stream' \in Streams /\ buffer' \in Seq(LogLines) /\ size' \in Sizes /\ torn' \in BOOLEAN
  BY <1>2 DEF Streams, Sizes
<1>4. FilesInOrder'
  BY <1>1, <1>2, OrderThinned DEF AnyRace, Moves
<1> QED BY <1>1, <1>2, <1>3, <1>4, MovesTo, SlotNumbers DEF AnyRace

(* Nothing of the stream is changed. *)
LEMMA SameStreamOrder ==
  ASSUME AnyRace, Moves, UNCHANGED <<ring, streamV>>
  PROVE  AnyRace'
<1>1. UNCHANGED <<ring, stream, buffer, torn, size>>
  BY DEF streamV
<1>2. FilesInOrder'
  BY <1>1, OrderThinned DEF AnyRace, Moves, File
<1>3. \A i \in Slots : File(i)' = File(i)
  BY <1>1 DEF File
<1> QED BY <1>1, <1>2, <1>3, MovesTo DEF AnyRace, LogType, NothingNewer

(* What the stream holds back is delivered. *)
LEMMA FlushedOrder ==
  ASSUME AnyRace, Flushed, lines' \in Nat, lines <= lines'
  PROVE  /\ FilesInOrder' /\ ring' \in Rings /\ buffer' \in Seq(LogLines)
         /\ stream.at \in Slots => \A j \in Slots : j < stream.at => File(j)' = <<>>
         /\ buffer' \in {buffer, <<>>} /\ (Usable => buffer' = <<>>)
<1>1. CASE Usable
  <2>1. buffer' = <<>> /\ \A i \in Slots : File(i)' = DeliversTo(File(i), buffer, i)
    BY <1>1, FlushedFiles DEF AnyRace
  <2>2. \A n \in Entries(Waiting) : n \in Nat /\ n <= lines
    BY WaitingType DEF AnyRace, FilesInOrder, Entries
  <2>3. FilesInOrder'
    BY <2>1, <2>2, OrderDelivered DEF AnyRace, FilesInOrder, LogType, Waiting
  <2> QED BY <2>1, <2>3, FlushedFiles, SlotNumbers DEF AnyRace, NothingNewer, DeliversTo
<1>2. CASE ~Usable
  <2>1. buffer' = buffer /\ FilesStay
    BY <1>2, FlushedFiles DEF AnyRace
  <2> QED BY <1>2, <2>1, FlushedFiles, OrderThinned DEF AnyRace, NothingNewer, FilesStay
<1> QED BY <1>1, <1>2

LEMMA FlushCallOrder ==
  ASSUME AnyRace, Moves, NEW t \in Threads, Call(t, FlushCall)
  PROVE  AnyRace'
<1>1. CASE torn' = TRUE /\ Tears
  BY <1>1, TearsOrder
<1>2. CASE ~torn /\ torn' = FALSE /\ FlushCall
  <2>1. Flushed /\ stream' = stream /\ size' = size
    BY <1>2 DEF FlushCall
  <2> QED BY <1>2, <2>1, FlushedOrder, MovesTo DEF AnyRace, LogType, NothingNewer, Moves
<1> QED BY <1>1, <1>2 DEF Call

LEMMA CloseCallOrder ==
  ASSUME AnyRace, Moves, NEW t \in Threads, Call(t, CloseCall)
  PROVE  AnyRace'
<1>1. CASE torn' = TRUE /\ Tears
  BY <1>1, TearsOrder
<1>2. CASE ~torn /\ torn' = FALSE /\ CloseCall
  <2>1. Flushed /\ size' = size
        /\ stream' = IF stream.good THEN [stream EXCEPT !.at = Closed] ELSE stream
    BY <1>2 DEF CloseCall
  <2>2. stream' \in Streams /\ stream'.at \in {Closed, stream.at}
        /\ (stream'.at = Closed => stream.at = Closed \/ Usable)
    BY <2>1 DEF AnyRace, LogType, Streams, Usable
  <2>3. stream'.at = Closed => buffer' = <<>>
    BY <2>1, <2>2, FlushedOrder DEF AnyRace, NothingNewer, Moves
  <2> QED BY <1>2, <2>1, <2>2, <2>3, FlushedOrder, MovesTo, SlotNumbers DEF AnyRace, LogType, Moves
<1> QED BY <1>1, <1>2 DEF Call

LEMMA OpenCallOrder ==
  ASSUME AnyRace, Moves, NEW t \in Threads, Call(t, OpenCurrent)
  PROVE  AnyRace'
<1>1. CASE torn' = TRUE /\ Tears
  BY <1>1, TearsOrder
<1>2. CASE ~torn /\ torn' = FALSE /\ OpenCurrent
  <2>1. /\ ring' \in Rings /\ FilesStay /\ buffer' = buffer /\ size' \in Sizes
        /\ stream' \in Streams
        /\ stream.at = Closed => stream' = [at |-> 0, good |-> TRUE]
        /\ stream.at # Closed => stream'.at = stream.at
    BY <1>2, OpenedFiles DEF AnyRace
  <2>2. FilesInOrder'
    BY <2>1, OrderThinned DEF AnyRace, Moves, FilesStay
  <2>3. stream'.at \in Slots => \A j \in Slots : j < stream'.at => File(j)' = <<>>
    BY <2>1, SlotNumbers DEF AnyRace, NothingNewer, FilesStay
  <2>4. stream'.at # Closed
    BY <2>1, SlotNumbers
  <2> QED BY <1>2, <2>1, <2>2, <2>3, <2>4, MovesTo DEF AnyRace, LogType
<1> QED BY <1>1, <1>2 DEF Call

LEMMA InsertCallOrder ==
  ASSUME AnyRace, Moves, NEW t \in Threads, lines' = lines + 1,
         Call(t, Inserted(Line(lines + 1, level[t])))
  PROVE  AnyRace'
<1> DEFINE new == Line(lines + 1, level[t])
<1> DEFINE held == Append(buffer, new)
<1>1. new \in LogLines /\ new.n = lines + 1
  BY DEF AnyRace, LogType, LogLines, Line
<1>2. CASE torn' = TRUE /\ Tears
  BY <1>2, TearsOrder
<1>3. CASE ~torn /\ torn' = FALSE /\ Inserted(new)
  <2>1. /\ stream' = [stream EXCEPT !.good = @ /\ stream.at # Closed]
        /\ size' = [size EXCEPT !.bytes = @ + 1]
        /\ \/ Usable /\ ring' = Delivered(ring, held) /\ buffer' = <<>>
           \/ Usable /\ ring' = ring /\ buffer' = held
           \/ ring' = ring /\ buffer' = buffer
    BY <1>3 DEF Inserted
  <2>2. stream' \in Streams /\ stream'.at = stream.at /\ size' \in Sizes
    <3>1. stream' = [stream EXCEPT !.good = @ /\ stream.at # Closed]
      BY <2>1
    <3>2. size' = [size EXCEPT !.bytes = @ + 1]
      BY <2>1
    <3>3. stream' \in Streams /\ stream'.at = stream.at
      BY <3>1 DEF AnyRace, LogType, Streams
    <3> QED BY <3>2, <3>3 DEF AnyRace, LogType, Sizes
  <2> HIDE DEF new
  <2>3. lines \in Nat /\ buffer \in Seq(LogLines) /\ \A m \in OnDisk : m \in Nat /\ m <= lines
    BY OnDiskType DEF AnyRace, LogType, FilesInOrder
  <2>4. \A n \in Entries(Waiting) : n \in Nat /\ n <= lines
    BY WaitingType DEF AnyRace, FilesInOrder, Entries
  <2>5. /\ held \in Seq(LogLines) /\ Ascending(Numbers(held))
        /\ \A m \in OnDisk, n \in Entries(Numbers(held)) : m < n
        /\ \A n \in Entries(Numbers(held)) : n <= lines + 1
    <3>1. held \in Seq(LogLines) /\ Len(held) = Len(buffer) + 1 /\ Len(buffer) \in Nat
          /\ \A k \in 1 .. Len(held) : held[k] = IF k <= Len(buffer) THEN buffer[k] ELSE new
      BY <1>1, <2>3
    <3> HIDE DEF held
    <3>2. /\ DOMAIN Numbers(held) = 1 .. Len(held)
          /\ \A k \in 1 .. Len(held) :
               Numbers(held)[k] = IF k <= Len(buffer) THEN Waiting[k] ELSE lines + 1
      BY SMTT(30), <1>1, <3>1, NumbersType, WaitingType DEF AnyRace
    <3>3. \A k \in 1 .. Len(held) : k <= Len(buffer) =>
            /\ k \in DOMAIN Waiting /\ Waiting[k] \in Entries(Waiting)
            /\ Waiting[k] <= lines /\ Waiting[k] \in Nat
      <4>1. DOMAIN Waiting = 1 .. Len(buffer)
        BY WaitingType DEF AnyRace
      <4>2. \A k \in 1 .. Len(buffer) : Waiting[k] \in Entries(Waiting)
        BY <4>1 DEF Entries
      <4> QED BY <2>4, <3>1, <4>1, <4>2
    <3>4. Ascending(Numbers(held))
      <4> SUFFICES ASSUME NEW i \in 1 .. Len(held), NEW j \in 1 .. Len(held), i < j
                   PROVE  Numbers(held)[i] < Numbers(held)[j]
        BY <3>2 DEF Ascending
      <4>1. i <= Len(buffer)
        BY <3>1
      <4>2. CASE j <= Len(buffer)
        BY <3>2, <3>3, <4>1, <4>2 DEF AnyRace, FilesInOrder, Ascending
      <4>3. CASE ~(j <= Len(buffer))
        BY <2>3, <3>2, <3>3, <4>1, <4>3
      <4> QED BY <4>2, <4>3
    <3>5. \A n \in Entries(Numbers(held)) : n = lines + 1 \/ (n \in Entries(Waiting) /\ n <= lines)
      BY <3>2, <3>3 DEF Entries
    <3>6. \A m \in OnDisk, n \in Entries(Numbers(held)) : m < n
      BY <2>3, <3>5 DEF AnyRace, FilesInOrder
    <3>7. \A n \in Entries(Numbers(held)) : n <= lines + 1
      BY <2>3, <2>4, <3>5
    <3> QED BY <3>1, <3>4, <3>6, <3>7
  <2> HIDE DEF held
  <2>6. CASE Usable /\ ring' = Delivered(ring, held) /\ buffer' = <<>>
    <3>1. /\ ring' \in Rings
          /\ \A i \in Slots : File(i)' = DeliversTo(File(i), held, i)
      BY <2>5, <2>6, DeliveredFiles DEF AnyRace
    <3>2. FilesInOrder'
      BY <2>5, <2>6, <3>1, OrderDelivered DEF AnyRace, Moves
    <3>3. stream'.at \in Slots => \A j \in Slots : j < stream'.at => File(j)' = <<>>
      BY <2>2, <3>1, SlotNumbers DEF AnyRace, NothingNewer, DeliversTo
    <3>4. LogType /\ buffer' = <<>> /\ <<>> \in Seq(LogLines) /\ torn' = FALSE
      BY <1>3, <2>6 DEF AnyRace
    <3> HIDE DEF held
    <3> QED BY <2>2, <3>1, <3>2, <3>3, <3>4, MovesTo
  <2>7. CASE Usable /\ ring' = ring /\ buffer' = held
    <3>1. OnDisk' = OnDisk /\ \A i \in Slots : File(i)' = File(i)
      BY <2>7 DEF OnDisk, File
    <3>2. Waiting' = Numbers(held)
      BY <2>7 DEF Waiting
    <3>3. FilesInOrder'
      BY <2>3, <2>5, <3>1, <3>2 DEF AnyRace, FilesInOrder
    <3>4. stream'.at # Closed
      BY <2>2, <2>7 DEF Usable
    <3> QED BY <1>3, <2>2, <2>5, <2>7, <3>1, <3>3, <3>4, MovesTo
          DEF AnyRace, LogType, NothingNewer
  <2>8. CASE ring' = ring /\ buffer' = buffer
    <3>1. \A i \in Slots : File(i)' = File(i)
      BY <2>8 DEF File
    <3>2. FilesInOrder'
      BY <2>8, <3>1, OrderThinned DEF AnyRace, Moves
    <3> QED BY <1>3, <2>2, <2>8, <3>1, <3>2, MovesTo DEF AnyRace, LogType, NothingNewer
  <2> QED BY <2>1, <2>6, <2>7, <2>8
<1> QED BY <1>2, <1>3 DEF Call

LEMMA LogOrder ==
  ASSUME AnyRace, NEW t \in Threads, NEW l \in Levels, Log(t, l)
  PROVE  AnyRace'
<1>1. /\ pc' \in [Threads -> Stages] /\ pc'[t] = "ensure" /\ running
      /\ \A u \in Threads : u # t => pc'[u] = pc[u]
  BY StepTo DEF AnyRace, Log, Stages
<1>2. UNCHANGED <<slot, running, starts, lines, cut>>
  BY DEF Log, procV
<1>3. Moves
  <2>1. level' \in [Threads -> Levels] /\ raced' \in BOOLEAN
    BY DEF AnyRace, LogType, Log
  <2> QED BY <1>1, <1>2, <2>1 DEF AnyRace, LogType, NothingNewer, Moves
<1> QED BY <1>3, SameStreamOrder DEF Log

LEMMA EnsureOrder ==
  ASSUME AnyRace, NEW t \in Threads, Ensure(t)
  PROVE  AnyRace'
<1>1. UNCHANGED <<level, slot, running, lines, raced, cut>> /\ running
  BY DEF Ensure, procV, history
<1>2. Moves
  <2>1. pc' = pc \/ \E to \in {"close", "write"} : pc' = [pc EXCEPT ![t] = to]
    BY DEF Ensure
  <2>2. pc' \in [Threads -> Stages] /\ \A u \in Threads : pc'[u] = "rename" => pc[u] = "rename"
    BY <2>1 DEF AnyRace, LogType, Stages
  <2> QED BY <1>1, <2>2 DEF AnyRace, LogType, NothingNewer, Moves
<1> QED BY <1>2, OpenCallOrder, SameStreamOrder DEF Ensure

LEMMA CloseOrder ==
  ASSUME AnyRace, NEW t \in Threads, Close(t)
  PROVE  AnyRace'
<1>1. UNCHANGED <<level, running, lines, raced, cut>>
  BY DEF Close, procV, history
<1>2. /\ pc' \in [Threads -> Stages] /\ pc'[t] = "remove" /\ running
      /\ \A u \in Threads : u # t => pc'[u] = pc[u]
  BY StepTo DEF AnyRace, Close, Stages, Rotating
<1>3. /\ slot' \in [Threads -> Slots] /\ \A u \in Threads : u # t => slot'[u] = slot[u]
  BY SlotNumbers DEF Close, AnyRace, LogType
<1>4. Moves
  BY <1>1, <1>2, <1>3 DEF AnyRace, LogType, NothingNewer, Moves
<1> QED BY <1>4, CloseCallOrder DEF Close

LEMMA RemoveOrder ==
  ASSUME AnyRace, NEW t \in Threads, RemoveFile(t)
  PROVE  AnyRace'
<1> DEFINE s == slot[t]
<1>1. UNCHANGED <<buffer, torn, size, slot, level, running, lines, raced, cut>> /\ Removed(s)
  BY DEF RemoveFile, procV, history
<1>2. /\ pc' \in [Threads -> Stages] /\ pc'[t] = (IF s = 0 THEN "reopen" ELSE "rename")
      /\ running /\ \A u \in Threads : u # t => pc'[u] = pc[u]
  BY StepTo DEF AnyRace, RemoveFile, Stages, Rotating
<1>3. Moves
  BY <1>1, <1>2 DEF AnyRace, LogType, NothingNewer, Moves
<1>4. s \in Slots
  BY DEF AnyRace, LogType
<1> HIDE DEF s
<1>5. /\ ring' \in Rings /\ stream' \in Streams
      /\ \A i \in Slots : File(i)' = IF i = s THEN <<>> ELSE File(i)
      /\ stream'.at = IF stream.at = s THEN Unlinked ELSE stream.at
  BY <1>1, <1>4, RemovedFiles DEF AnyRace
<1>6. FilesInOrder'
  BY <1>1, <1>5, OrderThinned DEF AnyRace, Moves, LogType
<1>7. stream'.at \in Slots => \A j \in Slots : j < stream'.at => File(j)' = <<>>
  BY <1>5, SlotNumbers DEF AnyRace, NothingNewer
<1>8. /\ stream'.at = Closed => stream.at = Closed
      /\ stream.at = Unlinked => stream'.at = Unlinked
  BY <1>5, SlotNumbers
<1> QED BY <1>1, <1>3, <1>5, <1>6, <1>7, <1>8, MovesTo DEF AnyRace, LogType, NothingNewer

LEMMA RenameOrder ==
  ASSUME AnyRace, NEW t \in Threads, RenameFile(t)
  PROVE  AnyRace'
<1> DEFINE s == slot[t]
<1>1. UNCHANGED <<buffer, torn, size, level, running, lines, raced, cut>> /\ Renamed(s)
  BY DEF RenameFile, procV, history
<1>2. /\ pc' \in [Threads -> Stages] /\ pc'[t] = (IF s = 1 THEN "reopen" ELSE "remove")
      /\ pc[t] = "rename" /\ running /\ \A u \in Threads : u # t => pc'[u] = pc[u]
  BY StepTo DEF AnyRace, RenameFile, Stages, Rotating
<1>3. s \in Slots \ {0} /\ s - 1 \in Slots
  BY <1>2, SlotNumbers DEF AnyRace, NothingNewer, LogType
<1>4. /\ slot' \in [Threads -> Slots] /\ \A u \in Threads : u # t => slot'[u] = slot[u]
  BY <1>3 DEF RenameFile, AnyRace, LogType
<1>5. Moves
  BY <1>1, <1>2, <1>4 DEF AnyRace, LogType, NothingNewer, Moves
<1> HIDE DEF s
<1>6. /\ ring' \in Rings /\ stream' \in Streams
      /\ \/ FilesStay /\ stream' = stream
         \/ /\ \A i \in Slots : File(i)' = IF i = s THEN File(s - 1)
                                           ELSE IF i = s - 1 THEN <<>> ELSE File(i)
            /\ stream'.at = IF stream.at = s THEN Unlinked
                            ELSE IF stream.at = s - 1 THEN s ELSE stream.at
  BY <1>1, <1>3, RenamedFiles DEF AnyRace
<1>7. CASE FilesStay /\ stream' = stream
  <2>1. FilesInOrder'
    BY <1>1, <1>7, OrderThinned DEF AnyRace, FilesStay, LogType
  <2> QED BY <1>1, <1>5, <1>6, <1>7, <2>1, MovesTo
       DEF AnyRace, LogType, NothingNewer, FilesStay
<1>8. CASE /\ \A i \in Slots : File(i)' = IF i = s THEN File(s - 1)
                                          ELSE IF i = s - 1 THEN <<>> ELSE File(i)
           /\ stream'.at = IF stream.at = s THEN Unlinked
                           ELSE IF stream.at = s - 1 THEN s ELSE stream.at
  <2>1. FilesInOrder'
    BY <1>1, <1>3, <1>8, OrderRenamed DEF AnyRace
  <2>2. ASSUME stream'.at \in Slots, NEW j \in Slots, j < stream'.at PROVE File(j)' = <<>>
    <3>1. CASE stream.at = s
      BY <1>8, <2>2, <3>1, SlotNumbers
    <3>2. CASE stream.at = s - 1
      <4>1. stream'.at = s
        BY <1>3, <1>8, <3>2, SlotNumbers
      <4>2. j # s /\ (j = s - 1 \/ j < stream.at)
        BY <1>3, <2>2, <3>2, <4>1, SlotNumbers
      <4>3. j < stream.at => File(j) = <<>>
        BY <1>3, <3>2 DEF AnyRace, NothingNewer
      <4> QED BY <1>8, <4>2, <4>3
    <3>3. CASE stream.at # s /\ stream.at # s - 1
      <4>1. stream.at = stream'.at
        BY <1>8, <3>3
      <4>2. stream.at \in Nat /\ j \in Nat /\ s \in Nat /\ j < stream.at /\ stream.at \in Slots
        BY <1>3, <2>2, <4>1, SlotNumbers
      <4>3. j = s => s - 1 < stream.at
        BY <4>2
      <4>4. \A k \in Slots : k < stream.at => File(k) = <<>>
        BY <4>2 DEF AnyRace, NothingNewer
      <4> QED BY <1>3, <1>8, <4>2, <4>3, <4>4
    <3> QED BY <3>1, <3>2, <3>3
  <2>3. /\ stream'.at = Closed => stream.at = Closed
        /\ stream.at = Unlinked => stream'.at = Unlinked
    BY <1>3, <1>8, SlotNumbers
  <2> QED BY <1>1, <1>5, <1>6, <2>1, <2>2, <2>3, MovesTo DEF AnyRace, LogType, NothingNewer
<1> QED BY <1>6, <1>7, <1>8

LEMMA ReopenOrder ==
  ASSUME AnyRace, NEW t \in Threads, Reopen(t)
  PROVE  AnyRace'
<1>1. UNCHANGED <<level, slot, running, lines, raced, cut>>
  BY DEF Reopen, procV, history
<1>2. /\ pc' \in [Threads -> Stages] /\ pc'[t] = "write" /\ running
      /\ \A u \in Threads : u # t => pc'[u] = pc[u]
  BY StepTo DEF AnyRace, Reopen, Stages
<1>3. Moves
  BY <1>1, <1>2 DEF AnyRace, LogType, NothingNewer, Moves
<1> QED BY <1>3, OpenCallOrder DEF Reopen

LEMMA WriteOrder ==
  ASSUME AnyRace, NEW t \in Threads, Write(t)
  PROVE  AnyRace'
<1>1. UNCHANGED <<level, slot, running, raced, cut>> /\ lines' = lines + 1
  BY DEF Write, procV
<1>2. /\ pc' \in [Threads -> Stages] /\ running
      /\ pc'[t] \in {"idle", "flush"} /\ \A u \in Threads : u # t => pc'[u] = pc[u]
  BY StepTo DEF AnyRace, Write, Stages
<1>3. Moves
  BY <1>1, <1>2 DEF AnyRace, LogType, NothingNewer, Moves
<1> QED BY <1>1, <1>3, InsertCallOrder DEF Write

LEMMA FlushStepOrder ==
  ASSUME AnyRace, NEW t \in Threads, Flush(t)
  PROVE  AnyRace'
<1>1. UNCHANGED <<slot, running, lines, raced, cut>>
  BY DEF Flush, procV, history
<1>2. /\ pc' \in [Threads -> Stages] /\ pc'[t] = "idle" /\ running
      /\ \A u \in Threads : u # t => pc'[u] = pc[u]
  BY StepTo DEF AnyRace, Flush, Stages
<1>3. level' \in [Threads -> Levels]
  BY DEF Flush, AnyRace, LogType, Levels
<1>4. Moves
  BY <1>1, <1>2, <1>3 DEF AnyRace, LogType, NothingNewer, Moves
<1> QED BY <1>4, FlushCallOrder, SameStreamOrder DEF Flush

LEMMA LoadOrder ==
  ASSUME AnyRace, Free, NEW s, NEW r, Load(s, r)
  PROVE  AnyRace'
<1>1. UNCHANGED <<slot, running, lines, cut>> /\ running /\ Call(Main, FlushCall)
  BY DEF Load, Free, procV
<1>2. /\ pc' \in [Threads -> Stages] /\ level' \in [Threads -> Levels]
      /\ \A u \in Threads : pc'[u] = "rename" => pc[u] = "rename"
  <2>1. \/ UNCHANGED <<pc, level>>
        \/ /\ pc' = [pc EXCEPT ![Main] = "ensure"]
           /\ level' = [level EXCEPT ![Main] = "Error"]
    BY DEF Load
  <2> QED BY <2>1 DEF AnyRace, LogType, Threads, Stages, Levels
<1>3. raced' \in BOOLEAN
  BY DEF Load, AnyRace, LogType
<1>4. Moves
  BY <1>1, <1>2, <1>3 DEF AnyRace, LogType, NothingNewer, Moves
<1>5. Main \in Threads
  BY DEF Threads
<1> QED BY <1>1, <1>4, <1>5, FlushCallOrder

LEMMA StartOrder ==
  ASSUME AnyRace, Start
  PROVE  AnyRace'
<1>1. /\ UNCHANGED threadV /\ running' = TRUE /\ ~running /\ torn' = FALSE
      /\ stream' = [at |-> 0, good |-> TRUE] /\ buffer' = <<>>
  BY DEF Start
<1>2. PICK again \in BOOLEAN :
        /\ ring' = [i \in Slots |-> IF again /\ ring[i] # NoFile THEN ring[i]
                                    ELSE IF i = 0 THEN <<>> ELSE NoFile]
        /\ size' = [initial |-> Len(LinesOf(ring'[0])), bytes |-> 0]
        /\ lines' = IF again THEN Greatest(OnDisk \cup {0}) ELSE 0
        /\ cut' = (again /\ cut) /\ raced' = (again /\ raced)
  BY DEF Start
<1>3. \A i \in Slots : File(i)' = IF again THEN File(i) ELSE <<>>
  BY <1>2, NotFiles DEF File
<1>4. ring' \in Rings
  BY <1>2 DEF AnyRace, LogType, Rings
<1>5. size' \in Sizes
  <2>1. File(0) \in Seq(Nat)
    BY FileType, SlotNumbers DEF AnyRace
  <2>2. File(0)' \in Seq(Nat)
    BY <1>3, <2>1, NotFiles, SlotNumbers
  <2>3. LinesOf(ring'[0]) \in Seq(Nat)
    BY <2>2 DEF File
  <2> QED BY <1>2, <2>3 DEF Sizes
<1>6. lines' \in Nat /\ (again => \A n \in OnDisk : n <= lines')
  <2>1. CASE again
    <3> DEFINE S == OnDisk \cup {0}
    <3>1. S # {} /\ S \subseteq 0 .. lines /\ lines' = Greatest(S) /\ lines \in Nat
      BY <1>2, <2>1, OnDiskType DEF AnyRace, FilesInOrder, LogType
    <3> HIDE DEF S
    <3>2. lines' \in S /\ \A n \in S : n <= lines'
      BY <3>1, GreatestExists
    <3> QED BY <3>1, <3>2 DEF S
  <2>2. CASE ~again
    BY <1>2, <2>2
  <2> QED BY <2>1, <2>2
<1>7. LogType'
  <2>1. stream' \in Streams /\ buffer' \in Seq(LogLines)
    BY <1>1, SlotNumbers DEF Streams
  <2>2. cut' \in BOOLEAN /\ running' \in BOOLEAN /\ raced' \in BOOLEAN /\ torn' \in BOOLEAN
    BY <1>1, <1>2 DEF AnyRace, LogType
  <2> QED BY <1>1, <1>4, <1>5, <1>6, <2>1, <2>2 DEF AnyRace, LogType, threadV
<1>8. FilesInOrder'
  <2>1. Entries(Waiting') = {} /\ Ascending(Waiting') /\ Entries(<<>>) = {} /\ Ascending(<<>>)
    BY <1>1, NoNumbers DEF Waiting, Ascending
  <2>2. OnDisk' = IF again THEN OnDisk ELSE {}
    BY <1>3, <2>1 DEF OnDisk, File
  <2> QED BY <1>3, <1>6, <2>1, <2>2 DEF AnyRace, FilesInOrder
<1>9. NothingNewer'
  BY <1>1, SlotNumbers DEF AnyRace, NothingNewer, threadV
<1> QED BY <1>7, <1>8, <1>9 DEF AnyRace

LEMMA EndOrder == AnyRace /\ (Exit \/ Die) => AnyRace'
<1> SUFFICES ASSUME AnyRace, Exit \/ Die PROVE AnyRace'
  OBVIOUS
<1>1. /\ running' = FALSE /\ pc' = [t \in Threads |-> "idle"]
      /\ level' = [t \in Threads |-> "Info"] /\ slot' = [t \in Threads |-> 0]
      /\ stream' = [at |-> Closed, good |-> TRUE] /\ buffer' = <<>> /\ torn' = FALSE
      /\ size' = [initial |-> 0, bytes |-> 0] /\ UNCHANGED <<lines, raced>>
      /\ cut' \in BOOLEAN
  BY DEF Exit, Die, Stopped, AnyRace, LogType
<1>2. ring' \in Rings /\ FilesInOrder'
  <2>1. CASE Spoils \/ ring' = ring
    <3>1. ring' \in Rings /\ \A i \in Slots : File(i)' \in {File(i), <<>>}
      BY <2>1, SpoiledFiles DEF AnyRace, LogType, File
    <3> QED BY <1>1, <3>1, OrderThinned DEF AnyRace, LogType
  <2>2. CASE ring' = Delivered(ring, buffer)
    <3>1. /\ ring' \in Rings /\ \A i \in Slots : File(i)' = DeliversTo(File(i), buffer, i)
      BY <2>2, DeliveredFiles DEF AnyRace, LogType
    <3>2. FilesInOrder'
      BY <1>1, <3>1, OrderDelivered DEF AnyRace, FilesInOrder, LogType, Waiting
    <3> QED BY <3>1, <3>2
  <2> QED BY <2>1, <2>2 DEF Exit, Die
<1>3. /\ pc' \in [Threads -> Stages] /\ level' \in [Threads -> Levels]
      /\ slot' \in [Threads -> Slots]
  BY <1>1, SlotNumbers DEF Stages, Levels
<1>4. stream' \in Streams /\ buffer' \in Seq(LogLines) /\ size' \in Sizes
  BY <1>1 DEF Streams, Sizes
<1>5. LogType'
  BY <1>1, <1>2, <1>3, <1>4 DEF AnyRace, LogType
<1>6. NothingNewer'
  BY <1>1, SlotNumbers DEF NothingNewer
<1> QED BY <1>2, <1>5, <1>6 DEF AnyRace

LEMMA StepOrder == AnyRace /\ [Next]_vars => AnyRace'
<1> SUFFICES ASSUME AnyRace, [Next]_vars PROVE AnyRace'
  OBVIOUS
<1>1. ASSUME NEW t \in Threads, NEW l \in Levels, Log(t, l) PROVE AnyRace'
  BY <1>1, LogOrder
<1>2. ASSUME NEW t \in Threads, LogStep(t) PROVE AnyRace'
  BY <1>2, EnsureOrder, CloseOrder, RemoveOrder, RenameOrder, ReopenOrder, WriteOrder,
     FlushStepOrder DEF LogStep
<1>3. CASE ShowViewer \/ Timeout \/ ReloadPressed
  BY <1>3, LoadOrder DEF ShowViewer, Timeout, ReloadPressed
<1>4. CASE ToggleAuto \/ HideViewer \/ UNCHANGED vars
  <2>1. UNCHANGED <<ring, streamV, threadV, procV, history>>
    BY <1>4 DEF ToggleAuto, HideViewer, vars
  <2>2. UNCHANGED <<ring, stream, buffer, torn, size, pc, level, slot, running, lines, raced, cut>>
    BY <2>1 DEF streamV, threadV, procV, history
  <2>3. FilesInOrder'
    BY <2>2, OrderThinned DEF AnyRace, LogType, File
  <2> QED BY <2>2, <2>3 DEF AnyRace, LogType, NothingNewer, File
<1>5. CASE Start
  BY <1>5, StartOrder
<1>6. CASE Exit \/ Die
  BY <1>6, EndOrder
<1> QED BY <1>1, <1>2, <1>3, <1>4, <1>5, <1>6 DEF Next, Threads, Levels

-----------------------------------------------------------------------------
(* The lines that are not Info lines, step by step. *)

LEMMA UrgentGone ==
  ASSUME ~stream'.good \/ torn' \/ buffer' = <<>>
  PROVE  UrgentWaits'
BY DEF UrgentWaits

LEMMA UrgentKept ==
  ASSUME UrgentWaits, buffer' = buffer, stream'.good => stream.good, ~torn' => ~torn,
         \A t \in Threads : pc[t] = "flush" /\ level[t] # "Info"
           => pc'[t] = "flush" /\ level'[t] # "Info"
  PROVE  UrgentWaits'
BY DEF UrgentWaits

(* A flush leaves nothing, or the stream failed, or there was nothing.      *)
LEMMA UrgentFlushed ==
  ASSUME AnyRace, Flushed, stream'.good => stream.good
  PROVE  UrgentWaits'
<1>1. CASE Usable
  BY <1>1, UrgentGone DEF Flushed
<1>2. CASE ~Usable
  <2>1. buffer' = buffer /\ (stream.good => buffer = <<>>)
    BY <1>2 DEF Flushed, Usable, AnyRace, NothingNewer
  <2> QED BY <2>1, UrgentGone
<1> QED BY <1>1, <1>2

LEMMA UrgentCalls ==
  ASSUME AnyRace, NEW t \in Threads, Call(t, FlushCall) \/ Call(t, CloseCall)
  PROVE  UrgentWaits'
<1>1. CASE torn'
  BY <1>1, UrgentGone
<1>2. CASE ~torn'
  <2>1. FlushCall \/ CloseCall
    BY <1>2 DEF Call
  <2>2. Flushed /\ (stream'.good => stream.good)
    BY <2>1 DEF FlushCall, CloseCall
  <2> QED BY <2>2, UrgentFlushed
<1> QED BY <1>1, <1>2

LEMMA UrgentOpened ==
  ASSUME AnyRace, NEW t \in Threads, Call(t, OpenCurrent)
  PROVE  UrgentWaits'
<1>1. CASE torn'
  BY <1>1, UrgentGone
<1>2. CASE ~torn'
  <2>1. OpenCurrent
    BY <1>2 DEF Call
  <2>2. ~stream'.good \/ buffer' = <<>>
    BY <2>1, OpenedFiles DEF AnyRace, NothingNewer
  <2> QED BY <2>2, UrgentGone
<1> QED BY <1>1, <1>2

LEMMA UrgentWritten ==
  ASSUME AnyRace, UrgentWaits, NEW t \in Threads, Write(t)
  PROVE  UrgentWaits'
<1> DEFINE new == Line(lines + 1, level[t])
<1> DEFINE held == Append(buffer, new)
<1>1. level' = level /\ Call(t, Inserted(new))
  BY DEF Write
<1>2. /\ pc'[t] = (IF level[t] = "Info" THEN "idle" ELSE "flush") /\ pc[t] = "write"
      /\ \A u \in Threads : u # t => pc'[u] = pc[u]
  BY StepTo DEF AnyRace, Write, Stages
<1>3. CASE torn'
  BY <1>3, UrgentGone
<1>4. CASE ~torn'
  <2>1. ~torn /\ Inserted(new)
    BY <1>1, <1>4 DEF Call
  <2>2. stream' = [stream EXCEPT !.good = @ /\ stream.at # Closed]
    BY <2>1 DEF Inserted
  <2>3. stream'.good => Usable
    BY <2>2 DEF AnyRace, LogType, Streams, Usable
  <2>4. CASE ~Usable
    BY <2>3, <2>4, UrgentGone
  <2>5. CASE Usable /\ buffer' = <<>>
    BY <2>5, UrgentGone
  <2>6. CASE Usable /\ buffer' = held
    <3>1. \A k \in DOMAIN buffer : buffer[k].level = "Info" \/
            \E u \in Threads : pc[u] = "flush" /\ level[u] # "Info"
      BY <2>1, <2>6 DEF UrgentWaits, Usable
    <3>2. \A k \in DOMAIN buffer : buffer[k].level = "Info" \/
            \E u \in Threads : pc'[u] = "flush" /\ level'[u] # "Info"
      BY <1>1, <1>2, <3>1
    <3>3. new.level = "Info" \/ (pc'[t] = "flush" /\ level'[t] # "Info")
      BY <1>1, <1>2 DEF Line
    <3> HIDE DEF new
    <3>4. \A k \in DOMAIN held : (k \in DOMAIN buffer /\ held[k] = buffer[k]) \/ held[k] = new
      BY DEF AnyRace, LogType
    <3> HIDE DEF held
    <3>5. \A k \in DOMAIN buffer' : buffer'[k].level = "Info" \/
            \E u \in Threads : pc'[u] = "flush" /\ level'[u] # "Info"
      BY <2>6, <3>2, <3>3, <3>4
    <3> QED BY <3>5 DEF UrgentWaits
  <2> QED BY <2>1, <2>4, <2>5, <2>6 DEF Inserted
<1> QED BY <1>3, <1>4

LEMMA UrgentStays == AnyRace /\ UrgentWaits /\ [Next]_vars => UrgentWaits'
<1> SUFFICES ASSUME AnyRace, UrgentWaits, [Next]_vars PROVE UrgentWaits'
  OBVIOUS
<1>1. ASSUME NEW t \in Threads, NEW l \in Levels, Log(t, l) PROVE UrgentWaits'
  <2>1. UNCHANGED <<stream, buffer, torn>> /\ pc[t] = "idle"
        /\ \A u \in Threads : u # t => pc'[u] = pc[u] /\ level'[u] = level[u]
    BY <1>1 DEF Log, Step, streamV, AnyRace, LogType
  <2> QED BY <2>1, UrgentKept
<1>2. ASSUME NEW t \in Threads, LogStep(t) PROVE UrgentWaits'
  <2>1. CASE Ensure(t)
    <3>1. CASE Call(t, OpenCurrent)
      BY <3>1, UrgentOpened
    <3>2. CASE UNCHANGED <<ring, streamV>>
      <4>1. pc[t] = "ensure" /\ level' = level /\ UNCHANGED <<stream, buffer, torn>>
        BY <2>1, <3>2 DEF Ensure, streamV
      <4>2. pc' = pc \/ \E to \in {"close", "write"} : pc' = [pc EXCEPT ![t] = to]
        BY <2>1 DEF Ensure
      <4>3. \A u \in Threads : pc[u] = "flush" => pc'[u] = "flush"
        BY <4>1, <4>2 DEF AnyRace, LogType
      <4> QED BY <4>1, <4>3, UrgentKept
    <3> QED BY <2>1, <3>1, <3>2 DEF Ensure
  <2>2. CASE Close(t)
    BY <2>2, UrgentCalls DEF Close
  <2>3. CASE RemoveFile(t) \/ RenameFile(t)
    <3>1. pc[t] # "flush" /\ UNCHANGED <<buffer, torn, level>>
          /\ \A u \in Threads : u # t => pc'[u] = pc[u]
      BY <2>3 DEF RemoveFile, RenameFile, Step, AnyRace, LogType
    <3>2. stream'.good = stream.good
      BY <2>3 DEF RemoveFile, RenameFile, Removed, Renamed, AnyRace, LogType, Streams
    <3> QED BY <3>1, <3>2, UrgentKept
  <2>4. CASE Reopen(t)
    BY <2>4, UrgentOpened DEF Reopen
  <2>5. CASE Write(t)
    BY <2>5, UrgentWritten
  <2>6. CASE Flush(t)
    <3>1. CASE level[t] = "Info"
      <4>1. UNCHANGED <<stream, buffer, torn>>
            /\ \A u \in Threads : u # t => pc'[u] = pc[u] /\ level'[u] = level[u]
        BY <2>6, <3>1 DEF Flush, Step, streamV, AnyRace, LogType
      <4> QED BY <3>1, <4>1, UrgentKept
    <3>2. CASE level[t] # "Info"
      BY <2>6, <3>2, UrgentCalls DEF Flush
    <3> QED BY <3>1, <3>2
  <2> QED BY <1>2, <2>1, <2>2, <2>3, <2>4, <2>5, <2>6 DEF LogStep
<1>3. CASE ShowViewer \/ Timeout \/ ReloadPressed
  <2>1. Call(Main, FlushCall) /\ Main \in Threads
    BY <1>3 DEF ShowViewer, Timeout, ReloadPressed, Load, Threads
  <2> QED BY <2>1, UrgentCalls
<1>4. CASE ToggleAuto \/ HideViewer \/ UNCHANGED vars
  <2>1. UNCHANGED <<stream, buffer, torn, pc, level>>
    BY <1>4 DEF ToggleAuto, HideViewer, vars, streamV, threadV
  <2> QED BY <2>1, UrgentKept
<1>5. CASE Start \/ Exit \/ Die
  BY <1>5, UrgentGone DEF Start, Exit, Die, Stopped
<1> QED BY <1>1, <1>2, <1>3, <1>4, <1>5 DEF Next, Threads, Levels

-----------------------------------------------------------------------------
(* Until the threads meet, step by step. *)

LEMMA Rooms ==
  /\ Capacity \in Nat /\ Capacity >= 1 /\ Room(0) = 0
  /\ \A k \in Nat : Room(k) \in Nat /\ Room(k + 1) = Room(k) + Capacity
  /\ \A k \in Nat, l \in Nat : k <= l => Room(k) <= Room(l)
<1>1. Capacity \in Nat /\ Capacity >= 1
  BY LogFilesAssumption
<1>2. ASSUME NEW k \in Nat PROVE Room(k) \in Nat /\ Room(k + 1) = Room(k) + Capacity
  BY <1>1 DEF Room
<1>3. ASSUME NEW k \in Nat, NEW l \in Nat, k <= l PROVE Room(k) <= Room(l)
  <2>1. PICK d \in Nat : l = k + d
    <3>1. l - k \in Nat /\ l = k + (l - k)
      BY <1>3
    <3> QED BY <3>1
  <2>2. l * Capacity = k * Capacity + d * Capacity
    BY <1>1, <2>1
  <2>3. d * Capacity \in Nat /\ k * Capacity \in Nat
    BY <1>1
  <2> QED BY <2>2, <2>3 DEF Room
<1>4. Room(0) = 0
  BY <1>1 DEF Room
<1> QED BY <1>1, <1>2, <1>3, <1>4

LEMMA OtherThread == \A t, u \in Threads : u # t => Other(t) = u
BY DEF Threads, Other

LEMMA FilesAre == \A i \in Slots : Files[i] = File(i) /\ Files'[i] = File(i)'
BY DEF Files

(* A thread on its own moves on. *)
LEMMA OnItsOwn ==
  ASSUME Alone, NEW t \in Threads, pc[t] # "idle", \A u \in Threads : u # t => pc'[u] = pc[u],
         running', stream'.good, stream'.at \in {0, Closed}, ~torn', Clean',
         stream'.at = Closed <=> pc'[t] \in Rotating
  PROVE  Alone' /\ \A u \in Threads : u # t => pc[u] = "idle" /\ pc'[u] = "idle"
<1>1. \A u \in Threads : u # t => pc[u] = "idle" /\ pc'[u] = "idle"
  BY DEF Alone
<1>2. InRotation' <=> pc'[t] \in Rotating
  BY <1>1 DEF InRotation, Rotating
<1> QED BY <1>1, <1>2 DEF Alone

(* What is delivered goes to the current file. *)
LEMMA DeliveredNext ==
  ASSUME LogType, Clean, stream.at = 0, NEW ls \in Seq(LogLines),
         \A i \in Slots : File(i)' = DeliversTo(File(i), ls, i)
  PROVE  /\ Len(File(0)') = Len(File(0)) + Len(ls)
         /\ \A i \in Slots \ {0} : File(i)' = File(i)
         /\ DOMAIN File(0)' = 1 .. Len(File(0)) + Len(ls)
         /\ \A k \in 1 .. Len(File(0)) + Len(ls) :
              File(0)'[k] = IF k <= Len(File(0)) THEN File(0)[k] ELSE ls[k - Len(File(0))].n
<1>1. File(0)' = File(0) \o Numbers(ls) /\ \A i \in Slots \ {0} : File(i)' = File(i)
  BY SlotNumbers DEF DeliversTo, Clean
<1>2. File(0) \in Seq(Nat)
  BY FileType, SlotNumbers
<1> QED BY ZenonT(30), <1>1, <1>2, ConcatNumbers

LEMMA StartsAfterDelivered ==
  ASSUME LogType, Clean, stream.at = 0, NEW ls \in Seq(LogLines),
         \A i \in Slots : File(i)' = DeliversTo(File(i), ls, i),
         NEW h \in Int, StartsAfter(File(0), h),
         \A k \in 1 .. Len(ls) : ls[k].n = h + Len(File(0)) + k
  PROVE  StartsAfter(File(0)', h)
<1>1. DOMAIN File(0) = 1 .. Len(File(0)) /\ Len(File(0)) \in Nat /\ Len(ls) \in Nat
  BY FileType, SlotNumbers
<1> SUFFICES ASSUME NEW k \in 1 .. Len(File(0)) + Len(ls)
             PROVE  File(0)'[k] = h + k
  BY DeliveredNext DEF StartsAfter
<1>2. File(0)'[k] = IF k <= Len(File(0)) THEN File(0)[k] ELSE ls[k - Len(File(0))].n
  BY DeliveredNext
<1>3. CASE k <= Len(File(0))
  BY <1>1, <1>2, <1>3 DEF StartsAfter
<1>4. CASE ~(k <= Len(File(0)))
  <2>1. k - Len(File(0)) \in 1 .. Len(ls)
    BY <1>1, <1>4
  <2>2. ls[k - Len(File(0))].n = h + Len(File(0)) + (k - Len(File(0)))
    BY <2>1
  <2> QED BY <1>1, <1>2, <1>4, <2>2
<1> QED BY <1>3, <1>4

(* The lines the files are settled on. *)
LEMMA SettledMoves ==
  ASSUME NEW h \in Int, Settled(Files, h), 
         StartsAfter(File(0)', h), \A i \in Slots \ {0} : File(i)' = File(i)
  PROVE  Settled(Files', h)
<1>1. \A i \in Slots \ {0} : Files'[i] = Files[i]
  BY FilesAre
<1>2. Files'[0] = File(0)'
  BY FilesAre, SlotNumbers
<1> QED BY <1>1, <1>2 DEF Settled

(* On its own a thread finds no call under way. *)
LEMMA Undisturbed ==
  ASSUME LogInv, ~raced, NEW t \in Threads, \A u \in Threads : u # t => pc[u] = "idle",
         NEW ACTION A, Call(t, A)
  PROVE  A /\ ~torn'
<1>1. PICK u \in Threads : u # t
  BY LogFilesAssumption DEF Threads
<1>2. Other(t) = u /\ pc[u] = "idle"
  BY <1>1, OtherThread
<1>3. ~InCall(Other(t))
  BY <1>2 DEF InCall
<1> QED BY <1>3 DEF Call, LogInv, NotMet, Alone

LEMMA LogApart ==
  ASSUME LogInv, NEW t \in Threads, NEW l \in Levels, Log(t, l), ~raced'
  PROVE  NotMet'
<1>1. /\ pc' \in [Threads -> Stages] /\ pc'[t] = "ensure" /\ pc[t] = "idle" /\ running
      /\ \A u \in Threads : u # t => pc'[u] = pc[u]
  BY StepTo DEF LogInv, AnyRace, Log, Stages
<1>2. UNCHANGED <<ring, stream, buffer, torn, size, slot, running, lines, cut>>
  BY DEF Log, streamV, procV
<1>3. ~raced /\ \A u \in Threads : u # t => pc[u] = "idle"
  BY OtherThread DEF Log
<1>4. NotMet /\ ~InRotation /\ ~InRotation'
  BY <1>1, <1>3 DEF LogInv, InRotation, Rotating
<1>5. Counted' = Counted /\ Files' = Files /\ File(0)' = File(0) /\ FilesStay
  BY <1>2 DEF Counted, Files, File, FilesStay
<1>6. Alone'
  BY <1>1, <1>2, <1>3, <1>4 DEF NotMet, Alone, Clean
<1>7. Sized'
  BY <1>1, <1>2, <1>3, <1>4, <1>5 DEF NotMet, Sized, FilesStay
<1>8. ~cut' => Gapless'
  BY <1>1, <1>2, <1>4, <1>5 DEF NotMet, Gapless, InRotation
<1> QED BY <1>6, <1>7, <1>8 DEF NotMet

LEMMA EnsureApart ==
  ASSUME LogInv, ~raced, NEW t \in Threads, Ensure(t)
  PROVE  NotMet'
<1>1. UNCHANGED <<level, slot, running, lines, cut>> /\ running /\ pc[t] = "ensure"
  BY DEF Ensure, procV, history
<1>2. NotMet /\ \A u \in Threads : u # t => pc[u] = "idle"
  BY <1>1 DEF LogInv, NotMet, Alone
<1>3. ~InRotation /\ stream.at = 0 /\ stream.good
  BY <1>1, <1>2 DEF InRotation, Rotating, NotMet, Alone
<1>4. /\ UNCHANGED <<ring, stream, buffer, torn, size>>
      /\ pc' = [pc EXCEPT ![t] = IF WouldExceed THEN "close" ELSE "write"]
  <2>1. ~torn /\ stream.at # Closed
    BY <1>2, <1>3, SlotNumbers DEF NotMet, Alone
  <2>2. Exceeds = {WouldExceed}
    <3>1. \A u \in Threads : pc[u] \notin {"reopen", "write"}
      BY <1>1, <1>2
    <3> QED BY <2>1, <3>1 DEF Exceeds
  <2> QED BY <2>1, <2>2 DEF Ensure, streamV
<1>5. /\ pc'[t] = (IF WouldExceed THEN "close" ELSE "write")
      /\ \A u \in Threads : u # t => pc'[u] = "idle"
  BY <1>2, <1>4 DEF LogInv, AnyRace, LogType
<1>6. ~InRotation'
  BY <1>5 DEF InRotation, Rotating
<1>7. Counted' = Counted /\ Files' = Files /\ File(0)' = File(0) /\ FilesStay
  BY <1>1, <1>4 DEF Counted, Files, File, FilesStay
<1>8. Alone'
  BY <1>1, <1>2, <1>3, <1>4, <1>5, <1>6, SlotNumbers DEF NotMet, Alone, Clean
<1>9. Sized'
  <2>1. size.initial + size.bytes = Counted /\ Counted <= Capacity
    BY <1>1, <1>2, <1>3 DEF NotMet, Sized
  <2>2. Counted \in Nat /\ Capacity \in Nat
    BY FileType, WaitingType, SlotNumbers, Rooms DEF LogInv, AnyRace, Counted
  <2>3. (WouldExceed => Counted = Capacity) /\ (~WouldExceed => Counted < Capacity)
    <3> DEFINE total == size.initial + size.bytes
    <3>1. WouldExceed <=> total + 1 > Capacity
      BY DEF WouldExceed
    <3> HIDE DEF total
    <3>2. total = Counted
      BY <2>1 DEF total
    <3> QED BY <2>1, <2>2, <3>1, <3>2
  <2>4. \A u \in Threads : /\ pc'[u] = "write" => Counted' < Capacity
                           /\ pc'[u] = "close" => Counted' = Capacity
                           /\ pc'[u] # "reopen"
    BY <1>5, <1>7, <2>3
  <2> QED BY <1>2, <1>4, <1>7, <2>1, <2>4 DEF NotMet, Sized, FilesStay
<1>10. ~cut' => Gapless'
  BY <1>1, <1>2, <1>3, <1>4, <1>5, <1>6, <1>7 DEF NotMet, Gapless, InRotation
<1> QED BY <1>8, <1>9, <1>10 DEF NotMet

LEMMA CloseApart ==
  ASSUME LogInv, ~raced, NEW t \in Threads, Close(t)
  PROVE  NotMet'
<1>1. UNCHANGED <<level, running, lines, cut>>
  BY DEF Close, procV, history
<1>2. /\ pc' \in [Threads -> Stages] /\ pc'[t] = "remove" /\ pc[t] = "close" /\ running
      /\ \A u \in Threads : u # t => pc'[u] = pc[u]
  BY StepTo DEF LogInv, AnyRace, Close, Stages, Rotating
<1>3. NotMet /\ \A u \in Threads : u # t => pc[u] = "idle" /\ pc'[u] = "idle"
  BY <1>2 DEF LogInv, NotMet, Alone
<1>4. ~InRotation /\ stream.at = 0 /\ stream.good
  BY <1>2, <1>3 DEF InRotation, Rotating, NotMet, Alone
<1>5. /\ buffer' = <<>> /\ \A i \in Slots : File(i)' = DeliversTo(File(i), buffer, i)
      /\ buffer \in Seq(LogLines) /\ Clean /\ Clean' /\ ~torn' /\ CloseCall
  <2>1. CloseCall /\ ~torn'
    BY <1>3, Undisturbed DEF Close
  <2>2. Usable /\ Flushed /\ Clean
    BY <1>3, <1>4, <2>1, SlotNumbers DEF CloseCall, Usable, NotMet, Alone
  <2> QED BY <2>1, <2>2, FlushedFiles DEF LogInv, AnyRace, LogType
<1>6. stream' = [stream EXCEPT !.at = Closed] /\ slot'[t] = MaxFiles - 1
  BY <1>4, <1>5 DEF Close, CloseCall, LogInv, AnyRace, LogType
<1>7. stream'.at = Closed /\ stream'.good
  BY <1>4, <1>6 DEF LogInv, AnyRace, LogType, Streams
<1>8. Counted = Capacity /\ \A i \in Slots : Len(File(i)) <= Capacity
  BY <1>2, <1>3, <1>4 DEF NotMet, Sized
<1>9. /\ Len(File(0)') = Counted /\ \A i \in Slots \ {0} : File(i)' = File(i)
  BY <1>4, <1>5, DeliveredNext DEF LogInv, AnyRace, Counted
<1>10. Alone'
  BY <1>1, <1>2, <1>3, <1>5, <1>7, OnItsOwn DEF NotMet, Rotating
<1>11. Sized'
  <2>1. \A i \in Slots : Len(File(i)') <= Capacity
    <3>1. Len(File(0)') <= Capacity
      BY <1>8, <1>9, Rooms
    <3>2. \A i \in Slots \ {0} : Len(File(i)') <= Capacity
      BY <1>8, <1>9
    <3> QED BY <3>1, <3>2
  <2> QED BY <1>2, <1>3, <1>7, <2>1, SlotNumbers DEF Sized
<1>12. ASSUME ~cut' PROVE Gapless'
  <2>1. Gapless
    BY <1>1, <1>3, <1>12 DEF NotMet
  <2> PICK h \in Int : h = lines - Counted
    BY <1>8, Rooms DEF LogInv, AnyRace, LogType
  <2>2. Settled(Files, h) /\ \A k \in DOMAIN buffer : buffer[k].n = lines - Len(buffer) + k
    BY <1>2, <1>4, <2>1 DEF Gapless
  <2>3. h = lines - Capacity /\ lines \in Nat
    BY <1>8 DEF LogInv, AnyRace, LogType
  <2>4. Settled(Files', h)
    <3>1. \A k \in 1 .. Len(buffer) : buffer[k].n = h + Len(File(0)) + k
      <4>1. Len(buffer) \in Nat /\ Len(File(0)) \in Nat /\ DOMAIN buffer = 1 .. Len(buffer)
        BY FileType, WaitingType, SlotNumbers DEF LogInv, AnyRace
      <4> QED BY <2>2, <2>3, <4>1 DEF Counted
    <3>2. StartsAfter(File(0), h)
      BY <2>2, FilesAre, SlotNumbers DEF Settled
    <3>3. StartsAfter(File(0)', h)
      BY <1>4, <1>5, <3>1, <3>2, StartsAfterDelivered DEF LogInv, AnyRace
    <3> QED BY <1>1, <1>9, <2>2, <3>3, SettledMoves
  <2>5. Shifting(Files', lines', MaxFiles - 1, TRUE)
    <3>1. EndsWith(File(0)', lines')
      <4>1. 0 <= h /\ StartsAfter(File(0)', h)
        BY <2>4, FilesAre, SlotNumbers DEF Settled
      <4>2. lines' - Capacity = h
        BY <1>1, <2>3
      <4> QED BY <1>8, <1>9, <4>1, <4>2 DEF EndsWith, StartsAfter
    <3>2. ASSUME NEW i \in Slots \ {0} PROVE EndsWith(Files'[i], lines' - Room(i))
      <4>1. EndsWith(Files'[i], h - Room(i - 1))
        BY <2>4 DEF Settled
      <4>2. h - Room(i - 1) = lines' - Room(i)
        <5>1. i - 1 \in Nat /\ i = (i - 1) + 1
          BY SlotNumbers
        <5>2. Room((i - 1) + 1) = Room(i - 1) + Capacity /\ Room(i - 1) \in Nat
          BY <5>1, Rooms
        <5> QED BY <1>1, <2>3, <5>1, <5>2, Rooms
      <4> QED BY <4>1, <4>2
    <3>3. EndsWith(Files'[0], lines' - Room(0))
      <4>1. Files'[0] = File(0)' /\ lines' - Room(0) = lines'
        BY <1>1, <2>3, FilesAre, SlotNumbers, Rooms
      <4> QED BY <3>1, <4>1
    <3>4. \A i \in Slots : ~(i > MaxFiles - 1)
      BY LogFilesAssumption DEF Slots
    <3> QED BY <3>2, <3>3, <3>4 DEF Shifting
  <2>6. InRotation' /\ running'
    BY <1>1, <1>2 DEF InRotation, Rotating
  <2>7. Oldest(t)' = TRUE
    BY <1>2, <1>6 DEF Oldest
  <2> QED BY <1>2, <1>3, <1>6, <2>5, <2>6, <2>7 DEF Gapless, Rotating
<1> QED BY <1>10, <1>11, <1>12 DEF NotMet

LEMMA RemoveApart ==
  ASSUME LogInv, ~raced, NEW t \in Threads, RemoveFile(t)
  PROVE  NotMet'
<1> DEFINE s == slot[t]
<1>1. UNCHANGED <<buffer, torn, size, slot, level, running, lines, cut>> /\ Removed(s)
  BY DEF RemoveFile, procV, history
<1>2. /\ pc' \in [Threads -> Stages] /\ pc'[t] = (IF s = 0 THEN "reopen" ELSE "rename")
      /\ pc[t] = "remove" /\ running /\ \A u \in Threads : u # t => pc'[u] = pc[u]
  BY StepTo DEF LogInv, AnyRace, RemoveFile, Stages, Rotating
<1>3. NotMet /\ \A u \in Threads : u # t => pc[u] = "idle" /\ pc'[u] = "idle"
  BY <1>2 DEF LogInv, NotMet, Alone
<1>4. InRotation /\ stream.at = Closed /\ stream.good /\ InRotation' /\ Clean /\ ~torn
  BY <1>2, <1>3 DEF InRotation, Rotating, NotMet, Alone
<1>5. s \in Slots /\ slot'[t] = s
  BY <1>1 DEF LogInv, AnyRace, LogType
<1> HIDE DEF s
<1>6. /\ \A i \in Slots : File(i)' = IF i = s THEN <<>> ELSE File(i)
      /\ stream'.at = Closed /\ stream'.good /\ Clean'
  BY <1>1, <1>4, <1>5, RemovedFiles, SlotNumbers DEF LogInv, AnyRace
<1>7. Alone'
  BY <1>1, <1>2, <1>3, <1>4, <1>6, OnItsOwn DEF NotMet, Rotating
<1>8. Sized'
  <2>1. \A i \in Slots : Len(File(i)') <= Capacity
    <3>1. \A i \in Slots : Len(File(i)) <= Capacity
      BY <1>3 DEF NotMet, Sized
    <3>2. Len(<<>>) <= Capacity
      BY Rooms
    <3> QED BY <1>6, <3>1, <3>2
  <2>2. pc'[t] = "reopen" => File(0)' = <<>> /\ slot'[t] = 0
    BY <1>2, <1>5, <1>6, SlotNumbers
  <2> QED BY <1>2, <1>3, <1>6, <2>1, <2>2, SlotNumbers DEF Sized
<1>9. ASSUME ~cut' PROVE Gapless'
  <2>1. Shifting(Files, lines, s, Oldest(t))
    BY <1>1, <1>2, <1>3, <1>9 DEF NotMet, Gapless, Rotating, s
  <2>2. \A i \in Slots : Files'[i] = IF i = s THEN <<>> ELSE Files[i]
    BY <1>6, FilesAre
  <2>3. ASSUME NEW i \in Slots
        PROVE  /\ i < s => EndsWith(Files'[i], lines' - Room(i))
               /\ i = s => Files'[i] = <<>>
               /\ i > s => EndsWith(Files'[i], lines' - Room(i - 1))
    <3>1. i \in Nat /\ s \in Nat
      BY <1>5, SlotNumbers
    <3>2. i < s => Files'[i] = Files[i] /\ EndsWith(Files[i], lines - Room(i))
      BY <2>1, <2>2, <3>1 DEF Shifting
    <3>3. i > s => Files'[i] = Files[i] /\ EndsWith(Files[i], lines - Room(i - 1))
      BY <2>1, <2>2, <3>1 DEF Shifting
    <3> QED BY <1>1, <2>2, <3>2, <3>3
  <2>4. Oldest(t)' = FALSE
    BY <1>2 DEF Oldest
  <2>5. Shifting(Files', lines', s, FALSE)
    BY <2>3 DEF Shifting
  <2> QED BY <1>1, <1>2, <1>3, <1>4, <1>5, <2>4, <2>5 DEF Gapless, Rotating
<1> QED BY <1>7, <1>8, <1>9 DEF NotMet

LEMMA RenameApart ==
  ASSUME LogInv, ~raced, NEW t \in Threads, RenameFile(t)
  PROVE  NotMet'
<1> DEFINE s == slot[t]
<1>1. UNCHANGED <<buffer, torn, size, level, running, lines, cut>> /\ Renamed(s)
  BY DEF RenameFile, procV, history
<1>2. /\ pc' \in [Threads -> Stages] /\ pc'[t] = (IF s = 1 THEN "reopen" ELSE "remove")
      /\ pc[t] = "rename" /\ running /\ \A u \in Threads : u # t => pc'[u] = pc[u]
  BY StepTo DEF LogInv, AnyRace, RenameFile, Stages, Rotating
<1>3. NotMet /\ \A u \in Threads : u # t => pc[u] = "idle" /\ pc'[u] = "idle"
  BY <1>2 DEF LogInv, NotMet, Alone
<1>4. InRotation /\ stream.at = Closed /\ stream.good /\ InRotation' /\ Clean /\ ~torn
  BY <1>2, <1>3 DEF InRotation, Rotating, NotMet, Alone
<1>5. s \in Slots \ {0} /\ s - 1 \in Slots /\ slot'[t] = s - 1
  BY <1>2, SlotNumbers DEF LogInv, AnyRace, LogType, NothingNewer, RenameFile
<1> HIDE DEF s
<1>6. /\ stream'.at = Closed /\ stream'.good /\ Clean'
      /\ \/ FilesStay /\ File(s - 1) = <<>>
         \/ \A i \in Slots : File(i)' = IF i = s THEN File(s - 1)
                                        ELSE IF i = s - 1 THEN <<>> ELSE File(i)
  BY <1>1, <1>4, <1>5, RenamedFiles, SlotNumbers DEF LogInv, AnyRace
<1>7. /\ \A i \in Slots : i = s - 1 => File(i)' = <<>>
      /\ \A i \in Slots : File(i)' \in {<<>>, File(i), File(s - 1)}
      /\ \A i \in Slots \ {s, s - 1} : File(i)' = File(i)
  <2>1. s - 1 # s
    BY <1>5, SlotNumbers
  <2>2. CASE FilesStay /\ File(s - 1) = <<>>
    BY <1>5, <2>2 DEF FilesStay
  <2>3. CASE \A i \in Slots : File(i)' = IF i = s THEN File(s - 1)
                                         ELSE IF i = s - 1 THEN <<>> ELSE File(i)
    BY <1>5, <2>1, <2>3
  <2> QED BY <1>6, <2>2, <2>3
<1>8. Alone'
  BY <1>1, <1>2, <1>3, <1>4, <1>6, OnItsOwn DEF NotMet, Rotating
<1>9. Sized'
  <2>1. \A i \in Slots : Len(File(i)') <= Capacity
    <3>1. \A i \in Slots : Len(File(i)) <= Capacity
      BY <1>3 DEF NotMet, Sized
    <3>2. Len(<<>>) <= Capacity
      BY Rooms
    <3> SUFFICES ASSUME NEW i \in Slots PROVE Len(File(i)') <= Capacity
      OBVIOUS
    <3>3. File(i)' = <<>> \/ File(i)' = File(i) \/ File(i)' = File(s - 1)
      BY <1>7
    <3> QED BY <1>5, <3>1, <3>2, <3>3
  <2>2. pc'[t] = "reopen" => File(0)' = <<>> /\ slot'[t] = 0
    <3>1. pc'[t] = "reopen" => s = 1 /\ s - 1 = 0
      BY <1>2
    <3> QED BY <1>5, <1>7, <3>1
  <2> QED BY <1>2, <1>3, <1>6, <2>1, <2>2, SlotNumbers DEF Sized
<1>10. ASSUME ~cut' PROVE Gapless'
  <2>1. Shifting(Files, lines, s, FALSE)
    <3>1. Oldest(t) = FALSE
      BY <1>2 DEF Oldest
    <3> QED BY <1>1, <1>2, <1>3, <1>10, <3>1 DEF NotMet, Gapless, Rotating, s
  <2>2. Files'[s] = Files[s - 1] /\ Files[s] = <<>>
    <3>1. Files[s] = <<>>
      BY <1>5, <2>1 DEF Shifting
    <3> QED BY <1>5, <1>6, <3>1, FilesAre DEF FilesStay
  <2>3. ASSUME NEW i \in Slots
        PROVE  /\ i < s - 1 => EndsWith(Files'[i], lines' - Room(i))
               /\ i = s - 1 => Files'[i] = <<>>
               /\ i > s - 1 => EndsWith(Files'[i], lines' - Room(i - 1))
    <3>1. i \in Nat /\ s \in Nat
      BY <1>5, SlotNumbers
    <3>2. CASE i < s - 1
      <4>1. Files'[i] = Files[i] /\ i < s
        BY <1>7, <3>1, <3>2, FilesAre
      <4> QED BY <1>1, <2>1, <3>1, <3>2, <4>1 DEF Shifting
    <3>3. CASE i = s - 1
      <4>1. Files'[s - 1] = <<>>
        BY <1>5, <1>7, FilesAre
      <4> QED BY <3>1, <3>3, <4>1
    <3>4. CASE i = s
      <4>1. EndsWith(Files[s - 1], lines - Room(s - 1))
        <5>1. s - 1 < s
          BY <3>1
        <5> QED BY <1>5, <2>1, <5>1 DEF Shifting
      <4> QED BY <1>1, <2>2, <3>1, <3>4, <4>1
    <3>5. CASE i > s
      <4>1. Files'[i] = Files[i]
        BY <1>7, <3>1, <3>5, FilesAre
      <4> QED BY <1>1, <2>1, <3>1, <3>5, <4>1 DEF Shifting
    <3> QED BY <3>1, <3>2, <3>3, <3>4, <3>5
  <2>4. Oldest(t)' = FALSE
    <3>1. s - 1 # MaxFiles - 1
      BY <1>5, LogFilesAssumption DEF Slots
    <3> QED BY <1>5, <3>1 DEF Oldest
  <2>5. Shifting(Files', lines', s - 1, FALSE)
    BY <2>3 DEF Shifting
  <2> QED BY <1>1, <1>2, <1>3, <1>4, <1>5, <2>4, <2>5 DEF Gapless, Rotating
<1> QED BY <1>8, <1>9, <1>10 DEF NotMet

LEMMA ReopenApart ==
  ASSUME LogInv, ~raced, NEW t \in Threads, Reopen(t)
  PROVE  NotMet'
<1>1. UNCHANGED <<level, slot, running, lines, cut>>
  BY DEF Reopen, procV, history
<1>2. /\ pc' \in [Threads -> Stages] /\ pc'[t] = "write" /\ pc[t] = "reopen" /\ running
      /\ \A u \in Threads : u # t => pc'[u] = pc[u]
  BY StepTo DEF LogInv, AnyRace, Reopen, Stages
<1>3. NotMet /\ \A u \in Threads : u # t => pc[u] = "idle" /\ pc'[u] = "idle"
  BY <1>2 DEF LogInv, NotMet, Alone
<1>4. stream.at = Closed /\ stream.good /\ buffer = <<>> /\ Clean
  BY <1>2, <1>3 DEF InRotation, Rotating, NotMet, Alone, LogInv, AnyRace, NothingNewer
<1>5. /\ FilesStay /\ size' = [initial |-> Len(File(0)), bytes |-> 0] /\ buffer' = buffer
      /\ stream' = [at |-> 0, good |-> TRUE] /\ Clean' /\ ~torn'
  <2>1. OpenCurrent /\ ~torn'
    BY <1>3, Undisturbed DEF Reopen
  <2> QED BY <1>4, <2>1, OpenedFiles DEF LogInv, AnyRace
<1>6. File(0) = <<>> /\ slot[t] = 0 /\ \A i \in Slots : Len(File(i)) <= Capacity
  BY <1>2, <1>3 DEF NotMet, Sized
<1>7. File(0)' = <<>> /\ Files' = Files
  BY <1>5, <1>6, SlotNumbers DEF FilesStay, Files
<1>8. Counted' = 0
  BY <1>4, <1>5, <1>7 DEF Counted
<1>9. Alone'
  BY <1>1, <1>2, <1>3, <1>5, OnItsOwn, SlotNumbers DEF NotMet, Rotating
<1>10. Sized'
  <2>1. size'.initial + size'.bytes = 0
    <3>1. Len(File(0)) = 0
      BY <1>6
    <3>2. size'.initial = Len(File(0)) /\ size'.bytes = 0
      BY <1>5
    <3> QED BY <3>1, <3>2
  <2>2. Counted' < Capacity /\ Counted' <= Capacity
    BY <1>8, Rooms
  <2>3. \A i \in Slots : Len(File(i)') <= Capacity
    BY <1>5, <1>6 DEF FilesStay
  <2>4. \A u \in Threads : pc'[u] \notin {"close", "reopen"}
    BY <1>2, <1>3
  <2> QED BY <1>8, <2>1, <2>2, <2>3, <2>4 DEF Sized
<1>11. ASSUME ~cut' PROVE Gapless'
  <2>1. Shifting(Files, lines, 0, FALSE)
    <3>1. Oldest(t) = FALSE
      BY <1>2 DEF Oldest
    <3> QED BY <1>1, <1>2, <1>3, <1>6, <1>11, <3>1 DEF NotMet, Gapless, Rotating
  <2>2. \A i \in Slots \ {0} : EndsWith(Files[i], lines - Room(i - 1))
    <3>1. \A i \in Slots \ {0} : i > 0
      BY SlotNumbers
    <3> QED BY <2>1, <3>1 DEF Shifting
  <2>3. lines' - Counted' = lines
    BY <1>1, <1>8 DEF LogInv, AnyRace, LogType
  <2>4. 0 <= lines
    BY DEF LogInv, AnyRace, LogType
  <2>5. Settled(Files', lines' - Counted')
    <3>1. StartsAfter(Files'[0], lines)
      BY <1>7, FilesAre, SlotNumbers DEF StartsAfter
    <3> QED BY <1>1, <1>7, <2>2, <2>3, <2>4, <3>1 DEF Settled
  <2>6. ~InRotation' /\ running'
    BY <1>1, <1>2, <1>3 DEF InRotation, Rotating
  <2> QED BY <1>4, <1>5, <2>5, <2>6 DEF Gapless, InRotation
<1> QED BY <1>9, <1>10, <1>11 DEF NotMet

(* What the stream holds back is delivered. *)
LEMMA FlushedApart ==
  ASSUME LogInv, ~raced, running, stream.at = 0, Flushed, UNCHANGED <<lines, cut>>
  PROVE  /\ buffer' = <<>> /\ Counted' = Counted
         /\ \A i \in Slots : Len(File(i)') <= Capacity
         /\ ~cut => Settled(Files', lines - Counted)
         /\ Clean'
<1>1. NotMet /\ stream.good /\ ~InRotation /\ Clean /\ Usable
  BY SlotNumbers DEF LogInv, NotMet, Alone, Usable
<1>2. /\ buffer' = <<>> /\ \A i \in Slots : File(i)' = DeliversTo(File(i), buffer, i)
      /\ buffer \in Seq(LogLines) /\ Clean'
  BY <1>1, FlushedFiles, SlotNumbers DEF LogInv, AnyRace, LogType
<1>3. /\ Len(File(0)') = Counted /\ \A i \in Slots \ {0} : File(i)' = File(i)
      /\ Counted \in Nat
  BY <1>1, <1>2, DeliveredNext, FileType, WaitingType, SlotNumbers DEF LogInv, AnyRace, Counted
<1>4. Counted' = Counted
  BY <1>2, <1>3 DEF Counted
<1>5. \A i \in Slots : Len(File(i)') <= Capacity
  <2>1. Counted <= Capacity /\ \A i \in Slots : Len(File(i)) <= Capacity
    BY <1>1 DEF NotMet, Sized
  <2>2. Len(File(0)') <= Capacity
    BY <1>3, <2>1
  <2>3. \A i \in Slots \ {0} : Len(File(i)') <= Capacity
    BY <1>3, <2>1
  <2> QED BY <2>2, <2>3
<1>6. ASSUME ~cut PROVE Settled(Files', lines - Counted)
  <2> PICK h \in Int : h = lines - Counted
    BY <1>3 DEF LogInv, AnyRace, LogType
  <2>1. Settled(Files, h) /\ \A k \in DOMAIN buffer : buffer[k].n = lines - Len(buffer) + k
    BY <1>1, <1>6 DEF NotMet, Gapless
  <2>2. StartsAfter(File(0), h)
    BY <2>1, FilesAre, SlotNumbers DEF Settled
  <2>3. \A k \in 1 .. Len(buffer) : buffer[k].n = h + Len(File(0)) + k
    <3>1. Len(buffer) \in Nat /\ Len(File(0)) \in Nat /\ DOMAIN buffer = 1 .. Len(buffer)
          /\ lines \in Nat
      BY FileType, WaitingType, SlotNumbers DEF LogInv, AnyRace, LogType
    <3> QED BY <2>1, <3>1 DEF Counted
  <2>4. StartsAfter(File(0)', h)
    BY <1>1, <1>2, <2>2, <2>3, StartsAfterDelivered DEF LogInv, AnyRace
  <2> QED BY <1>3, <2>1, <2>4, SettledMoves
<1> QED BY <1>2, <1>4, <1>5, <1>6

LEMMA FlushApart ==
  ASSUME LogInv, ~raced, NEW t \in Threads, Flush(t)
  PROVE  NotMet'
<1>1. UNCHANGED <<slot, running, lines, cut>>
  BY DEF Flush, procV, history
<1>2. /\ pc' \in [Threads -> Stages] /\ pc'[t] = "idle" /\ pc[t] = "flush" /\ running
      /\ \A u \in Threads : u # t => pc'[u] = pc[u]
  BY StepTo DEF LogInv, AnyRace, Flush, Stages
<1>3. NotMet /\ \A u \in Threads : u # t => pc[u] = "idle" /\ pc'[u] = "idle"
  BY <1>2 DEF LogInv, NotMet, Alone
<1>4. ~InRotation /\ stream.at = 0 /\ stream.good /\ ~InRotation' /\ Clean /\ ~torn
  BY <1>2, <1>3 DEF InRotation, Rotating, NotMet, Alone
<1>5. /\ UNCHANGED <<stream, size>> /\ ~torn'
      /\ IF level[t] = "Info" THEN UNCHANGED <<ring, buffer>> ELSE Flushed
  <2>1. level[t] # "Info" => FlushCall /\ ~torn'
    BY <1>3, Undisturbed DEF Flush
  <2> QED BY <1>4, <2>1 DEF Flush, FlushCall, streamV
<1>6. /\ Counted' = Counted /\ \A i \in Slots : Len(File(i)') <= Capacity /\ Clean'
      /\ ~cut => /\ Settled(Files', lines - Counted)
                 /\ \A k \in DOMAIN buffer' : buffer'[k].n = lines - Len(buffer') + k
  <2>1. CASE level[t] = "Info"
    <3>1. Counted' = Counted /\ Files' = Files /\ buffer' = buffer /\ FilesStay /\ Clean'
      BY <1>4, <1>5, <2>1 DEF Counted, Files, File, FilesStay, Clean
    <3> QED BY <1>1, <1>2, <1>3, <1>4, <3>1 DEF NotMet, Sized, Gapless, FilesStay
  <2>2. CASE level[t] # "Info"
    BY <1>1, <1>2, <1>4, <1>5, <2>2, FlushedApart
  <2> QED BY <2>1, <2>2
<1>7. Alone'
  BY <1>1, <1>2, <1>3, <1>4, <1>5, <1>6, OnItsOwn, SlotNumbers DEF NotMet, Rotating
<1>8. Sized'
  BY <1>1, <1>2, <1>3, <1>4, <1>5, <1>6 DEF NotMet, Sized
<1>9. ~cut' => Gapless'
  BY <1>1, <1>2, <1>4, <1>6 DEF Gapless, InRotation
<1> QED BY <1>7, <1>8, <1>9 DEF NotMet

LEMMA LoadApart ==
  ASSUME LogInv, Free, NEW s, NEW r, Load(s, r), ~raced'
  PROVE  NotMet'
<1>1. UNCHANGED <<slot, running, lines, cut>> /\ running /\ pc[Main] = "idle"
  BY DEF Load, Free, procV
<1>2. ~raced /\ \A u \in Threads : pc[u] = "idle"
  BY <1>1 DEF Load, Threads
<1>3. /\ \A u \in Threads \ {Main} : pc'[u] = "idle"
      /\ pc'[Main] \in {"idle", "ensure"}
  <2>1. pc' = pc \/ pc' = [pc EXCEPT ![Main] = "ensure"]
    BY DEF Load
  <2> QED BY <1>2, <2>1 DEF LogInv, AnyRace, LogType, Threads
<1>4. ~InRotation /\ ~InRotation' /\ NotMet
  BY <1>2, <1>3 DEF InRotation, Rotating, LogInv
<1>5. /\ stream.at = 0 /\ UNCHANGED <<stream, size>> /\ Flushed /\ ~torn'
  <2>1. FlushCall /\ ~torn'
    <3>1. Call(Main, FlushCall) /\ Main \in Threads
      BY DEF Load, Threads
    <3> QED BY <1>2, <3>1, Undisturbed
  <2> QED BY <1>1, <1>4, <2>1 DEF NotMet, Alone, FlushCall
<1>6. /\ buffer' = <<>> /\ Counted' = Counted
      /\ \A i \in Slots : Len(File(i)') <= Capacity
      /\ (~cut => Settled(Files', lines - Counted)) /\ Clean'
  BY <1>1, <1>2, <1>5, FlushedApart
<1>7. Alone'
  BY <1>1, <1>3, <1>4, <1>5, <1>6, SlotNumbers DEF NotMet, Alone
<1>8. Sized'
  BY <1>1, <1>3, <1>4, <1>5, <1>6 DEF NotMet, Sized
<1>9. ~cut' => Gapless'
  BY <1>1, <1>4, <1>6 DEF Gapless, InRotation
<1> QED BY <1>7, <1>8, <1>9 DEF NotMet

LEMMA WriteApart ==
  ASSUME LogInv, ~raced, NEW t \in Threads, Write(t)
  PROVE  NotMet'
<1>1. UNCHANGED <<level, slot, running, cut>> /\ lines' = lines + 1
  BY DEF Write, procV
<1>2. /\ pc' \in [Threads -> Stages] /\ pc'[t] = (IF level[t] = "Info" THEN "idle" ELSE "flush")
      /\ pc[t] = "write" /\ running /\ \A u \in Threads : u # t => pc'[u] = pc[u]
  BY StepTo DEF LogInv, AnyRace, Write, Stages
<1>3. NotMet /\ \A u \in Threads : u # t => pc[u] = "idle" /\ pc'[u] = "idle"
  BY <1>2 DEF LogInv, NotMet, Alone
<1>4. ~InRotation /\ stream.at = 0 /\ stream.good /\ ~InRotation' /\ Clean
  BY <1>2, <1>3 DEF InRotation, Rotating, NotMet, Alone
<1> DEFINE new == Line(lines + 1, level[t])
<1> DEFINE held == Append(buffer, new)
<1>5. new \in LogLines /\ new.n = lines + 1 /\ new.level = level[t]
  BY DEF LogInv, AnyRace, LogType, LogLines, Line
<1>6. /\ \/ ring' = Delivered(ring, held) /\ buffer' = <<>>
         \/ ring' = ring /\ buffer' = held
      /\ size' = [size EXCEPT !.bytes = @ + 1]
      /\ stream' = [stream EXCEPT !.good = @ /\ stream.at # Closed] /\ ~torn'
  <2>1. Inserted(new) /\ ~torn'
    BY <1>3, Undisturbed DEF Write
  <2> QED BY <1>4, <2>1, SlotNumbers DEF Inserted, Usable
<1>7. stream'.at = 0 /\ stream'.good /\ size'.initial + size'.bytes = size.initial + size.bytes + 1
  <2>1. stream'.at = 0 /\ stream'.good
    BY <1>4, <1>6, SlotNumbers DEF LogInv, AnyRace, LogType, Streams
  <2>2. size'.initial + size'.bytes = size.initial + size.bytes + 1
    BY <1>6 DEF LogInv, AnyRace, LogType, Sizes
  <2> QED BY <2>1, <2>2
<1> HIDE DEF new
<1>8. /\ held \in Seq(LogLines) /\ Len(held) = Len(buffer) + 1 /\ Len(buffer) \in Nat
      /\ DOMAIN held = 1 .. Len(buffer) + 1 /\ DOMAIN buffer = 1 .. Len(buffer)
      /\ \A k \in 1 .. Len(buffer) + 1 : held[k] = IF k <= Len(buffer) THEN buffer[k] ELSE new
  BY <1>5 DEF LogInv, AnyRace, LogType
<1> HIDE DEF held
<1>9. /\ Counted < Capacity /\ size.initial + size.bytes = Counted /\ Counted \in Nat
      /\ Len(File(0)) \in Nat /\ lines \in Nat
  BY <1>2, <1>3, <1>4, FileType, WaitingType, SlotNumbers
     DEF NotMet, Sized, LogInv, AnyRace, Counted, LogType
<1>10. Counted' = Counted + 1 /\ (\A i \in Slots \ {0} : File(i)' = File(i)) /\ Clean'
  <2>1. CASE ring' = Delivered(ring, held) /\ buffer' = <<>>
    <3>1. Clean' /\ \A i \in Slots : File(i)' = DeliversTo(File(i), held, i)
      BY <1>4, <1>8, <2>1, DeliveredFiles DEF LogInv, AnyRace
    <3>2. Len(File(0)') = Len(File(0)) + Len(held) /\ \A i \in Slots \ {0} : File(i)' = File(i)
      BY <1>4, <1>8, <3>1, DeliveredNext DEF LogInv, AnyRace
    <3>3. Len(buffer') = 0
      BY <2>1
    <3> QED BY <1>8, <1>9, <3>1, <3>2, <3>3 DEF Counted
  <2>2. CASE ring' = ring /\ buffer' = held
    BY <1>4, <1>8, <1>9, <2>2 DEF Counted, File, Clean
  <2> QED BY <1>6, <2>1, <2>2
<1>11. Alone'
  BY <1>1, <1>2, <1>3, <1>6, <1>7, <1>10, OnItsOwn, SlotNumbers DEF NotMet, Rotating
<1>12. Sized'
  <2>1. \A i \in Slots \ {0} : Len(File(i)') <= Capacity
    BY <1>3, <1>10 DEF NotMet, Sized
  <2>2. Counted' <= Capacity /\ size'.initial + size'.bytes = Counted'
    BY <1>7, <1>9, <1>10, Rooms
  <2>3. Len(File(0)') <= Counted' /\ Len(File(0)') \in Nat
    <3>1. AnyRace'
      BY WriteOrder DEF LogInv
    <3>2. Len(File(0)') \in Nat /\ Len(buffer') \in Nat
      <4>1. LogType'
        BY <3>1 DEF AnyRace
      <4>2. \A i \in Slots : ring'[i] \in Seq(Nat) \cup {NoFile, Garbled}
        BY <4>1 DEF LogType, Rings
      <4>3. File(0)' \in Seq(Nat)
        BY <4>2, NotFiles, SlotNumbers DEF File
      <4>4. buffer' \in Seq(LogLines)
        BY <4>1 DEF LogType
      <4> QED BY <4>3, <4>4
    <3> QED BY <3>2 DEF Counted
  <2>4. \A i \in Slots : Len(File(i)') <= Capacity
    <3>1. Len(File(0)') <= Capacity
      BY <1>9, <1>10, <2>2, <2>3, Rooms
    <3> QED BY <2>1, <3>1
  <2>5. \A u \in Threads : pc'[u] \notin {"write", "close", "reopen"}
    BY <1>2, <1>3
  <2> QED BY <2>2, <2>4, <2>5 DEF Sized
<1>13. ASSUME ~cut' PROVE Gapless'
  <2> PICK h \in Int : h = lines - Counted
    BY <1>9
  <2>1. Settled(Files, h) /\ \A k \in DOMAIN buffer : buffer[k].n = lines - Len(buffer) + k
    BY <1>1, <1>2, <1>3, <1>4, <1>13 DEF NotMet, Gapless
  <2>2. h = lines' - Counted'
    BY <1>1, <1>9, <1>10
  <2>3. StartsAfter(File(0), h)
    BY <2>1, FilesAre, SlotNumbers DEF Settled
  <2>4. \A k \in 1 .. Len(held) : held[k].n = lines - Len(buffer) + k
    <3> SUFFICES ASSUME NEW k \in 1 .. Len(buffer) + 1 PROVE held[k].n = lines - Len(buffer) + k
      BY <1>8
    <3>1. CASE k <= Len(buffer)
      BY <1>8, <2>1, <3>1
    <3>2. CASE ~(k <= Len(buffer))
      <4>1. k = Len(buffer) + 1 /\ held[k] = new
        BY <1>8, <3>2
      <4> QED BY <1>5, <1>8, <1>9, <4>1
    <3> QED BY <3>1, <3>2
  <2>5. lines - Len(buffer) = h + Len(File(0))
    BY <1>8, <1>9 DEF Counted
  <2>6. CASE ring' = Delivered(ring, held) /\ buffer' = <<>>
    <3>1. \A i \in Slots : File(i)' = DeliversTo(File(i), held, i)
      BY <1>8, <2>6, DeliveredFiles DEF LogInv, AnyRace
    <3>2. StartsAfter(File(0)', h)
      BY <1>4, <1>8, <2>3, <2>4, <2>5, <3>1, StartsAfterDelivered DEF LogInv, AnyRace
    <3>3. Settled(Files', h)
      BY <1>1, <1>10, <2>1, <3>2, SettledMoves
    <3> QED BY <1>1, <1>2, <1>4, <2>2, <2>6, <3>3 DEF Gapless, InRotation
  <2>7. CASE ring' = ring /\ buffer' = held
    <3>1. Settled(Files', h)
      BY <1>1, <2>1, <2>7 DEF Files, File
    <3>2. \A k \in DOMAIN buffer' : buffer'[k].n = lines' - Len(buffer') + k
      <4>1. \A k \in 1 .. Len(buffer) + 1 : lines' - Len(buffer') + k = lines - Len(buffer) + k
        BY <1>1, <1>8, <1>9, <2>7
      <4> QED BY <1>8, <2>4, <2>7, <4>1
    <3> QED BY <1>1, <1>2, <1>4, <2>2, <3>1, <3>2 DEF Gapless, InRotation
  <2> QED BY <1>6, <2>6, <2>7
<1> QED BY <1>11, <1>12, <1>13 DEF NotMet

(* A start takes up the count where the files end. *)
LEMMA TakenUp ==
  ASSUME AnyRace, NEW h \in 0 .. lines, Settled(Files, h)
  PROVE  \E e \in Nat : Settled(Files, e) /\ Greatest(OnDisk \cup {0}) = e + Len(File(0))
<1> DEFINE S == OnDisk \cup {0}
<1>1. /\ lines \in Nat /\ h \in Nat /\ 0 <= h /\ Len(File(0)) \in Nat
      /\ DOMAIN File(0) = 1 .. Len(File(0))
  BY FileType, SlotNumbers DEF AnyRace, LogType
<1>2. StartsAfter(File(0), h)
  BY FilesAre, SlotNumbers DEF Settled
<1>3. \A n \in S : n <= h + Len(File(0))
  <2>1. ASSUME NEW i \in Slots, NEW k \in DOMAIN File(i) PROVE File(i)[k] <= h + Len(File(0))
    <3>1. CASE i = 0
      BY <1>1, <1>2, <2>1, <3>1 DEF StartsAfter
    <3>2. CASE i # 0
      <4>1. EndsWith(File(i), h - Room(i - 1)) /\ Room(i - 1) \in Nat
        BY <3>2, FilesAre, SlotNumbers, Rooms DEF Settled
      <4>2. k \in 1 .. Len(File(i)) /\ File(i) # <<>>
        BY <2>1, FileType DEF AnyRace
      <4>3. Len(File(i)) = Capacity /\ File(i)[k] = (h - Room(i - 1)) - Capacity + k
        BY <2>1, <4>1, <4>2 DEF EndsWith
      <4>4. k \in 1 .. Capacity
        BY <4>2, <4>3
      <4>5. \A x \in Nat, c \in Nat, l \in Nat : k \in 1 .. c => (h - x) - c + k <= h + l
        BY <1>1
      <4>6. Capacity \in Nat
        BY Rooms
      <4> QED BY <1>1, <4>1, <4>3, <4>4, <4>5, <4>6
    <3> QED BY <3>1, <3>2
  <2> QED BY <1>1, <2>1 DEF OnDisk, Entries, File
<1>4. PICK e \in Nat : /\ Settled(Files, e) /\ e + Len(File(0)) \in S
                        /\ \A n \in S : n <= e + Len(File(0))
  <2>1. CASE Len(File(0)) > 0
    <3>1. File(0)[Len(File(0))] = h + Len(File(0)) /\ Len(File(0)) \in DOMAIN File(0)
      BY <1>1, <1>2, <2>1 DEF StartsAfter
    <3>2. h + Len(File(0)) \in Entries(File(0))
      BY <3>1 DEF Entries
    <3>3. h + Len(File(0)) \in S
      BY <3>2, SlotNumbers DEF OnDisk, File
    <3> QED BY <1>1, <1>3, <3>3
  <2>2. CASE Len(File(0)) = 0 /\ h = 0
    BY <1>1, <1>3, <2>2
  <2>3. CASE Len(File(0)) = 0 /\ h # 0 /\ MaxFiles > 1
    <3>1. 1 \in Slots \ {0}
      BY <2>3, LogFilesAssumption DEF Slots
    <3>2. EndsWith(File(1), h)
      <4>1. EndsWith(Files[1], h - Room(1 - 1)) /\ Files[1] = File(1)
        BY <3>1, FilesAre DEF Settled
      <4>2. h - Room(1 - 1) = h
        BY <1>1, Rooms
      <4> QED BY <4>1, <4>2
    <3>3. Len(File(1)) = Capacity /\ \A k \in DOMAIN File(1) : File(1)[k] = h - Capacity + k
      BY <1>1, <2>3, <3>2 DEF EndsWith
    <3>4. Capacity \in DOMAIN File(1) /\ File(1)[Capacity] = h
      <4>1. DOMAIN File(1) = 1 .. Capacity
        BY <3>1, <3>3, FileType DEF AnyRace
      <4>2. Capacity \in 1 .. Capacity
        BY Rooms
      <4>3. Capacity \in DOMAIN File(1)
        BY <4>1, <4>2
      <4>4. File(1)[Capacity] = h - Capacity + Capacity
        BY <3>3, <4>3
      <4> QED BY <1>1, <4>3, <4>4, Rooms
    <3>5. h \in Entries(File(1))
      BY <3>4 DEF Entries
    <3>6. h + Len(File(0)) \in S
      BY <1>1, <2>3, <3>1, <3>5 DEF OnDisk, File
    <3> QED BY <1>1, <1>3, <3>6
  <2>4. CASE Len(File(0)) = 0 /\ ~(MaxFiles > 1)
    <3>1. \A i \in Slots : i = 0
      BY <2>4, LogFilesAssumption DEF Slots
    <3>2. File(0) = <<>>
      BY <2>4, FileType, SlotNumbers, EmptySeq DEF AnyRace
    <3>3. S = {0}
      <4>1. \A i \in Slots : Entries(LinesOf(ring[i])) = {}
        BY <3>1, <3>2, NoNumbers DEF File
      <4> QED BY <4>1 DEF OnDisk
    <3>4. Settled(Files, 0)
      BY <3>1, <3>2, FilesAre, SlotNumbers DEF Settled, StartsAfter
    <3>5. 0 + Len(File(0)) = 0
      BY <2>4
    <3> QED BY <3>3, <3>4, <3>5
  <2> QED BY <1>1, <2>1, <2>2, <2>3, <2>4
<1> DEFINE g == e + Len(File(0))
<1>5. S \subseteq Nat
  BY <1>1, OnDiskType DEF AnyRace
<1>6. g \in S /\ \A n \in S : n <= g
  BY <1>4
<1> HIDE DEF S, g
<1>7. \A n \in S : (\A m \in S : m <= n) => n = g
  <2> SUFFICES ASSUME NEW n \in S, \A m \in S : m <= n PROVE n = g
    OBVIOUS
  <2>1. g <= n /\ n <= g /\ n \in Nat /\ g \in Nat
    BY <1>5, <1>6
  <2> QED BY <2>1
<1>8. Greatest(S) = g
  BY <1>6, <1>7 DEF Greatest
<1> QED BY <1>4, <1>8 DEF S, g

LEMMA StartApart ==
  ASSUME LogInv, Start, ~raced'
  PROVE  NotMet'
<1>1. /\ UNCHANGED threadV /\ running' = TRUE /\ ~running /\ torn' = FALSE
      /\ stream' = [at |-> 0, good |-> TRUE] /\ buffer' = <<>>
  BY DEF Start
<1>2. PICK again \in BOOLEAN :
        /\ again => ~raced
        /\ ring' = [i \in Slots |-> IF again /\ ring[i] # NoFile THEN ring[i]
                                    ELSE IF i = 0 THEN <<>> ELSE NoFile]
        /\ size' = [initial |-> Len(LinesOf(ring'[0])), bytes |-> 0]
        /\ lines' = IF again THEN Greatest(OnDisk \cup {0}) ELSE 0
        /\ cut' = (again /\ cut)
  BY DEF Start
<1>3. \A u \in Threads : pc'[u] = "idle"
  BY <1>1 DEF LogInv, AnyRace, NothingNewer, threadV
<1>4. ~InRotation'
  BY <1>3 DEF InRotation, Rotating
<1>5. \A i \in Slots : File(i)' = IF again THEN File(i) ELSE <<>>
  BY <1>2, NotFiles DEF File
<1>6. Counted' = Len(File(0)') /\ size'.initial + size'.bytes = Counted'
      /\ Counted' = (IF again THEN Len(File(0)) ELSE 0) /\ Len(File(0)) \in Nat
  <2>1. Len(File(0)) \in Nat
    BY FileType, SlotNumbers DEF LogInv, AnyRace
  <2>2. Len(File(0)') = (IF again THEN Len(File(0)) ELSE 0)
    BY <1>5, SlotNumbers
  <2>3. Counted' = Len(File(0)')
    BY <1>1, <2>1, <2>2 DEF Counted
  <2>4. size'.initial = Len(File(0)') /\ size'.bytes = 0
    BY <1>2 DEF File
  <2> QED BY <2>1, <2>2, <2>3, <2>4
<1>7. Alone'
  <2>1. Clean'
    BY <1>2, NotFiles DEF LogInv, NotMet, Alone, Clean
  <2> QED BY <1>1, <1>3, <1>4, <2>1, SlotNumbers DEF Alone
<1>8. Sized'
  <2>1. again => \A i \in Slots : Len(File(i)) <= Capacity
    BY <1>2 DEF LogInv, NotMet, Sized
  <2>2. \A i \in Slots : Len(File(i)') <= Capacity
    <3>1. Len(<<>>) <= Capacity
      BY Rooms
    <3> QED BY <1>5, <2>1, <3>1
  <2>3. Counted' <= Capacity
    BY <1>6, <2>2, SlotNumbers
  <2> QED BY <1>3, <1>6, <2>2, <2>3 DEF Sized
<1>9. ASSUME ~cut' PROVE Gapless'
  <2>1. \E h \in Nat : Settled(Files', h) /\ lines' - Counted' = h
    <3>1. CASE again
      <4>1. Gapless
        BY <1>2, <1>9, <3>1 DEF LogInv, NotMet
      <4>2. PICK h \in Nat : Settled(Files, h) /\ lines' = h + Len(File(0))
        <5>1. PICK e \in 0 .. lines : Settled(Files, e)
          BY <1>1, <4>1 DEF Gapless
        <5> QED BY <1>2, <3>1, <5>1, TakenUp DEF LogInv
      <4>4. Files' = Files
        BY <1>5, <3>1 DEF Files
      <4>5. lines' - Counted' = h
        BY <1>6, <3>1, <4>2
      <4> QED BY <4>2, <4>4, <4>5
    <3>2. CASE ~again
      <4>1. lines' - Counted' = 0
        BY <1>2, <1>6, <3>2
      <4>2. \A i \in Slots : Files'[i] = <<>>
        BY <1>5, <3>2, FilesAre
      <4>3. \A i \in Slots \ {0} : 0 - Room(i - 1) <= 0
        <5>1. \A i \in Slots \ {0} : Room(i - 1) \in Nat
          BY SlotNumbers, Rooms
        <5> QED BY <5>1
      <4>4. Settled(Files', 0)
        BY <4>2, <4>3, SlotNumbers DEF Settled, StartsAfter, EndsWith
      <4> QED BY <4>1, <4>4
    <3> QED BY <3>1, <3>2
  <2> QED BY <1>1, <1>3, <1>4, <2>1 DEF Gapless, Rotating
<1> QED BY <1>7, <1>8, <1>9 DEF NotMet

LEMMA EndApart ==
  ASSUME LogInv, ~raced, Exit \/ Die
  PROVE  NotMet'
<1>1. /\ running /\ running' = FALSE /\ buffer' = <<>> /\ stream' = [at |-> Closed, good |-> TRUE]
      /\ pc' = [t \in Threads |-> "idle"] /\ lines' = lines /\ torn' = FALSE
      /\ cut' = cut \/ cut' = (cut \/ InRotation)
  BY DEF Exit, Die, Stopped, InRotation, Rotating
<1>2. NotMet /\ ~InRotation' /\ Clean /\ ~torn
  BY <1>1 DEF LogInv, NotMet, Alone, InRotation, Rotating
<1>3. ASSUME Clean', \A i \in Slots : Len(File(i)') <= Capacity,
             ~cut' => \E h \in 0 .. lines' : Settled(Files', h)
      PROVE  NotMet'
  <2>1. \A t \in Threads : pc'[t] = "idle"
    BY <1>1
  <2>2. Alone'
    BY <1>1, <1>3, <2>1 DEF Alone
  <2>3. Sized'
    BY <1>1, <1>3, <2>1 DEF Sized
  <2>4. ~cut' => Gapless'
    BY <1>1, <1>3, <2>1 DEF Gapless, Rotating
  <2> QED BY <2>2, <2>3, <2>4 DEF NotMet
<1>4. CASE Exit
  <2>1. ~InRotation /\ ring' = Delivered(ring, buffer) /\ cut' = cut
    BY <1>2, <1>4 DEF Exit, InRotation, Rotating
  <2>2. stream.at = 0 /\ stream.good
    BY <1>1, <1>2, <2>1 DEF NotMet, Alone
  <2>3. Flushed
    BY <1>1, <2>1, <2>2, SlotNumbers DEF Flushed, Usable
  <2>4. /\ \A i \in Slots : Len(File(i)') <= Capacity
        /\ (~cut => Settled(Files', lines - Counted)) /\ Clean'
    BY <1>1, <2>1, <2>2, <2>3, FlushedApart
  <2>5. Counted \in Nat
    BY FileType, WaitingType, SlotNumbers DEF LogInv, AnyRace, Counted
  <2>6. ~cut => \E h \in 0 .. lines' : Settled(Files', h)
    <3> SUFFICES ASSUME ~cut PROVE \E h \in 0 .. lines' : Settled(Files', h)
      OBVIOUS
    <3>1. 0 <= lines - Counted
      BY <2>4 DEF Settled
    <3>2. lines - Counted \in 0 .. lines'
      BY <1>1, <2>5, <3>1 DEF LogInv, AnyRace, LogType
    <3> QED BY <2>4, <3>2
  <2> QED BY <1>1, <1>3, <2>1, <2>4, <2>6
<1>5. CASE Die
  <2>1. ring' = ring
    <3>1. PICK t \in Threads : pc[t] = "idle"
      BY <1>2, LogFilesAssumption DEF NotMet, Alone, Threads
    <3>2. ~InCall(t)
      BY <3>1 DEF InCall
    <3> QED BY <1>2, <1>5, <3>2 DEF Die
  <2>2. Files' = Files /\ FilesStay /\ Clean'
    BY <1>2, <2>1 DEF Files, File, FilesStay, Clean
  <2>3. \A i \in Slots : Len(File(i)') <= Capacity
    BY <1>2, <2>2 DEF NotMet, Sized, FilesStay
  <2>4. ~cut' => \E h \in 0 .. lines' : Settled(Files', h)
    <3> SUFFICES ASSUME ~cut' PROVE \E h \in 0 .. lines' : Settled(Files', h)
      OBVIOUS
    <3>1. ~InRotation /\ ~cut
      BY <1>5 DEF Die, InRotation, Rotating
    <3>2. Settled(Files, lines - Counted)
      BY <1>1, <1>2, <3>1 DEF NotMet, Gapless
    <3>3. Counted \in Nat
      BY FileType, WaitingType, SlotNumbers DEF LogInv, AnyRace, Counted
    <3>4. lines - Counted \in 0 .. lines'
      BY <1>1, <3>2, <3>3 DEF Settled, LogInv, AnyRace, LogType
    <3> QED BY <1>1, <2>2, <3>2, <3>4
  <2> QED BY <1>3, <2>2, <2>3, <2>4
<1> QED BY <1>4, <1>5

LEMMA InitApart == Init => UrgentWaits /\ NotMet
<1> SUFFICES ASSUME Init PROVE UrgentWaits /\ NotMet
  OBVIOUS
<1>1. (\A i \in Slots : File(i) = <<>>) /\ Clean
  BY NotFiles DEF Init, File, Clean
<1>2. \A t \in Threads : pc[t] = "idle"
  BY DEF Init
<1>3. ~running /\ ~torn /\ buffer = <<>> /\ lines = 0
  BY DEF Init
<1>4. Alone /\ UrgentWaits
  BY <1>1, <1>2, <1>3 DEF Alone, UrgentWaits
<1>5. Sized
  <2>1. Len(<<>>) <= Capacity
    BY Rooms
  <2> QED BY <1>1, <1>2, <1>3, <2>1 DEF Sized
<1>6. Settled(Files, 0)
  <2>1. ASSUME NEW i \in Slots \ {0} PROVE 0 - Room(i - 1) <= 0
    <3>1. Room(i - 1) \in Nat
      BY SlotNumbers, Rooms
    <3>2. \A n \in Nat : 0 - n <= 0
      OBVIOUS
    <3> QED BY <3>1, <3>2
  <2>2. \A i \in Slots : Files[i] = <<>>
    BY <1>1, FilesAre
  <2>3. ASSUME NEW i \in Slots \ {0} PROVE EndsWith(Files[i], 0 - Room(i - 1))
    BY <2>1, <2>2, <2>3 DEF EndsWith
  <2>4. StartsAfter(Files[0], 0)
    <3>1. Files[0] = <<>>
      BY <2>2, SlotNumbers
    <3> QED BY <3>1 DEF StartsAfter
  <2> QED BY <1>3, <2>3, <2>4 DEF Settled
<1>7. Gapless
  BY <1>2, <1>3, <1>6 DEF Gapless, Rotating
<1> QED BY <1>4, <1>5, <1>7 DEF NotMet

LEMMA StepApart == LogInv /\ [Next]_vars => LogInv'
<1> SUFFICES ASSUME LogInv, [Next]_vars PROVE LogInv'
  OBVIOUS
<1>1. AnyRace' /\ UrgentWaits'
  BY StepOrder, UrgentStays DEF LogInv
<1> SUFFICES ASSUME ~raced' PROVE NotMet'
  BY <1>1 DEF LogInv
<1>2. ASSUME NEW t \in Threads, NEW l \in Levels, Log(t, l) PROVE NotMet'
  BY <1>2, LogApart
<1>3. ASSUME NEW t \in Threads, LogStep(t) PROVE NotMet'
  <2>1. ~raced
    BY <1>3 DEF LogStep, Ensure, Close, RemoveFile, RenameFile, Reopen, Write, Flush, history
  <2> QED BY <1>3, <2>1, EnsureApart, CloseApart, RemoveApart, RenameApart, ReopenApart,
     WriteApart, FlushApart DEF LogStep
<1>4. CASE ShowViewer \/ Timeout \/ ReloadPressed
  BY <1>4, LoadApart DEF ShowViewer, Timeout, ReloadPressed
<1>5. CASE ToggleAuto \/ HideViewer \/ UNCHANGED vars
  <2>1. UNCHANGED <<ring, streamV, threadV, procV, history>>
    BY <1>5 DEF ToggleAuto, HideViewer, vars
  <2>2. /\ UNCHANGED <<ring, stream, buffer, torn, size, pc, level, slot, running, lines, raced, cut>>
    BY <2>1 DEF streamV, threadV, procV, history
  <2>3. Files' = Files /\ Counted' = Counted /\ FilesStay /\ (InRotation' <=> InRotation)
        /\ \A t \in Threads : Oldest(t)' = Oldest(t)
    BY <2>2 DEF Files, File, Counted, FilesStay, InRotation, Oldest
  <2>4. NotMet
    BY <2>2 DEF LogInv
  <2>5. Alone'
    BY <2>2, <2>3, <2>4 DEF NotMet, Alone, Clean
  <2>6. Sized'
    <3>1. File(0)' = File(0) /\ \A i \in Slots : Len(File(i)') = Len(File(i))
      BY <2>3, SlotNumbers DEF FilesStay
    <3> QED BY <2>2, <2>3, <2>4, <3>1 DEF NotMet, Sized
  <2>7. ~cut' => Gapless'
    BY <2>2, <2>3, <2>4 DEF NotMet, Gapless
  <2> QED BY <2>5, <2>6, <2>7 DEF NotMet
<1>6. CASE Start
  BY <1>6, StartApart
<1>7. CASE Exit \/ Die
  <2>1. ~raced
    BY <1>7 DEF Exit, Die, Stopped
  <2> QED BY <1>7, <2>1, EndApart
<1> QED BY <1>2, <1>3, <1>4, <1>5, <1>6, <1>7 DEF Next, Threads, Levels

(* The order and what waits hold of every interleaving, the rest until the  *)
(* threads meet.                                                            *)
LEMMA LogHolds == Spec => []LogInv
<1>1. Init => LogInv
  BY InitOrder, InitApart DEF LogInv
<1> QED BY <1>1, StepApart, PTL DEF Spec

-----------------------------------------------------------------------------
(* What the invariant gives. *)

(* Where a file holds lines, they are the Capacity lines that end with h.   *)
LEMMA FullFile ==
  ASSUME LogType, NEW i \in Slots, NEW h \in Int, EndsWith(File(i), h), h > 0
  PROVE  Entries(File(i)) = h - Capacity + 1 .. h /\ 0 <= h - Capacity
<1>1. /\ Len(File(i)) = Capacity /\ 0 <= h - Capacity
      /\ \A k \in DOMAIN File(i) : File(i)[k] = h - Capacity + k
  BY DEF EndsWith
<1>2. DOMAIN File(i) = 1 .. Capacity /\ Capacity \in Nat
  BY <1>1, FileType, Rooms
<1>3. ASSUME NEW n \in h - Capacity + 1 .. h PROVE n \in Entries(File(i))
  <2>1. n - (h - Capacity) \in 1 .. Capacity
    BY <1>2
  <2>2. File(i)[n - (h - Capacity)] = h - Capacity + (n - (h - Capacity))
    BY <1>1, <1>2, <2>1
  <2>3. File(i)[n - (h - Capacity)] = n
    BY <1>2, <2>2
  <2> QED BY <1>2, <2>1, <2>3 DEF Entries
<1>4. ASSUME NEW n \in Entries(File(i)) PROVE n \in h - Capacity + 1 .. h
  BY <1>1, <1>2 DEF Entries
<1> QED BY <1>1, <1>3, <1>4

LEMMA NoFullFile ==
  ASSUME LogType, NEW i \in Slots, NEW h \in Int, EndsWith(File(i), h), h <= 0
  PROVE  Entries(File(i)) = {}
<1>1. Capacity \in Nat /\ Capacity >= 1
  BY Rooms
<1>2. File(i) = <<>>
  BY <1>1 DEF EndsWith
<1> QED BY <1>2, NoNumbers

(* Which of the full files before it a line is in. *)
LEMMA Division ==
  ASSUME NEW a \in Nat
  PROVE  \E q \in Nat : Room(q) <= a /\ a < Room(q) + Capacity
<1>1. Capacity \in Nat \ {0}
  BY LogFilesAssumption
<1>2. /\ a \div Capacity \in Nat
      /\ Capacity * (a \div Capacity) <= a
      /\ a < Capacity * (a \div Capacity) + Capacity
  BY <1>1
<1>3. (a \div Capacity) * Capacity = Capacity * (a \div Capacity)
  BY <1>1, <1>2
<1> QED BY <1>2, <1>3 DEF Room

LEMMA Roomy ==
  ASSUME NEW k \in Nat, NEW l \in Nat
  PROVE  /\ Room(k) \in Nat /\ Room(l) \in Nat
         /\ k < l => Room(k) + Capacity <= Room(l)
<1>1. k + 1 \in Nat
  OBVIOUS
<1>2. Room(k) \in Nat /\ Room(l) \in Nat /\ Room(k + 1) = Room(k) + Capacity
  BY Rooms
<1>3. ASSUME k < l PROVE Room(k + 1) <= Room(l)
  <2>1. k + 1 <= l
    BY <1>3
  <2> QED BY <1>1, <2>1, Rooms
<1> QED BY <1>2, <1>3

LEMMA Reached ==
  ASSUME LogType, NEW T \in Nat, NEW g \in Nat, NEW older, older \subseteq Slots,
         \A q \in 0 .. g - 1 : \E i \in older : EndsWith(File(i), T - Room(q)),
         NEW n \in Nat, 0 < n, n <= T, T - n < Room(g)
  PROVE  \E i \in older : n \in Entries(File(i))
<1>1. T - n \in Nat
  OBVIOUS
<1>2. PICK q \in Nat : Room(q) <= T - n /\ T - n < Room(q) + Capacity
  BY <1>1, Division
<1>3. q < g
  <2>1. g <= q => Room(g) <= Room(q)
    BY Rooms
  <2>2. Room(g) \in Nat /\ Room(q) \in Nat
    BY Roomy
  <2> QED BY <1>1, <1>2, <2>1, <2>2
<1>4. PICK i \in older : EndsWith(File(i), T - Room(q))
  BY <1>3
<1>5. Room(q) \in Nat /\ Capacity \in Nat
  BY Roomy, Rooms
<1>6. T - Room(q) > 0 /\ T - Room(q) \in Int
  BY <1>1, <1>2, <1>5
<1>7. n \in (T - Room(q)) - Capacity + 1 .. (T - Room(q))
  BY <1>2, <1>5
<1>8. n \in Entries(File(i))
  BY <1>4, <1>6, <1>7, FullFile
<1> QED BY <1>8

LEMMA Within ==
  ASSUME LogType, NEW T \in Nat, NEW g \in Nat, NEW q \in Nat, q < g, NEW i \in Slots,
         EndsWith(File(i), T - Room(q)), NEW m \in Entries(File(i))
  PROVE  0 < m /\ m <= T /\ T - m < Room(g)
<1>1. /\ Room(q) \in Nat /\ Room(q) + Capacity <= Room(g) /\ Room(g) \in Nat
      /\ Capacity \in Nat
  BY Roomy, Rooms
<1>2. T - Room(q) > 0 /\ T - Room(q) \in Int
  <2>1. T - Room(q) \in Int
    BY <1>1
  <2>2. ~(T - Room(q) <= 0)
    BY <2>1, NoFullFile
  <2> QED BY <2>1, <2>2
<1>3. m \in (T - Room(q)) - Capacity + 1 .. (T - Room(q)) /\ 0 <= (T - Room(q)) - Capacity
  BY <1>2, FullFile
<1> QED BY <1>1, <1>3

(* Files of full generations, from file s or s + 1 on the older ones, and   *)
(* newer lines that start after line T: the lines are all there back to the *)
(* oldest file, and that is further than all files but one have room for.   *)
LEMMA NoGap ==
  ASSUME LogType, NEW T \in Nat, NEW g \in Nat, MaxFiles - 1 <= g, T <= lines,
         NEW newer, newer = T + 1 .. lines, NEW older, older \subseteq Slots,
         \A q \in 0 .. g - 1 : \E i \in older : EndsWith(File(i), T - Room(q)),
         \A i \in older : \E q \in 0 .. g - 1 : EndsWith(File(i), T - Room(q)),
         Written = newer \cup UNION {Entries(File(i)) : i \in older}
  PROVE  /\ Written \subseteq 1 .. lines
         /\ \A n \in 1 .. lines :
              lines - n < (MaxFiles - 1) * Capacity \/ (\E m \in Written : m < n)
                => n \in Written
<1>1. lines \in Nat /\ MaxFiles - 1 \in Nat
  BY LogFilesAssumption DEF LogType
<1>2. ASSUME NEW i \in older, NEW m \in Entries(File(i))
      PROVE  m \in Nat /\ 0 < m /\ m <= T /\ T - m < Room(g)
  <2>1. PICK q \in 0 .. g - 1 : EndsWith(File(i), T - Room(q))
    OBVIOUS
  <2>2. i \in Slots
    OBVIOUS
  <2>3. m \in Nat
    BY <2>2, OnDiskType DEF OnDisk, File
  <2>4. q \in Nat /\ q < g
    BY <2>1
  <2>5. 0 < m /\ m <= T /\ T - m < Room(g)
    BY <2>1, <2>2, <2>4, Within
  <2> QED BY <2>3, <2>5
<1>3. Written \subseteq 1 .. lines
  BY SMTT(30), <1>1, <1>2
<1>4. ASSUME NEW n \in 1 .. lines, n <= T, T - n < Room(g) PROVE n \in Written
  <2>1. n \in Nat /\ 0 < n
    BY <1>1
  <2>2. PICK i \in older : n \in Entries(File(i))
    BY <1>4, <2>1, Reached
  <2> QED BY <2>2
<1>5. ASSUME NEW n \in 1 .. lines,
             lines - n < (MaxFiles - 1) * Capacity \/ (\E m \in Written : m < n)
      PROVE  n \in Written
  <2>1. CASE n > T
    BY <1>1, <2>1
  <2>2. CASE n <= T
    <3>1. CASE lines - n < (MaxFiles - 1) * Capacity
      <4>1. Room(MaxFiles - 1) <= Room(g)
        BY <1>1, Rooms
      <4>2. Room(MaxFiles - 1) \in Nat /\ Room(g) \in Nat
        BY <1>1, Roomy
      <4>3. lines - n < Room(MaxFiles - 1)
        BY <3>1 DEF Room
      <4>4. T - n < Room(g)
        BY <1>1, <4>1, <4>2, <4>3
      <4> QED BY <1>4, <2>2, <4>4
    <3>2. CASE \E m \in Written : m < n
      <4>1. PICK m \in Written : m < n
        BY <3>2
      <4>2. m \notin newer /\ m \in Nat
        <5>1. m \in 1 .. lines
          BY <1>3, <4>1
        <5>2. ~(m > T)
          BY <1>1, <2>2, <4>1, <5>1
        <5> QED BY <1>1, <5>1, <5>2
      <4>3. T - m < Room(g)
        BY <1>2, <4>2
      <4>4. T - n < Room(g)
        <5>1. Room(g) \in Nat
          BY Roomy
        <5> QED BY <1>1, <4>1, <4>2, <4>3, <5>1
      <4> QED BY <1>4, <2>2, <4>4
    <3> QED BY <1>5, <3>1, <3>2
  <2> QED BY <1>1, <2>1, <2>2
<1> QED BY <1>3, <1>5

LEMMA PartsAre ==
  /\ \A i \in Slots : Part(i) = File(i) /\ i # -1
  /\ Part(-1) = Held /\ Parts = Slots \cup {-1}
  /\ Written = OnDisk \cup Entries(Held)
<1>1. Parts = Slots \cup {-1} /\ \A i \in Slots : i # -1
  BY LogFilesAssumption DEF Parts, Slots
<1>2. Part(-1) = Held /\ \A i \in Slots : Part(i) = File(i)
  BY <1>1 DEF Part, File
<1> QED BY <1>1, <1>2 DEF Written, OnDisk, File

LEMMA PartsInOrder ==
  ASSUME LogType, FilesInOrder
  PROVE  /\ \A i \in Parts : Ascending(Part(i))
         /\ \A i, j \in Parts : i > j =>
              \A m \in Entries(Part(i)), n \in Entries(Part(j)) : m < n
<1>1. /\ Ascending(Held) /\ \A m \in OnDisk, n \in Entries(Held) : m < n
  BY NoNumbers DEF FilesInOrder, Held, Waiting, Ascending
<1>2. \A i \in Parts : Ascending(Part(i))
  BY <1>1, PartsAre DEF FilesInOrder
<1>3. ASSUME NEW i \in Parts, NEW j \in Parts, i > j,
             NEW m \in Entries(Part(i)), NEW n \in Entries(Part(j))
      PROVE  m < n
  <2>1. i \in Slots
    <3>1. j \in Slots => j >= 0
      BY SlotNumbers
    <3>2. j = -1 \/ j >= 0
      BY <3>1, PartsAre
    <3>3. i # -1
      BY <1>3, <3>2, SlotNumbers, PartsAre
    <3> QED BY <3>3, PartsAre
  <2>2. CASE j \in Slots
    BY <1>3, <2>1, <2>2, PartsAre DEF FilesInOrder
  <2>3. CASE j = -1
    BY <1>1, <1>3, <2>1, <2>3, PartsAre DEF OnDisk, File
  <2> QED BY <2>2, <2>3, PartsAre
<1> QED BY <1>2, <1>3

(* No rotation is on: the current file and the stream's buffer hold the     *)
(* lines after the last full file.                                          *)
LEMMA SettledNoGap ==
  ASSUME LogInv, ~raced, ~cut, running, ~InRotation
  PROVE  /\ Written \subseteq 1 .. lines
         /\ \A n \in 1 .. lines :
              lines - n < (MaxFiles - 1) * Capacity \/ (\E m \in Written : m < n)
                => n \in Written
<1>1. NotMet /\ stream.at = 0
  BY DEF LogInv, NotMet, Alone
<1>2. /\ Counted \in Nat /\ Len(File(0)) \in Nat /\ Len(buffer) \in Nat /\ lines \in Nat
      /\ DOMAIN File(0) = 1 .. Len(File(0))
  BY FileType, WaitingType, SlotNumbers DEF LogInv, AnyRace, LogType, Counted
<1> PICK T \in Int : T = lines - Counted
  BY <1>2
<1>3. /\ Settled(Files, T)
      /\ \A k \in DOMAIN buffer : buffer[k].n = lines - Len(buffer) + k
  BY <1>1 DEF NotMet, Gapless
<1>4. T \in Nat /\ T <= lines
  BY <1>2, <1>3 DEF Settled
<1>5. StartsAfter(File(0), T)
  BY <1>3, FilesAre, SlotNumbers DEF Settled
<1>6. Held = Waiting
  BY <1>1 DEF Held, Waiting
<1>7. Entries(File(0)) \cup Entries(Held) = T + 1 .. lines
  <2>1. lines = T + Len(File(0)) + Len(buffer)
    BY <1>2 DEF Counted
  <2>2. Entries(File(0)) = T + 1 .. T + Len(File(0))
    <3>1. ASSUME NEW n \in T + 1 .. T + Len(File(0)) PROVE n \in Entries(File(0))
      <4>1. n - T \in DOMAIN File(0) /\ File(0)[n - T] = n
        BY <1>2, <1>4, <1>5, <3>1 DEF StartsAfter
      <4> QED BY <4>1 DEF Entries
    <3>2. ASSUME NEW n \in Entries(File(0)) PROVE n \in T + 1 .. T + Len(File(0))
      BY <1>2, <1>4, <1>5, <3>2 DEF StartsAfter, Entries
    <3> QED BY <3>1, <3>2
  <2>3. \A k \in 1 .. Len(buffer) : Waiting[k] = T + Len(File(0)) + k
    <3>1. \A k \in 1 .. Len(buffer) : lines - Len(buffer) + k = T + Len(File(0)) + k
      BY <1>2, <1>4, <2>1
    <3> QED BY <1>3, <3>1, WaitingType DEF LogInv, AnyRace
  <2>4. DOMAIN Waiting = 1 .. Len(buffer)
    BY WaitingType DEF LogInv, AnyRace
  <2>5. Entries(Waiting) = T + Len(File(0)) + 1 .. lines
    <3>1. ASSUME NEW n \in T + Len(File(0)) + 1 .. lines PROVE n \in Entries(Waiting)
      <4>1. n - (T + Len(File(0))) \in 1 .. Len(buffer)
        BY <1>2, <1>4, <2>1, <3>1
      <4>2. Waiting[n - (T + Len(File(0)))] = n
        BY <1>2, <1>4, <2>3, <3>1, <4>1
      <4> QED BY <2>4, <4>1, <4>2 DEF Entries
    <3>2. ASSUME NEW n \in Entries(Waiting) PROVE n \in T + Len(File(0)) + 1 .. lines
      <4>1. PICK k \in 1 .. Len(buffer) : n = Waiting[k]
        BY <2>4 DEF Entries
      <4> QED BY <1>2, <1>4, <2>1, <2>3, <4>1
    <3> QED BY <3>1, <3>2
  <2> QED BY SMTT(30), <1>2, <1>4, <1>6, <2>1, <2>2, <2>5
<1> DEFINE older == Slots \ {0}
<1>8. Written = (T + 1 .. lines) \cup UNION {Entries(File(i)) : i \in older}
  <2>1. OnDisk = Entries(File(0)) \cup UNION {Entries(File(i)) : i \in older}
    BY SlotNumbers DEF OnDisk, File
  <2> QED BY <1>7, <2>1, PartsAre
<1>9. PICK g \in Nat : g = MaxFiles - 1
  BY LogFilesAssumption
<1>10. \A q \in 0 .. g - 1 : q + 1 \in older /\ EndsWith(File(q + 1), T - Room(q))
  <2> SUFFICES ASSUME NEW q \in 0 .. g - 1
               PROVE  q + 1 \in older /\ EndsWith(File(q + 1), T - Room(q))
    OBVIOUS
  <2>1. q + 1 \in older /\ (q + 1) - 1 = q
    BY <1>9, LogFilesAssumption DEF Slots
  <2>2. EndsWith(Files[q + 1], T - Room((q + 1) - 1)) /\ Files[q + 1] = File(q + 1)
    BY <1>3, <2>1, FilesAre DEF Settled
  <2> QED BY <2>1, <2>2
<1>11. \A i \in older : i - 1 \in 0 .. g - 1 /\ EndsWith(File(i), T - Room(i - 1))
  <2> SUFFICES ASSUME NEW i \in older
               PROVE  i - 1 \in 0 .. g - 1 /\ EndsWith(File(i), T - Room(i - 1))
    OBVIOUS
  <2>1. i - 1 \in 0 .. g - 1
    BY <1>9, LogFilesAssumption DEF Slots
  <2> QED BY <1>3, <2>1, FilesAre DEF Settled
<1>12. older \subseteq Slots /\ MaxFiles - 1 <= g
  BY <1>9, LogFilesAssumption
<1> HIDE DEF older
<1> QED BY <1>4, <1>8, <1>10, <1>11, <1>12, NoGap DEF LogInv, AnyRace

(* In the middle of a rotation, every line is in a full file. *)
LEMMA RotatingNoGap ==
  ASSUME LogInv, ~raced, ~cut, running, InRotation
  PROVE  /\ Written \subseteq 1 .. lines
         /\ \A n \in 1 .. lines :
              lines - n < (MaxFiles - 1) * Capacity \/ (\E m \in Written : m < n)
                => n \in Written
<1>1. NotMet /\ stream.at = Closed
  BY DEF LogInv, NotMet, Alone
<1>2. PICK t \in Threads : pc[t] \in Rotating
  BY DEF InRotation
<1> DEFINE s == slot[t]
<1>3. Shifting(Files, lines, s, Oldest(t)) /\ s \in Slots
  BY <1>1, <1>2 DEF NotMet, Gapless, LogInv, AnyRace, LogType
<1>4. lines \in Nat /\ 0 <= lines /\ lines <= lines
  BY DEF LogInv, AnyRace, LogType
<1>5. Written = OnDisk
  BY <1>1, SlotNumbers, NoNumbers, PartsAre DEF Held
<1>6. CASE Oldest(t)
  <2>1. PICK g \in Nat : g = MaxFiles /\ s = MaxFiles - 1
    BY <1>6, LogFilesAssumption DEF Oldest
  <2> HIDE DEF s
  <2>2. Slots = 0 .. g - 1 /\ MaxFiles - 1 <= g
    BY <2>1 DEF Slots
  <2>3. \A i \in Slots : EndsWith(File(i), lines - Room(i))
    <3> SUFFICES ASSUME NEW i \in Slots PROVE EndsWith(File(i), lines - Room(i))
      OBVIOUS
    <3>1. i < s \/ i = s
      BY <2>1, <2>2
    <3> QED BY <1>3, <1>6, <3>1, FilesAre DEF Shifting
  <2>4. Written = (lines + 1 .. lines) \cup UNION {Entries(File(i)) : i \in Slots}
    BY <1>4, <1>5 DEF OnDisk, File
  <2> QED BY <1>4, <2>2, <2>3, <2>4, NoGap DEF LogInv, AnyRace
<1> HIDE DEF s
<1>7. CASE ~Oldest(t)
  <2> DEFINE older == Slots \ {s}
  <2>1. PICK g \in Nat : g = MaxFiles - 1
    BY LogFilesAssumption
  <2>2. Slots = 0 .. g /\ MaxFiles - 1 <= g /\ s \in 0 .. g
    BY <1>3, <2>1 DEF Slots
  <2>3. /\ \A i \in 0 .. g : i < s => EndsWith(File(i), lines - Room(i))
        /\ \A i \in 0 .. g : i > s => EndsWith(File(i), lines - Room(i - 1))
    BY <1>3, <2>2, FilesAre DEF Shifting
  <2>4. \A q \in 0 .. g - 1 : \E i \in older : EndsWith(File(i), lines - Room(q))
    <3> SUFFICES ASSUME NEW q \in 0 .. g - 1
                 PROVE  \E i \in older : EndsWith(File(i), lines - Room(q))
      OBVIOUS
    <3>1. CASE q < s
      <4>1. q \in 0 .. g /\ q # s
        BY <2>2, <3>1
      <4> QED BY <2>2, <2>3, <3>1, <4>1
    <3>2. CASE q >= s
      <4>1. q + 1 \in 0 .. g /\ q + 1 > s /\ (q + 1) - 1 = q /\ q + 1 # s
        BY <2>2, <3>2
      <4>2. EndsWith(File(q + 1), lines - Room((q + 1) - 1))
        BY <2>3, <4>1
      <4> QED BY <2>2, <4>1, <4>2
    <3> QED BY <2>2, <3>1, <3>2
  <2>5. \A i \in older : \E q \in 0 .. g - 1 : EndsWith(File(i), lines - Room(q))
    <3> SUFFICES ASSUME NEW i \in older
                 PROVE  \E q \in 0 .. g - 1 : EndsWith(File(i), lines - Room(q))
      OBVIOUS
    <3>1. CASE i < s
      <4>1. i \in 0 .. g /\ i \in 0 .. g - 1
        BY <2>2, <3>1
      <4> QED BY <2>3, <3>1, <4>1
    <3>2. CASE i > s
      <4>1. i \in 0 .. g /\ i - 1 \in 0 .. g - 1
        BY <2>2, <3>2
      <4> QED BY <2>3, <3>2, <4>1
    <3> QED BY <2>2, <3>1, <3>2
  <2>6. Written = (lines + 1 .. lines) \cup UNION {Entries(File(i)) : i \in older}
    <3>1. File(s) = <<>> /\ Entries(File(s)) = {}
      BY <1>3, <1>7, FilesAre, NoNumbers DEF Shifting
    <3>2. OnDisk = Entries(File(s)) \cup UNION {Entries(File(i)) : i \in older}
      BY <1>3 DEF OnDisk, File
    <3>3. lines + 1 .. lines = {}
      BY <1>4
    <3> QED BY <1>5, <3>1, <3>2, <3>3
  <2>7. older \subseteq Slots
    OBVIOUS
  <2> HIDE DEF older
  <2> QED BY <1>4, <2>2, <2>4, <2>5, <2>6, <2>7, NoGap DEF LogInv, AnyRace
<1> QED BY <1>6, <1>7

(* From the oldest file to the newest the lines are in the order in which   *)
(* they were written, none twice, however the threads rotate, remove and    *)
(* rename for each other, but for the files whose content is undefined once *)
(* calls on the stream overlapped; and until the threads meet in the ring   *)
(* file, and no rotation is cut off, no line is missing and no file         *)
(* outgrows its limit: for any limit, any number of files, one included,    *)
(* and any lines and starts (RingFile::writeLine, _rotateNow,               *)
(* _openCurrent).                                                           *)
THEOREM LogStaysInOrder == Spec => []InOrder
<1>1. ASSUME LogInv PROVE InOrder
  <2>1. /\ \A i \in Parts : Ascending(Part(i))
        /\ \A i, j \in Parts : i > j =>
             \A m \in Entries(Part(i)), n \in Entries(Part(j)) : m < n
    BY <1>1, PartsInOrder DEF LogInv, AnyRace
  <2>2. ASSUME running, ~raced, ~cut
        PROVE  /\ Written \subseteq 1 .. lines
               /\ \A n \in 1 .. lines :
                    lines - n < (MaxFiles - 1) * Capacity \/ (\E m \in Written : m < n)
                      => n \in Written
    BY <1>1, <2>2, SettledNoGap, RotatingNoGap
  <2>3. ASSUME ~raced
        PROVE  \A i \in Slots : ring[i] # Garbled /\ Len(LinesOf(ring[i])) <= Capacity
    BY <1>1, <2>3 DEF LogInv, NotMet, Alone, Clean, Sized, File
  <2> QED BY <2>1, <2>2, <2>3 DEF InOrder
<1> QED BY <1>1, LogHolds, PTL

(* Once log() returned for a warning or an error, the line is no longer in  *)
(* the buffer that dies with the process, also when the other thread has    *)
(* rotated meanwhile, unless the stream failed or calls on it overlapped    *)
(* (LogManager::log).                                                       *)
THEOREM UrgentLinesAreKept == Spec => []UrgentOnDisk
<1>1. ASSUME LogInv PROVE UrgentOnDisk
  <2> SUFFICES ASSUME stream.good, ~torn, \A t \in Threads : pc[t] = "idle",
                      NEW k \in 1 .. Len(buffer)
               PROVE  buffer[k].level = "Info"
    BY DEF UrgentOnDisk
  <2>1. k \in DOMAIN buffer
    BY <1>1, WaitingType DEF LogInv, AnyRace
  <2> QED BY <1>1, <2>1 DEF LogInv, UrgentWaits
<1> QED BY <1>1, LogHolds, PTL

-----------------------------------------------------------------------------
(* The forms. *)

-----------------------------------------------------------------------------
(* The invariant. *)

(* A form has its fields, and nothing else. *)
IsForm(f) ==
  DOMAIN f = {"kind", "shown", "add", "accounts", "account", "label", "allRefs", "refs",
              "ref", "refEnabled", "rows", "ticker", "tickers"}

IsRow(row) ==
  row = [text |-> row.text, decimals |-> row.decimals, valid |-> row.valid]

(* A row is validated when it is edited; the decimals it gets later are     *)
(* more, and what they would change was cut off before.                     *)
RowSound(row) ==
  /\ IsRow(row) /\ row.text \in Text /\ row.decimals \in 0 .. Precision
  /\ row.valid = Validate(row.text, row.decimals)
  /\ row.text.places <= row.decimals

(* A row has the decimals a draft reads it with, or waits for them.         *)
RowsSound(f) ==
  \A r \in RowsOf(f.kind) :
    /\ RowSound(f.rows[r])
    /\ f.rows[r].decimals # DecimalsOf(r) => r \in Priced(f.kind) /\ f.rows[r].decimals = Coarse

(* While an account is chosen, the label, the decimals and the reference    *)
(* accounts are of its currency, and the one that is chosen is among them.  *)
FieldsAgree(f) ==
  f.account # None =>
    /\ \A r \in RowsOf(f.kind) : f.rows[r].decimals = DecimalsOf(r)
    /\ f.account \in f.accounts /\ f.label = CurrencyOf[f.account]
    /\ HasRef(f) =>
         /\ f.refs = {c \in f.allRefs : CurrencyOf[c] = CurrencyOf[f.account]}
         /\ f.ref # None => f.ref \in f.refs

FormSound(f) ==
  /\ f.kind \in Kinds /\ IsForm(f) /\ DOMAIN f.rows = RowsOf(f.kind)
  /\ f.rows = [r \in RowsOf(f.kind) |-> f.rows[r]]
  /\ RowsSound(f) /\ FieldsAgree(f)

(* What the button stands for while it can be pressed. *)
Bookable(f) ==
  /\ \A r \in PriceRows(f.kind) :
       /\ Validate(f.rows[r].text, f.rows[r].decimals)
       /\ ~MicroUnitsThrows(f.rows[r].text) /\ ~IsZero(f.rows[r])
  /\ HasRef(f) /\ f.account # None => f.ref # None

IsLookup(l) ==
  l = [shown |-> l.shown, quote |-> l.quote, displayed |-> l.displayed,
       accept |-> l.accept]

(* What can be accepted is on display. *)
LookupSound == IsLookup(lookup) /\ (lookup.accept => lookup.displayed = lookup.quote)

FormsInv ==
  /\ FormSound(form) /\ LookupSound
  /\ EnabledIsPriced /\ DraftIsShown

-----------------------------------------------------------------------------
(* The rows. *)

LEMMA KindsKnown == \A k \in Kinds : k \in {"cash", "stock", "option"}
BY FormsAssumption

LEMMA FreshRowsSound ==
  ASSUME NEW kind \in Kinds, NEW r \in RowsOf(kind)
  PROVE  /\ RowSound(FreshRow(r))
         /\ FreshRow(r).decimals # DecimalsOf(r)
              => r \in Priced(kind) /\ FreshRow(r).decimals = Coarse
<1>1. \A n \in Nat : Number(n) \in Text
  BY DEF Number, Text, Precision
<1>2. \A n \in Nat : Number(n).places = 0
  BY DEF Number
<1>3. ASSUME NEW n \in Nat, NEW d \in 0 .. Precision
      PROVE  RowSound(Row(Number(n), d)) /\ Row(Number(n), d).decimals = d
  BY <1>1, <1>2 DEF RowSound, IsRow, Row
<1>4. {0, Coarse, MicroUnit, Precision} \subseteq 0 .. Precision
  BY DEF Coarse, MicroUnit, Precision
<1>5. RowSound(FreshRow(r)) /\ FreshRow(r).decimals
        = CASE r = "quantity" -> Precision [] r = "contract" -> 0 [] OTHER -> Coarse
  BY <1>3, <1>4 DEF FreshRow
<1> QED BY <1>5 DEF DecimalsOf, Priced

(* The digits behind the point that a row has no room for are cut off.      *)
LEMMA CutTexts ==
  ASSUME NEW text \in Text, NEW d \in 0 .. Precision
  PROVE  /\ RemoveExceedingDecimals(text, d) \in Text
         /\ RemoveExceedingDecimals(text, d).places <= d

<1> DEFINE kept == RemoveExceedingDecimals(text, d)
<1>1. CASE text.places <= d
  BY <1>1 DEF RemoveExceedingDecimals
<1>2. CASE ~(text.places <= d)
  <2> DEFINE p == Base ^ (text.places - d)
  <2>1. text.places - d \in 0 .. Precision
    BY <1>2 DEF Text, Precision
  <2>2. p \in Nat \ {0}
    BY <2>1, FormsAssumption
  <2>3. kept = [text EXCEPT !.places = d, !.digits = @ \div p]
    BY <1>2 DEF RemoveExceedingDecimals
  <2> HIDE DEF p, kept
  <2>4. text.digits \in Nat /\ text.digits \div p \in Nat
    BY <2>2 DEF Text
  <2>5. kept = [as |-> text.as, sign |-> text.sign, whole |-> text.whole,
               digits |-> text.digits \div p, places |-> d]
    BY <2>3 DEF Text
  <2> QED BY <2>4, <2>5 DEF Text, kept
<1> QED BY <1>1, <1>2

LEMMA EditedSound ==
  ASSUME NEW row, NEW text \in Text, RowSound(row)
  PROVE  RowSound(Edited(row, text)) /\ Edited(row, text).decimals = row.decimals
<1>1. row.decimals \in 0 .. Precision
  BY DEF RowSound
<1> QED BY <1>1, CutTexts DEF RowSound, IsRow, Edited, Row

LEMMA DecimalsSound ==
  ASSUME NEW row, RowSound(row), row.decimals <= MicroUnit
  PROVE  /\ RowSound(SetNDecimalPlaces(row, MicroUnit))
         /\ SetNDecimalPlaces(row, MicroUnit).decimals = MicroUnit
<1>1. row.text.places \in Nat /\ row.decimals \in Nat
  BY DEF RowSound, Text
<1> QED BY <1>1 DEF RowSound, IsRow, SetNDecimalPlaces, MicroUnit, Precision, Validate,
             ValidateNonEmpty

(* Of the rows that are looked at, those with a price are watched; each is  *)
(* one of the first four.                                                   *)
LEMMA CheckedRows ==
  ASSUME NEW kind \in Kinds
  PROVE  /\ DOMAIN Checked(kind) \in {1..1, 1..2, 1..4}
         /\ \A r \in PriceRows(kind) : \E i \in DOMAIN Checked(kind) : Checked(kind)[i] = r
         /\ PriceRows(kind) \subseteq RowsOf(kind)
         /\ \A i \in DOMAIN Checked(kind) : Checked(kind)[i] \in RowsOf(kind)
         /\ PriceRows(kind) \subseteq Watched(kind)
<1>1. CASE kind = "cash"
  <2>1. Checked(kind) = <<"amount">> /\ PriceRows(kind) = {"amount"}
        /\ RowsOf(kind) = {"amount", "fees"} /\ Watched(kind) = {"amount"}
    BY <1>1 DEF Checked, PriceRows, RowsOf, Watched
  <2> QED BY <2>1
<1>2. CASE kind = "stock"
  <2>1. Checked(kind) = <<"quantity", "price">> /\ PriceRows(kind) = {"price"}
        /\ RowsOf(kind) = {"quantity", "price", "fees"} /\ Watched(kind) = {"price"}
    BY <1>2 DEF Checked, PriceRows, RowsOf, Watched
  <2> QED BY <2>1
<1>3. CASE kind = "option"
  <2>1. /\ Checked(kind) = <<"quantity", "strike", "amount", "contract">>
        /\ PriceRows(kind) = {"strike", "amount", "contract"}
        /\ RowsOf(kind) = {"quantity", "strike", "amount", "contract", "fees"}
        /\ Watched(kind) = {"strike", "amount", "contract"}
    BY <1>3 DEF Checked, PriceRows, RowsOf, Watched
  <2> QED BY <2>1
<1> QED BY <1>1, <1>2, <1>3, KindsKnown

LEMMA AmountsWhole ==
  ASSUME NEW text \in Text, NEW d \in 0 .. Precision
  PROVE  GetAmount(text, d) \in Int
<1> DEFINE frac == IF text.places <= d THEN text.digits * Base ^ (d - text.places)
                   ELSE text.digits \div Base ^ (text.places - d)
           p == Base ^ d
<1>1. text.sign \in Int /\ text.whole \in Int /\ text.digits \in Nat
      /\ text.places \in 0 .. Precision
  BY DEF Text
<1>2. p \in Nat
  BY FormsAssumption
<1>3. frac \in Nat
  <2>1. CASE text.places <= d
    <3> DEFINE e == Base ^ (d - text.places)
    <3>1. e \in Nat
      <4>1. d - text.places \in 0 .. Precision
        BY <1>1, <2>1 DEF Precision
      <4> QED BY <4>1, FormsAssumption
    <3>2. frac = text.digits * e
      BY <2>1
    <3> HIDE DEF e, frac
    <3> QED BY <1>1, <3>1, <3>2
  <2>2. CASE ~(text.places <= d)
    <3> DEFINE e == Base ^ (text.places - d)
    <3>1. e \in Nat \ {0}
      <4>1. text.places - d \in 0 .. Precision
        BY <1>1, <2>2 DEF Precision
      <4> QED BY <4>1, FormsAssumption
    <3>2. frac = text.digits \div e
      BY <2>2
    <3> HIDE DEF e, frac
    <3> QED BY <1>1, <3>1, <3>2
  <2> QED BY <2>1, <2>2
<1>4. Amount(text, d) = text.sign * (text.whole * p + frac)
  BY DEF Amount
<1> HIDE DEF frac, p
<1>5. Amount(text, d) \in Int
  BY <1>1, <1>2, <1>3, <1>4
<1>6. Half \in Nat \ {0}
  BY FormsAssumption
<1> QED BY <1>5, <1>6 DEF GetAmount

(* A number that a row accepts and that fits is not negative.               *)
LEMMA AmountsPositive ==
  ASSUME NEW text \in Text, NEW d \in 0 .. Precision, Validate(text, d), Fits(text, d)
  PROVE  GetAmount(text, d) >= 0
<1> DEFINE p == Base ^ d
           q == Base ^ (d - text.places)
<1>1. text.sign = 1 /\ text.whole \in Nat /\ text.digits \in Nat
      /\ text.places \in 0 .. Precision /\ text.places <= d
  BY DEF Validate, ValidateNonEmpty, Text
<1>2. p \in Nat /\ q \in Nat
  <2>1. d - text.places \in 0 .. Precision
    BY <1>1 DEF Precision
  <2> QED BY <2>1, FormsAssumption
<1>3. Amount(text, d) = 1 * (text.whole * p + text.digits * q)
  BY <1>1 DEF Amount
<1> HIDE DEF p, q
<1>4. text.whole * p \in Nat /\ text.digits * q \in Nat
  BY <1>1, <1>2
<1>5. Amount(text, d) \in Nat
  BY <1>3, <1>4
<1>6. Amount(text, d) <= Half - 1 /\ Half \in Nat \ {0}
  BY <1>5, FormsAssumption DEF Fits
<1>7. (Amount(text, d) + Half) % (2 * Half) = Amount(text, d) + Half
  BY <1>5, <1>6
<1>8. text.as # "empty"
  BY DEF Validate
<1> QED BY <1>5, <1>6, <1>7, <1>8 DEF GetAmount

-----------------------------------------------------------------------------
(* The button. *)

(* If the update of the button did not throw and no row was zero, every row *)
(* was asked, and each of them can be read.                                 *)
LEMMA AllAsked ==
  ASSUME NEW f, f.kind \in Kinds, FormIsValid(f), ~ZeroThrows(f)
  PROVE  \A i \in DOMAIN Checked(f.kind) : ~MicroUnitsThrows(f.rows[Checked(f.kind)[i]].text)
<1> DEFINE D == DOMAIN Checked(f.kind)
           Bad(i) == MicroUnitsThrows(f.rows[Checked(f.kind)[i]].text)
           Zero(i) == IsZero(f.rows[Checked(f.kind)[i]])
<1>1. D \in {1..1, 1..2, 1..4}
  BY CheckedRows
<1>2. \A i \in D : (\A j \in 1..(i - 1) : ~Bad(j) /\ ~Zero(j)) => ~Bad(i)
  BY DEF ZeroThrows, Asked, FormIsValid
<1>3. \A i \in D : ~Zero(i)
  BY DEF FormIsValid
<1> HIDE DEF D, Bad, Zero
<1>4. 1 \in D => ~Bad(1)
  BY <1>1, <1>2, <1>3
<1>5. 2 \in D => ~Bad(2)
  BY <1>1, <1>2, <1>3, <1>4
<1>6. 3 \in D => ~Bad(3)
  BY <1>1, <1>2, <1>3, <1>4, <1>5
<1>7. 4 \in D => ~Bad(4)
  BY <1>1, <1>2, <1>3, <1>4, <1>5, <1>6
<1>8. \A i \in D : ~Bad(i)
  BY <1>1, <1>4, <1>5, <1>6, <1>7
<1> QED BY <1>8 DEF D, Bad

LEMMA ButtonUpdated ==
  ASSUME NEW f, FormSound(f), UpdateAddButton(f)
  PROVE  FormSound(form') /\ (form'.add /\ ~ended' => Bookable(form'))
<1>1. CASE ZeroThrows(f)
  BY <1>1 DEF UpdateAddButton
<1>2. CASE ~ZeroThrows(f)
  <2>1. form' = [f EXCEPT !.add = FormIsValid(f)]
    BY <1>2 DEF UpdateAddButton
  <2>2. /\ form'.kind = f.kind /\ form'.account = f.account /\ form'.accounts = f.accounts
        /\ form'.label = f.label /\ form'.allRefs = f.allRefs /\ form'.refs = f.refs
        /\ form'.ref = f.ref /\ form'.rows = f.rows /\ form'.add = FormIsValid(f)
        /\ IsForm(form')
    BY <2>1 DEF FormSound, IsForm
  <2>3. FormSound(form')
    BY <2>2 DEF FormSound, RowsSound, FieldsAgree, HasRef
  <2>4. ASSUME FormIsValid(f) PROVE Bookable(f)
    <3>1. f.kind \in Kinds
      BY DEF FormSound
    <3>2. \A i \in DOMAIN Checked(f.kind) : ~MicroUnitsThrows(f.rows[Checked(f.kind)[i]].text)
      BY <1>2, <2>4, <3>1, AllAsked
    <3>3. \A i \in DOMAIN Checked(f.kind) :
            f.rows[Checked(f.kind)[i]].valid /\ ~IsZero(f.rows[Checked(f.kind)[i]])
      BY <2>4 DEF FormIsValid, ChosenAndValid
    <3>4. \A r \in PriceRows(f.kind) : f.rows[r].valid /\ ~MicroUnitsThrows(f.rows[r].text)
                                       /\ ~IsZero(f.rows[r])
      BY <3>1, <3>2, <3>3, CheckedRows
    <3>5. HasRef(f) => f.ref # None
      BY <2>4 DEF FormIsValid, ChosenAndValid
    <3>6. \A r \in PriceRows(f.kind) : f.rows[r].valid = Validate(f.rows[r].text, f.rows[r].decimals)
      BY <3>1, CheckedRows DEF FormSound, RowsSound, RowSound
    <3> QED BY <3>4, <3>5, <3>6 DEF Bookable
  <2> QED BY <2>2, <2>3, <2>4 DEF Bookable, HasRef
<1> QED BY <1>1, <1>2

-----------------------------------------------------------------------------
(* The steps. *)

LEMMA InitForms == FormsInit => FormsInv
<1> SUFFICES ASSUME FormsInit PROVE FormsInv
  OBVIOUS
<1>1. PICK kind \in Kinds :
        form = [FreshForm(kind) EXCEPT
                  !.allRefs = IF kind = "cash" THEN {} ELSE GetCashAccounts,
                  !.refs = IF kind = "cash" THEN {} ELSE GetCashAccounts,
                  !.tickers = store.stocks]
  BY DEF FormsInit
<1>2. /\ form.kind = kind /\ form.account = None /\ form.add = FALSE
      /\ form.rows = [r \in RowsOf(kind) |-> FreshRow(r)] /\ IsForm(form)
  BY <1>1 DEF FreshForm, IsForm
<1>3. FormSound(form)
  <2>1. \A r \in RowsOf(kind) :
          /\ RowSound(form.rows[r])
          /\ form.rows[r].decimals # DecimalsOf(r)
               => r \in Priced(kind) /\ form.rows[r].decimals = Coarse
    BY <1>2, FreshRowsSound
  <2> QED BY <1>2, <2>1 DEF FormSound, RowsSound, FieldsAgree
<1>4. LookupSound
  BY DEF FormsInit, LookupSound, IsLookup
<1>5. EnabledIsPriced /\ DraftIsShown
  BY <1>2 DEF FormsInit, EnabledIsPriced, DraftIsShown, Nothing
<1> QED BY <1>3, <1>4, <1>5 DEF FormsInv

(* An account is chosen, or chosen again: the fields agree afterwards. *)
LEMMA SelectedSound ==
  ASSUME NEW f, NEW a, FormSound(f), a # None => a \in f.accounts
  PROVE  FormSound(OnAccountSelected(f, a))
<1> DEFINE g == InCurrencyOf(f, a)
           rs == {c \in f.allRefs : CurrencyOf[c] = CurrencyOf[a]}
<1>1. /\ g.kind = f.kind /\ g.account = a /\ g.accounts = f.accounts /\ g.ref = f.ref
      /\ g.label = CurrencyOf[a] /\ g.allRefs = f.allRefs /\ IsForm(g)
      /\ g.rows = [r \in RowsOf(f.kind) |->
                     IF r \in Priced(f.kind)
                     THEN SetNDecimalPlaces(f.rows[r], MicroUnit) ELSE f.rows[r]]
  <2> DEFINE rows == [r \in RowsOf(f.kind) |->
                        IF r \in Priced(f.kind)
                        THEN SetNDecimalPlaces(f.rows[r], MicroUnit) ELSE f.rows[r]]
  <2>1. g = [f EXCEPT !.account = a, !.label = CurrencyOf[a], !.rows = rows]
    BY DEF InCurrencyOf
  <2> HIDE DEF g, rows
  <2>2. /\ g.kind = f.kind /\ g.account = a /\ g.accounts = f.accounts /\ g.ref = f.ref
        /\ g.label = CurrencyOf[a] /\ g.allRefs = f.allRefs /\ g.rows = rows /\ IsForm(g)
    BY <2>1 DEF IsForm, FormSound
  <2> QED BY <2>2 DEF rows
<1>2. \A r \in RowsOf(f.kind) : RowSound(g.rows[r]) /\ g.rows[r].decimals = DecimalsOf(r)
  <2> SUFFICES ASSUME NEW r \in RowsOf(f.kind)
               PROVE  RowSound(g.rows[r]) /\ g.rows[r].decimals = DecimalsOf(r)
    OBVIOUS
  <2>1. /\ RowSound(f.rows[r])
        /\ f.rows[r].decimals # DecimalsOf(r)
             => r \in Priced(f.kind) /\ f.rows[r].decimals = Coarse
    BY DEF FormSound, RowsSound
  <2> HIDE DEF g
  <2>2. CASE r \in Priced(f.kind)
    <3>1. DecimalsOf(r) = MicroUnit
      BY <2>2 DEF Priced, DecimalsOf
    <3>2. f.rows[r].decimals <= MicroUnit
      BY <2>1, <3>1 DEF Coarse, MicroUnit
    <3> QED BY <1>1, <2>1, <2>2, <3>1, <3>2, DecimalsSound
  <2>3. CASE r \notin Priced(f.kind)
    BY <1>1, <2>1, <2>3
  <2> QED BY <2>2, <2>3
<1> HIDE DEF g
<1>3. CASE HasRef(f)
  <2> DEFINE h == [UpdateRefs(g, rs) EXCEPT !.refEnabled = TRUE]
  <2>1. OnAccountSelected(f, a) = h
    BY <1>1, <1>3 DEF OnAccountSelected, Offering, HasRef, g
  <2>2. /\ h.kind = f.kind /\ h.account = a /\ h.accounts = f.accounts /\ h.ref = None
        /\ h.label = CurrencyOf[a] /\ h.allRefs = f.allRefs /\ h.refs = rs
        /\ h.rows = g.rows /\ IsForm(h)
    <3> HIDE DEF rs
    <3> QED BY <1>1 DEF UpdateRefs, IsForm
  <2>3. FormSound(h)
    BY <1>1, <1>2, <2>2 DEF FormSound, RowsSound, FieldsAgree
  <2> QED BY <2>1, <2>3
<1>4. CASE ~HasRef(f)
  <2>1. OnAccountSelected(f, a) = g
    BY <1>1, <1>4 DEF OnAccountSelected, Offering, HasRef, g
  <2>2. FormSound(g)
    BY <1>1, <1>2, <1>4 DEF FormSound, RowsSound, FieldsAgree, HasRef
  <2> QED BY <2>1, <2>2
<1> QED BY <1>3, <1>4

LEMMA OpenedForms == FormsInv /\ OpenForm => FormsInv'
<1> SUFFICES ASSUME FormsInv, OpenForm PROVE FormsInv'
  OBVIOUS
<1>1. PICK own :
        form' = IF HasRef(form)
                THEN [UpdateTickers(UpdateReferenceAccounts(UpdateAccounts(form, own),
                                                            GetCashAccounts),
                                    store.stocks) EXCEPT !.shown = TRUE]
                ELSE [UpdateAccounts(form, own) EXCEPT !.shown = TRUE]
  BY DEF OpenForm, Unnoticed
<1> DEFINE g == UpdateAccounts(form, own)
<1>2. /\ g.kind = form.kind /\ g.account = None /\ g.rows = form.rows /\ g.add = form.add
      /\ g.ref = form.ref /\ IsForm(g)
  <2>1. IsForm(form)
    BY DEF FormsInv, FormSound
  <2>2. g = [form EXCEPT !.accounts = own, !.account = None]
    BY DEF UpdateAccounts
  <2> HIDE DEF g
  <2> QED BY <2>1, <2>2 DEF IsForm
<1>3. UpdateReferenceAccounts(g, GetCashAccounts) = [g EXCEPT !.allRefs = GetCashAccounts]
  BY <1>2 DEF UpdateReferenceAccounts, IsForm
<1>4. /\ form'.kind = form.kind /\ form'.account = None /\ form'.rows = form.rows
      /\ form'.add = form.add /\ IsForm(form')
  <2> HIDE DEF g
  <2>1. form' = IF HasRef(form)
                THEN [UpdateTickers([g EXCEPT !.allRefs = GetCashAccounts], store.stocks)
                        EXCEPT !.shown = TRUE]
                ELSE [g EXCEPT !.shown = TRUE]
    BY <1>1, <1>3 DEF g
  <2> QED BY <1>2, <2>1 DEF IsForm, UpdateTickers
<1>5. FormSound(form')
  BY <1>4 DEF FormsInv, FormSound, RowsSound, FieldsAgree
<1>6. EnabledIsPriced'
  BY <1>4 DEF FormsInv, EnabledIsPriced, OpenForm, HasRef
<1>7. DraftIsShown' /\ LookupSound'
  BY DEF FormsInv, OpenForm, Rest, DraftIsShown, Nothing, LookupSound
<1> QED BY <1>5, <1>6, <1>7 DEF FormsInv

(* A step after which the button is recomputed. *)
LEMMA HeardForms ==
  ASSUME NEW f, FormSound(f), UpdateAddButton(f), event' = Nothing, LookupSound,
         UNCHANGED lookup
  PROVE  FormsInv'
<1>1. FormSound(form') /\ (form'.add /\ ~ended' => Bookable(form'))
  BY ButtonUpdated
<1>2. EnabledIsPriced'
  BY <1>1 DEF EnabledIsPriced, Bookable
<1>3. DraftIsShown' /\ LookupSound'
  BY DEF DraftIsShown, Nothing, LookupSound
<1> QED BY <1>1, <1>2, <1>3 DEF FormsInv

(* A step the button does not hear of: what it stands for is not touched. *)
LEMMA UnheardForms ==
  ASSUME FormsInv, ~ended, FormSound(form'),
         form'.kind = form.kind, form'.add = form.add, form'.account = form.account,
         form'.ref = form.ref, \A r \in PriceRows(form.kind) : form'.rows[r] = form.rows[r]
  PROVE  EnabledIsPriced'
BY DEF FormsInv, EnabledIsPriced, HasRef

LEMMA ChosenForms ==
  ASSUME FormsInv, NEW a, ChooseAccount(a) \/ ChooseReferenceAccount(a)
  PROVE  FormsInv'
<1>1. CASE ChooseAccount(a)
  <2>1. FormSound(OnAccountSelected(form, a))
    BY <1>1, SelectedSound DEF FormsInv, ChooseAccount
  <2> QED BY <1>1, <2>1, HeardForms DEF ChooseAccount, FormsInv, Rest
<1>2. CASE ChooseReferenceAccount(a)
  <2> DEFINE f == [form EXCEPT !.ref = a]
  <2>1. /\ f.kind = form.kind /\ f.account = form.account /\ f.accounts = form.accounts
        /\ f.label = form.label /\ f.allRefs = form.allRefs /\ f.refs = form.refs
        /\ f.ref = a /\ f.rows = form.rows /\ IsForm(f)
    BY DEF FormsInv, FormSound, IsForm
  <2>2. a \in form.refs
    BY <1>2 DEF ChooseReferenceAccount
  <2>3. FormSound(f)
    BY <2>1, <2>2 DEF FormsInv, FormSound, RowsSound, FieldsAgree, HasRef
  <2>4. UpdateAddButton(f) /\ event' = Nothing /\ UNCHANGED lookup
    BY <1>2 DEF ChooseReferenceAccount, Rest
  <2> HIDE DEF f
  <2> QED BY <2>3, <2>4, HeardForms DEF FormsInv
<1> QED BY <1>1, <1>2

LEMMA EditedForms ==
  ASSUME FormsInv, NEW r \in RowsOf(form.kind), NEW text \in Text, EditRow(r, text)
  PROVE  FormsInv'
<1> DEFINE f == [form EXCEPT !.rows[r] = Edited(form.rows[r], text)]
<1>1. /\ f.kind = form.kind /\ f.account = form.account /\ f.accounts = form.accounts
      /\ f.label = form.label /\ f.allRefs = form.allRefs /\ f.refs = form.refs
      /\ f.ref = form.ref /\ f.add = form.add /\ IsForm(f)
      /\ f.rows = [form.rows EXCEPT ![r] = Edited(form.rows[r], text)]
  BY DEF FormsInv, FormSound, IsForm
<1>2. FormSound(f)
  <2>1. \A s \in RowsOf(form.kind) :
          RowSound(f.rows[s]) /\ f.rows[s].decimals = form.rows[s].decimals
    BY <1>1, EditedSound DEF FormsInv, FormSound, RowsSound
  <2> QED BY <1>1, <2>1 DEF FormsInv, FormSound, RowsSound, FieldsAgree, HasRef
<1>3. CASE r \in Watched(form.kind)
  <2>1. UpdateAddButton(f) /\ event' = Nothing /\ UNCHANGED lookup
    BY <1>3 DEF EditRow, Rest
  <2> HIDE DEF f
  <2> QED BY <1>2, <2>1, HeardForms DEF FormsInv
<1>4. CASE r \notin Watched(form.kind)
  <2>1. form' = f /\ event' = Nothing /\ UNCHANGED lookup /\ ~ended
    BY <1>4 DEF EditRow, Rest, Unnoticed
  <2>2. \A s \in PriceRows(form.kind) : s \in RowsOf(form.kind) /\ s # r
    BY <1>4, CheckedRows DEF FormsInv, FormSound
  <2>3. \A s \in PriceRows(form.kind) : form'.rows[s] = form.rows[s]
    BY <1>1, <2>1, <2>2 DEF FormsInv, FormSound
  <2> HIDE DEF f
  <2>4. EnabledIsPriced'
    BY <1>1, <1>2, <2>1, <2>3, UnheardForms
  <2> QED BY <1>2, <2>1, <2>4 DEF FormsInv, DraftIsShown, Nothing, LookupSound
<1> QED BY <1>3, <1>4

(* The ticker is no part of what the forms agree on. *)
LEMMA TickerForms ==
  ASSUME FormsInv, NEW text, EditTicker(text)
  PROVE  FormsInv'
<1> DEFINE f == [form EXCEPT !.ticker = text]
<1>1. /\ f.kind = form.kind /\ f.account = form.account /\ f.accounts = form.accounts
      /\ f.label = form.label /\ f.allRefs = form.allRefs /\ f.refs = form.refs
      /\ f.ref = form.ref /\ f.add = form.add /\ f.rows = form.rows /\ IsForm(f)
  BY DEF FormsInv, FormSound, IsForm
<1>2. FormSound(f)
  BY <1>1 DEF FormsInv, FormSound, RowsSound, FieldsAgree, HasRef
<1>3. /\ UpdateAddButton(f) \/ form' = f
      /\ event' = Nothing /\ UNCHANGED lookup /\ ~ended
  BY DEF EditTicker, Rest, Unnoticed
<1> HIDE DEF f
<1>4. CASE UpdateAddButton(f)
  BY <1>2, <1>3, <1>4, HeardForms DEF FormsInv
<1>5. CASE form' = f
  <2>1. EnabledIsPriced'
    BY <1>1, <1>2, <1>3, <1>5, UnheardForms
  <2> QED BY <1>2, <1>3, <1>5, <2>1 DEF FormsInv, DraftIsShown, Nothing, LookupSound
<1> QED BY <1>3, <1>4, <1>5

(* A form that is hidden keeps its fields. *)
LEMMA HiddenForms ==
  ASSUME FormsInv, ~ended, form' = [form EXCEPT !.shown = FALSE]
  PROVE  FormSound(form') /\ EnabledIsPriced' /\ form'.accounts = form.accounts
         /\ form'.label = form.label /\ form'.allRefs = form.allRefs /\ form'.kind = form.kind
<1>1. /\ form'.kind = form.kind /\ form'.account = form.account
      /\ form'.accounts = form.accounts /\ form'.label = form.label
      /\ form'.allRefs = form.allRefs /\ form'.refs = form.refs /\ form'.ref = form.ref
      /\ form'.add = form.add /\ form'.rows = form.rows /\ IsForm(form')
  BY DEF FormsInv, FormSound, IsForm
<1>2. FormSound(form')
  BY <1>1 DEF FormsInv, FormSound, RowsSound, FieldsAgree, HasRef
<1> QED BY <1>1, <1>2, UnheardForms

LEMMA PressedForms == FormsInv /\ PressAdd => FormsInv'
<1> SUFFICES ASSUME FormsInv, PressAdd PROVE FormsInv'
  OBVIOUS
<1>1. ~ended /\ form.add /\ UNCHANGED lookup
  BY DEF PressAdd, Rest
<1>2. LookupSound'
  BY <1>1 DEF FormsInv, LookupSound
<1>3. CASE form' = form /\ event' \in {Nothing, Shown("draft")}
  <2>1. event'.what # "draft"
    BY <1>3 DEF Nothing, Shown
  <2>2. DraftIsShown'
    BY <2>1 DEF DraftIsShown
  <2>3. EnabledIsPriced'
    BY <1>1, <1>3 DEF FormsInv, EnabledIsPriced
  <2> QED BY <1>2, <1>3, <2>2, <2>3 DEF FormsInv
<1>4. CASE form' = [form EXCEPT !.shown = FALSE] /\ event' = GetDraft(form) /\ ~DraftThrows(form)
  <2>1. /\ FormSound(form') /\ EnabledIsPriced' /\ form'.accounts = form.accounts
        /\ form'.label = form.label /\ form'.allRefs = form.allRefs
        /\ form'.kind = form.kind
    BY <1>1, <1>4, HiddenForms
  <2>2. form.account # None /\ (HasRef(form) => form.ref # None)
    BY <1>4 DEF DraftThrows
  <2>3. /\ form.account \in form.accounts /\ form.label = CurrencyOf[form.account]
        /\ \A r \in RowsOf(form.kind) : form.rows[r].decimals = DecimalsOf(r)
        /\ HasRef(form) => form.ref \in form.allRefs /\ CurrencyOf[form.ref] = form.label
    BY <2>2 DEF FormsInv, FormSound, FieldsAgree
  <2>4. /\ event'.account = form.account /\ event'.ref = form.ref
        /\ event'.currency = CurrencyOf[IF HasRef(form) THEN form.ref ELSE form.account]
        /\ event'.amounts = [r \in RowsOf(form.kind) |->
                               GetAmount(form.rows[r].text, DecimalsOf(r))]
    BY <1>4 DEF GetDraft, Draft
  <2>5. /\ form'.rows = form.rows
        /\ \A r \in RowsOf(form.kind) :
             /\ event'.amounts[r] = GetAmount(form.rows[r].text, form.rows[r].decimals)
             /\ RowSound(form.rows[r])
    BY <1>4, <2>3, <2>4 DEF FormsInv, FormSound, RowsSound, IsForm
  <2>7. ASSUME NEW r \in PriceRows(form.kind)
        PROVE  /\ event'.amounts[r] # 0
               /\ Fits(form.rows[r].text, form.rows[r].decimals) => event'.amounts[r] > 0
    <3>1. r \in RowsOf(form.kind)
      BY CheckedRows DEF FormsInv, FormSound
    <3>2. ~IsZero(form.rows[r]) /\ Validate(form.rows[r].text, form.rows[r].decimals)
      BY <1>1 DEF FormsInv, EnabledIsPriced
    <3>3. /\ form.rows[r].text \in Text /\ form.rows[r].decimals \in 0 .. Precision
          /\ event'.amounts[r] = GetAmount(form.rows[r].text, form.rows[r].decimals)
      BY <2>5, <3>1 DEF RowSound
    <3>4. event'.amounts[r] # 0
      BY <3>2, <3>3 DEF IsZero
    <3>5. ASSUME Fits(form.rows[r].text, form.rows[r].decimals) PROVE event'.amounts[r] > 0
      <4>1. event'.amounts[r] >= 0
        BY <3>2, <3>3, <3>5, AmountsPositive
      <4>2. event'.amounts[r] \in Int
        BY <3>3, AmountsWhole
      <4> QED BY <3>4, <4>1, <4>2
    <3> QED BY <3>4, <3>5
  <2>6. DraftIsShown'
    BY <2>1, <2>3, <2>4, <2>5, <2>7 DEF DraftIsShown, HasRef, RowSound
  <2> QED BY <1>2, <2>1, <2>6 DEF FormsInv
<1> QED BY <1>3, <1>4 DEF PressAdd, Unnoticed

LEMMA LookupForms == FormsInv /\ (CreateStock \/ FindTicker) => FormsInv'
<1> SUFFICES ASSUME FormsInv, CreateStock \/ FindTicker PROVE FormsInv'
  OBVIOUS
<1>1. LookupSound'
  <2>1. IsLookup(lookup)
    BY DEF FormsInv, LookupSound
  <2>2. CASE CreateStock
    BY <2>1, <2>2 DEF CreateStock, LookupSound, IsLookup, ClearResult
  <2>3. CASE FindTicker
    <3>1. (\E symbol : lookup' = Found(lookup, symbol)) \/ lookup' = NotFound(lookup)
      BY <2>3 DEF FindTicker
    <3> QED BY <2>1, <3>1 DEF LookupSound, IsLookup, Found, NotFound, ClearResult
  <2> QED BY <2>2, <2>3
<1>2. UNCHANGED <<form, ended>> /\ event' = Nothing
  BY DEF CreateStock, FindTicker
<1> QED BY <1>1, <1>2 DEF FormsInv, EnabledIsPriced, DraftIsShown, Nothing

LEMMA AcceptedForms == FormsInv /\ AcceptTicker => FormsInv'
<1> SUFFICES ASSUME FormsInv, AcceptTicker PROVE FormsInv'
  OBVIOUS
<1>1. LookupSound'
  BY DEF FormsInv, AcceptTicker, LookupSound, IsLookup, ClearResult
<1>2. event'.what # "draft" /\ ~ended
  BY DEF AcceptTicker, Nothing
<1>3. form' = form \/ \E tickers : form' = [form EXCEPT !.tickers = tickers]
  BY DEF AcceptTicker, UpdateTickers
<1>4. /\ form'.kind = form.kind /\ form'.account = form.account
      /\ form'.accounts = form.accounts /\ form'.label = form.label
      /\ form'.allRefs = form.allRefs /\ form'.refs = form.refs /\ form'.ref = form.ref
      /\ form'.add = form.add /\ form'.rows = form.rows /\ IsForm(form')
  BY <1>3 DEF FormsInv, FormSound, IsForm
<1>5. FormSound(form')
  BY <1>4 DEF FormsInv, FormSound, RowsSound, FieldsAgree, HasRef
<1> QED BY <1>1, <1>2, <1>4, <1>5, UnheardForms DEF FormsInv, DraftIsShown

LEMMA StepForms == FormsInv /\ [FormsNext]_formsVars => FormsInv'
<1> SUFFICES ASSUME FormsInv, [FormsNext]_formsVars PROVE FormsInv'
  OBVIOUS
<1>1. CASE OpenForm
  BY <1>1, OpenedForms
<1>2. CASE CloseForm
  <2>1. FormSound(form') /\ EnabledIsPriced'
    BY <1>2, HiddenForms DEF CloseForm, Unnoticed
  <2> QED BY <1>2, <2>1 DEF CloseForm, Rest, FormsInv, DraftIsShown, Nothing, LookupSound
<1>3. CASE PressAdd
  BY <1>3, PressedForms
<1>4. ASSUME NEW a \in Accounts, ChooseAccount(a) \/ ChooseReferenceAccount(a) PROVE FormsInv'
  BY <1>4, ChosenForms
<1>5. ASSUME NEW a \in Accounts, CreateAccount(a) PROVE FormsInv'
  BY <1>5 DEF CreateAccount, FormsInv, EnabledIsPriced, DraftIsShown, Nothing, LookupSound
<1>6. ASSUME NEW r \in RowsOf(form.kind), NEW text \in Texts[form.kind], EditRow(r, text)
      PROVE  FormsInv'
  BY <1>6, EditedForms, FormsAssumption DEF FormsInv, FormSound
<1>7. ASSUME NEW text, EditTicker(text) PROVE FormsInv'
  BY <1>7, TickerForms
<1>8. CASE CreateStock \/ FindTicker
  BY <1>8, LookupForms
<1>9. CASE AcceptTicker
  BY <1>9, AcceptedForms
<1>10. CASE UNCHANGED formsVars
  BY <1>10 DEF formsVars, FormsInv, EnabledIsPriced, DraftIsShown, LookupSound
<1> QED BY <1>1, <1>2, <1>3, <1>4, <1>5, <1>6, <1>7, <1>8, <1>9, <1>10 DEF FormsNext

LEMMA FormsHold == FormsSpec => []FormsInv
BY InitForms, StepForms, PTL DEF FormsSpec

-----------------------------------------------------------------------------
(* The theorems. *)

(* Whatever was edited, opened again and chosen anew since the button was   *)
(* recomputed: while it can be pressed, each price can be read and is not   *)
(* zero, and an account has its reference account                           *)
(* (stock_widget.cpp:455, option_widget.cpp:509).                           *)
THEOREM EnabledStaysPriced == FormsSpec => []EnabledIsPriced
<1>1. FormsInv => EnabledIsPriced
  BY DEF FormsInv
<1> QED BY <1>1, FormsHold, PTL

(* What reaches the controller is what the form showed: accounts that were  *)
(* offered, both in the currency on the labels, and every number in the     *)
(* units of its row with no digit dropped; a price is not zero, and it is   *)
(* positive unless the number does not fit an int64, which wraps            *)
(* (stock_widget.cpp:185, option_widget.cpp:233, quantity.cpp:304).         *)
THEOREM DraftsAreShown == FormsSpec => []DraftIsShown
<1>1. FormsInv => DraftIsShown
  BY DEF FormsInv
<1> QED BY <1>1, FormsHold, PTL

(* A stock that is added is the one on display, whatever was looked for     *)
(* before (securities_controller.cpp:120).                                  *)
THEOREM AddedWasDisplayed == FormsSpec => AddedIsDisplayed
<1>1. FormsInv /\ [FormsNext]_formsVars => [event'.what = "added" => lookup.displayed = event'.stock]_formsVars
  <2> SUFFICES ASSUME FormsInv, FormsNext, event'.what = "added"
               PROVE  lookup.displayed = event'.stock
    OBVIOUS
  <2>1. event' # Nothing /\ event' # Shown("draft") /\ event' # GetDraft(form)
    BY DEF Nothing, Shown, GetDraft, Draft
  <2>2. AcceptTicker
    <3>1. ~OpenForm /\ ~CloseForm /\ ~PressAdd /\ ~CreateStock /\ ~FindTicker
      BY <2>1 DEF OpenForm, CloseForm, PressAdd, CreateStock, FindTicker
    <3>2. \A a : ~ChooseAccount(a) /\ ~ChooseReferenceAccount(a) /\ ~CreateAccount(a)
      BY <2>1 DEF ChooseAccount, ChooseReferenceAccount, CreateAccount
    <3>3. \A r, text : ~EditRow(r, text) /\ ~EditTicker(text)
      BY <2>1 DEF EditRow, EditTicker
    <3> QED BY <3>1, <3>2, <3>3 DEF FormsNext
  <2>3. lookup.accept /\ event'.stock = lookup.quote
    BY <2>1, <2>2 DEF AcceptTicker
  <2> QED BY <2>3 DEF FormsInv, LookupSound
<1>2. [](FormsInv) /\ [][FormsNext]_formsVars
        => [][event'.what = "added" => lookup.displayed = event'.stock]_formsVars
  BY <1>1, PTL
<1> QED BY <1>2, FormsHold DEF FormsSpec, AddedIsDisplayed
=============================================================================
