------------------------------- MODULE LogFiles -------------------------------
(* The log of the program: common::RingFile behind logging::LogManager, and  *)
(* the log viewer that reads the current file back. The main thread and the  *)
(* thread that fetches prices log through the one ring file, which has no    *)
(* lock: log() is a sequence of steps here, and the steps of the two threads *)
(* interleave.                                                               *)
EXTENDS Integers, Sequences, FiniteSets

CONSTANTS
  Main, Fetcher,   \* the two threads that log
  Capacity,        \* maxSizeMB, counted in lines
  MaxFiles,        \* RingFileConfig::maxFiles
  NoFile,          \* no file of that name
  Garbled,         \* a file that holds nobody knows what
  Closed,          \* the stream is not open
  Unlinked,        \* the stream is open on a file that was removed
  MaxLines,        \* bound: lines under one base name
  MaxStarts,       \* bound: starts of the program
  TakesUpRaced     \* bound: whether a start takes up what threads that met left

ASSUME LogFilesAssumption ==
  /\ {Capacity, MaxFiles} \subseteq Nat \ {0}
  /\ {MaxLines, MaxStarts} \subseteq Nat /\ TakesUpRaced \in BOOLEAN
  /\ Main # Fetcher /\ NoFile # Garbled /\ {NoFile, Garbled} \cap Seq(Nat) = {}
  /\ Closed # Unlinked /\ {Closed, Unlinked} \cap (0 .. MaxFiles - 1) = {}

VARIABLES
  ring,            \* the files of this base name, index 0 is the current one
  stream,          \* RingFile::_file: the file it is open on, and good()
  buffer,          \* the lines the stream holds back
  torn,            \* two calls on the stream overlapped
  size,            \* RingFile::_initialFileSize and _bytesWritten
  pc, level, slot, \* of each thread: its step in log(), the level of its line,
                   \* and the index its rotation has come to
  viewer,          \* LogViewerDialog
  running, starts,
  \* history
  lines,           \* lines written under this base name
  raced,           \* two threads were in the ring file at once
  cut              \* the program died in the middle of a rotation

threadV == <<pc, level, slot>>
streamV == <<stream, buffer, torn, size>>
procV == <<running, starts>>
history == <<lines, raced, cut>>
vars == <<ring, streamV, threadV, viewer, procV, history>>

Threads == {Main, Fetcher}
Levels == {"Info", "Error"}
Slots == 0 .. MaxFiles - 1
Numbers(ls) == [i \in DOMAIN ls |-> ls[i].n]
Line(n, l) == [n |-> n, level |-> l]
LinesOf(f) == IF f \in {NoFile, Garbled} THEN <<>> ELSE f

Entries(ls) == {ls[k] : k \in DOMAIN ls}
OnDisk == UNION {Entries(LinesOf(ring[i])) : i \in Slots}
Greatest(S) == CHOOSE n \in S : \A m \in S : m <= n

NewestOf(ls) == IF ls = <<>> THEN 0 ELSE ls[Len(ls)]

Other(t) == CHOOSE u \in Threads : u # t
Hidden == [shown |-> FALSE, auto |-> TRUE, timer |-> FALSE, upTo |-> 0]

Init ==
  /\ ring = [i \in Slots |-> NoFile]
  /\ stream = [at |-> Closed, good |-> TRUE] /\ buffer = <<>> /\ torn = FALSE
  /\ size = [initial |-> 0, bytes |-> 0]
  /\ pc = [t \in Threads |-> "idle"] /\ level = [t \in Threads |-> "Info"]
  /\ slot = [t \in Threads |-> 0]
  /\ viewer = Hidden /\ running = FALSE /\ starts = 0
  /\ lines = 0 /\ raced = FALSE /\ cut = FALSE

-------------------------------------------------------------------------------
WouldExceed == size.initial + size.bytes + 1 > Capacity

(* What RingFile::_wouldExceed says for one more line. The count has no     *)
(* lock either: read while the other thread counts, it may be anything, and *)
(* is for good once calls on the stream overlapped.                         *)
Exceeds ==
  IF torn \/ \E t \in Threads : pc[t] \in {"reopen", "write"} THEN BOOLEAN
  ELSE {WouldExceed}

(* The calls on the stream, as they are when no two of them overlap: each    *)
(* sets ring, stream, buffer and size.                                       *)

(* The stream delivers ls to the file it is open on, which keeps of a line  *)
(* its number.                                                              *)
Delivered(r, ls) ==
  IF stream.at \in Slots /\ r[stream.at] # Garbled /\ ls # <<>>
  THEN [r EXCEPT ![stream.at] = LinesOf(@) \o Numbers(ls)] ELSE r

(* RingFile::flush and close do nothing unless the stream is good and open. *)
Usable == stream.good /\ stream.at # Closed
Flushed ==
  IF Usable THEN ring' = Delivered(ring, buffer) /\ buffer' = <<>>
  ELSE UNCHANGED <<ring, buffer>>
FlushCall == Flushed /\ UNCHANGED <<stream, size>>
CloseCall ==
  /\ Flushed
  /\ stream' = IF stream.good THEN [stream EXCEPT !.at = Closed] ELSE stream
  /\ UNCHANGED size

(* RingFile::_openCurrent: the size is read before the file is opened; to   *)
(* open a stream that is open already fails and leaves it marked failed.    *)
OpenCurrent ==
  /\ size' = [initial |-> Len(LinesOf(ring[0])), bytes |-> 0]
  /\ stream' = IF stream.at = Closed THEN [at |-> 0, good |-> TRUE]
               ELSE [stream EXCEPT !.good = FALSE]
  /\ ring' = IF stream.at = Closed /\ ring[0] = NoFile
             THEN [ring EXCEPT ![0] = <<>>] ELSE ring
  /\ UNCHANGED buffer

(* The insertion of a line fails on a stream that was closed; the stream    *)
(* may deliver what it holds at any insertion.                              *)
Inserted(line) ==
  /\ IF ~ Usable THEN UNCHANGED <<ring, buffer>>
     ELSE LET held == Append(buffer, line) IN
          \/ ring' = Delivered(ring, held) /\ buffer' = <<>>
          \/ ring' = ring /\ buffer' = held
  /\ stream' = [stream EXCEPT !.good = @ /\ stream.at # Closed]
  /\ size' = [size EXCEPT !.bytes = @ + 1]

(* The stream has no lock. Calls on it that overlap are a data race: what   *)
(* it is open on, holds and counts is undefined for the rest of the process *)
(* (read as good, open and holding nothing), and so is what the file comes  *)
(* to hold that it was open on, or that it opens.                           *)
Spoils ==
  \E new \in IF ring[0] = NoFile THEN {NoFile, Garbled} ELSE {Garbled} :
    ring' = [i \in Slots |-> IF i = 0 THEN new
                             ELSE IF i = stream.at THEN Garbled ELSE ring[i]]
Tears ==
  /\ Spoils
  /\ stream' = [at |-> Unlinked, good |-> TRUE] /\ buffer' = <<>>
  /\ size' = [initial |-> 0, bytes |-> 0]

(* The other thread may be inside a call, from the checks that precede it.  *)
InCall(t) ==
  \/ pc[t] \in {"close", "reopen", "write", "flush"}
  \/ pc[t] = "ensure" /\ stream.at = Closed
Call(t, whole) ==
  \/ ~torn /\ torn' = FALSE /\ whole
  \/ (torn \/ InCall(Other(t))) /\ torn' = TRUE /\ Tears

-------------------------------------------------------------------------------
Step(t, from, to) == running /\ pc[t] = from /\ pc' = [pc EXCEPT ![t] = to]

(* LogManager::log of an enabled line. RingFile::writeLine looks at the     *)
(* stream first: one that failed sends the line to std::cerr, and nothing   *)
(* here changes.                                                            *)
Log(t, l) ==
  /\ stream.good
  /\ Step(t, "idle", "ensure")
  /\ lines < MaxLines
  /\ level' = [level EXCEPT ![t] = l]
  /\ raced' = (raced \/ pc[Other(t)] # "idle")
  /\ UNCHANGED <<ring, streamV, slot, viewer, procV, lines, cut>>

(* RingFile::_ensureOpenAndRotateIfNeeded, up to the call of _rotateNow.    *)
Ensure(t) ==
  /\ running /\ pc[t] = "ensure"
  /\ \/ (stream.at = Closed \/ torn) /\ Call(t, OpenCurrent) /\ UNCHANGED pc
     \/ /\ stream.at # Closed
        /\ \E exceeds \in Exceeds :
             pc' = [pc EXCEPT ![t] = IF exceeds THEN "close" ELSE "write"]
        /\ UNCHANGED <<ring, streamV>>
  /\ UNCHANGED <<slot, level, viewer, procV, history>>

(* RingFile::_rotateNow closes the stream, which delivers what it holds.    *)
Close(t) ==
  /\ Step(t, "close", "remove")
  /\ Call(t, CloseCall)
  /\ slot' = [slot EXCEPT ![t] = MaxFiles - 1]
  /\ UNCHANGED <<level, viewer, procV, history>>

(* A stream stays open on its file, whatever becomes of the name.           *)
Removed(i) ==
  /\ ring' = [ring EXCEPT ![i] = NoFile]
  /\ stream' = [stream EXCEPT !.at = IF @ = i THEN Unlinked ELSE @]

(* Mutant: the file is copied to its new name and the old one is kept.      *)
RenamedByCopy(i) ==
  /\ ring' = [ring EXCEPT ![i] = IF ring[i - 1] = NoFile THEN @ ELSE ring[i - 1]]
  /\ stream' = IF ring[i - 1] = NoFile THEN stream
               ELSE [stream EXCEPT !.at =
                       IF @ = i THEN Unlinked ELSE IF @ = i - 1 THEN i ELSE @]

(* File i - 1 takes the name of file i, and the place of one that is there. *)
Renamed(i) ==
  IF ring[i - 1] = NoFile THEN UNCHANGED <<ring, stream>>
  ELSE /\ ring' = [ring EXCEPT ![i] = ring[i - 1], ![i - 1] = NoFile]
       /\ stream' = [stream EXCEPT !.at =
                       IF @ = i THEN Unlinked ELSE IF @ = i - 1 THEN i ELSE @]

(* The loop of _rotateNow from the oldest file to the newest: each is       *)
(* removed and the next takes its name. A ring of one file has no next, and *)
(* that file is removed.                                                    *)
RemoveFile(t) ==
  /\ Step(t, "remove", IF slot[t] = 0 THEN "reopen" ELSE "rename")
  /\ Removed(slot[t])
  /\ UNCHANGED <<buffer, torn, size, slot, level, viewer, procV, history>>
RenameFile(t) ==
  /\ Step(t, "rename", IF slot[t] = 1 THEN "reopen" ELSE "remove")
  /\ Renamed(slot[t])
  /\ slot' = [slot EXCEPT ![t] = @ - 1]
  /\ UNCHANGED <<buffer, torn, size, level, viewer, procV, history>>

Reopen(t) ==
  /\ Step(t, "reopen", "write")
  /\ Call(t, OpenCurrent)
  /\ UNCHANGED <<level, slot, viewer, procV, history>>

(* The insertion of the line, and `_bytesWritten += additional`.            *)
Write(t) ==
  /\ Step(t, "write", IF level[t] = "Info" THEN "idle" ELSE "flush")
  /\ lines' = lines + 1
  /\ Call(t, Inserted(Line(lines + 1, level[t])))
  /\ UNCHANGED <<level, slot, viewer, procV, raced, cut>>

(* Mutant: only Info lines are flushed at once.                             *)
FlushInfo(t) ==
  /\ Step(t, "flush", "idle")
  /\ IF level[t] = "Info" THEN Call(t, FlushCall) ELSE UNCHANGED <<ring, streamV>>
  /\ level' = [level EXCEPT ![t] = "Info"]
  /\ UNCHANGED <<slot, viewer, procV, history>>

(* LogManager::log flushes after every line that is not an Info line.       *)
Flush(t) ==
  /\ Step(t, "flush", "idle")
  /\ IF level[t] = "Info" THEN UNCHANGED <<ring, streamV>> ELSE Call(t, FlushCall)
  /\ level' = [level EXCEPT ![t] = "Info"]
  /\ UNCHANGED <<slot, viewer, procV, history>>

-------------------------------------------------------------------------------
(* LogViewerDialog::_loadLogFile: the log is flushed, then the current file *)
(* is read; that it cannot be opened is itself logged.                      *)
Load(shown, timer) ==
  /\ Call(Main, FlushCall)
  /\ raced' = (raced \/ pc[Fetcher] # "idle")
  /\ IF ring'[0] # NoFile
     THEN /\ viewer' = [viewer EXCEPT !.shown = shown, !.timer = timer,
                            !.upTo = IF raced' THEN 0 ELSE NewestOf(LinesOf(ring'[0]))]
          /\ UNCHANGED <<pc, level>>
     ELSE /\ lines < MaxLines
          /\ viewer' = [viewer EXCEPT !.shown = shown, !.timer = timer,
                                      !.upTo = 0]
          /\ \/ /\ stream.good
                /\ pc' = [pc EXCEPT ![Main] = "ensure"]
                /\ level' = [level EXCEPT ![Main] = "Error"]
             \/ (~stream.good \/ torn') /\ UNCHANGED <<pc, level>>
  /\ UNCHANGED <<slot, procV, lines, cut>>

Free == running /\ pc[Main] = "idle"

(* Mutant: the dialog is shown without its timer.                           *)
ShowViewerUntimed == Free /\ ~viewer.shown /\ Load(TRUE, FALSE)

(* DebugMenuController::_onRequestLogViewer and showEvent.                  *)
ShowViewer == Free /\ ~viewer.shown /\ Load(TRUE, viewer.auto)
Timeout == Free /\ viewer.timer /\ Load(viewer.shown, viewer.timer)
(* The Reload button, which is disabled only once auto reload was toggled.  *)
ReloadPressed == Free /\ viewer.shown /\ Load(viewer.shown, viewer.timer)

ToggleAuto ==
  /\ Free /\ viewer.shown
  /\ viewer' = [viewer EXCEPT !.auto = ~@, !.timer = ~viewer.auto]
  /\ UNCHANGED <<ring, streamV, threadV, procV, history>>

(* LogViewerDialog::closeEvent and hideEvent.                               *)
HideViewer ==
  /\ Free /\ viewer.shown
  /\ viewer' = [viewer EXCEPT !.shown = FALSE, !.timer = FALSE,
                                    !.upTo = 0]
  /\ UNCHANGED <<ring, streamV, threadV, procV, history>>

-------------------------------------------------------------------------------
(* LogManager::initialize: the base name has the time to the second, so a   *)
(* start within the second of the one before takes up its files.            *)
Start ==
  /\ ~running /\ starts < MaxStarts /\ running' = TRUE
  /\ starts' = starts + 1
  /\ \E again \in BOOLEAN :
       /\ again => starts # 0 /\ (raced => TakesUpRaced)
       /\ ring' = [i \in Slots |->
                    IF again /\ ring[i] # NoFile THEN ring[i]
                    ELSE IF i = 0 THEN <<>> ELSE NoFile]
       /\ size' = [initial |-> Len(LinesOf(ring'[0])), bytes |-> 0]
       /\ lines' = IF again THEN Greatest(OnDisk \cup {0}) ELSE 0
       /\ cut' = (again /\ cut) /\ raced' = (again /\ raced)
  /\ stream' = [at |-> 0, good |-> TRUE] /\ buffer' = <<>> /\ torn' = FALSE
  /\ viewer' = Hidden
  /\ UNCHANGED threadV

Stopped ==
  /\ running' = FALSE /\ viewer' = Hidden
  /\ pc' = [t \in Threads |-> "idle"]
  /\ level' = [t \in Threads |-> "Info"] /\ slot' = [t \in Threads |-> 0]
  /\ stream' = [at |-> Closed, good |-> TRUE] /\ buffer' = <<>> /\ torn' = FALSE
  /\ size' = [initial |-> 0, bytes |-> 0]
  /\ UNCHANGED <<starts, lines, raced>>

(* The destructors close the stream, which delivers what it holds.          *)
Exit ==
  /\ running /\ \A t \in Threads : pc[t] = "idle"
  /\ IF torn THEN Spoils ELSE ring' = Delivered(ring, buffer)
  /\ cut' = cut
  /\ Stopped

(* The process dies, and what the stream holds with it.                     *)
Die ==
  /\ running
  /\ IF torn \/ \A t \in Threads : InCall(t) THEN Spoils ELSE ring' = ring
  /\ cut' = (cut \/ \E t \in Threads : pc[t] \in {"remove", "rename", "reopen"})
  /\ Stopped

LogStep(t) ==
  Ensure(t) \/ Close(t) \/ RemoveFile(t) \/ RenameFile(t) \/ Reopen(t) \/ Write(t)
    \/ Flush(t)

Next ==
  \/ \E l \in Levels : Log(Main, l)
  \/ Log(Fetcher, "Error")
  \/ \E t \in Threads : LogStep(t)
  \/ ShowViewer \/ Timeout \/ ReloadPressed \/ ToggleAuto \/ HideViewer
  \/ Start \/ Exit \/ Die

Spec == Init /\ [][Next]_vars
          /\ \A t \in Threads : WF_vars(LogStep(t))
          /\ WF_vars(Timeout)

-------------------------------------------------------------------------------
(* Properties. *)

(* The parts of the log: the files, the highest index the oldest, and what  *)
(* is on the way to the current one.                                        *)
Held == IF stream.at = 0 THEN Numbers(buffer) ELSE <<>>
Parts == -1 .. MaxFiles - 1
Part(i) == IF i = -1 THEN Held ELSE LinesOf(ring[i])
Written == UNION {Entries(Part(i)) : i \in Parts}
Ascending(ls) == \A i, j \in DOMAIN ls : i < j => ls[i] < ls[j]

(* From the oldest file to the newest the lines are in the order in which   *)
(* they were written, none twice, however the two threads rotate, remove    *)
(* and rename for each other, but for what is undefined: the files that a   *)
(* stream was open on, or opened, once calls on it overlapped. As long as   *)
(* the threads did not meet inside the ring file at all, and no rotation    *)
(* was cut off, there is no gap: the files hold the newest lines, at least  *)
(* as many as all files but one have room for, and no file outgrew its      *)
(* limit (RingFile::writeLine, _rotateNow, _openCurrent).                   *)
InOrder ==
  /\ \A i \in Parts : Ascending(Part(i))
  /\ \A i, j \in Parts : i > j =>
       \A m \in Entries(Part(i)), n \in Entries(Part(j)) : m < n
  /\ (running /\ ~raced /\ ~cut) =>
       /\ \A i \in Slots : ring[i] # Garbled /\ Len(LinesOf(ring[i])) <= Capacity
       /\ Written \subseteq 1 .. lines
       /\ \A n \in 1 .. lines :
            lines - n < (MaxFiles - 1) * Capacity \/ (\E m \in Written : m < n)
              => n \in Written

(* Once log() returned for a warning or an error, the line is not in the    *)
(* stream's buffer, where it would die with the process, also when the      *)
(* other thread rotated in between: unless the stream failed for good or    *)
(* calls on it overlapped (LogManager::log flushes what is not Info).       *)
UrgentOnDisk ==
  (stream.good /\ ~torn /\ \A t \in Threads : pc[t] = "idle")
    => \A i \in 1 .. Len(buffer) : buffer[i].level = "Info"

(* The newest line of the current file, or of what is on the way to it.     *)
Newest == NewestOf(LinesOf(ring[0]) \o Held)

(* A viewer that stays shown with auto reload on does not fall behind for   *)
(* good: again and again it shows the newest line of the current file, also *)
(* lines the log held back and after the log was rotated under it           *)
(* (LogViewerDialog::showEvent, toggled, _loadLogFile).                     *)
ViewerCatchesUp ==
  []<>(viewer.upTo = Newest \/ ~viewer.shown \/ ~viewer.auto \/ raced)
===============================================================================
