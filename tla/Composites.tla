----------------------------- MODULE Composites -----------------------------
(* commands::Commands, a list of commands undone and redone as one, and the  *)
(* three commands it is filled with when a profile is ensured at the start:  *)
(* AddProfileCommand, SetDefaultProfileCommand, SetActiveProfileCommand.     *)
(* Operators only; the assumptions at the end check them on every short list *)
(* of commands in a handful of worlds.                                       *)
EXTENDS ProfileStore

(* What the commands work on: the profiles, and the default profile of the   *)
(* settings (a sequence of at most one name).                                *)
World(p, default) == [profiles |-> p, default |-> default]

AddCommand(name, email) == [kind |-> "add", name |-> name, email |-> email]
SetActiveCommand(name) == [kind |-> "active", name |-> name, previous |-> <<>>]
SetDefaultCommand(name) == [kind |-> "default", name |-> name, previous |-> <<>>]

(* What running a command came to: the command remembers what it replaced.   *)
Done(c, w) == [ok |-> TRUE, command |-> c, world |-> w]
Failed(c, w) == [ok |-> FALSE, command |-> c, world |-> w]

RedoAdd(c, w) ==
  IF MayAdd(w.profiles, c.name)
  THEN Done(c, [w EXCEPT !.profiles = AddProfile(@, c.name, c.email)])
  ELSE Failed(c, w)
UndoAdd(c, w) ==
  IF MayRemove(w.profiles, c.name)
  THEN Done(c, [w EXCEPT !.profiles = RemoveProfile(@, c.name)])
  ELSE Failed(c, w)

ActiveName(p) ==
  LET e == ActiveProfile(p) IN IF e = <<>> THEN <<>> ELSE <<e[1].value.name>>
RedoActive(c, w) ==
  IF ProfileExists(w.profiles, c.name)
  THEN Done([c EXCEPT !.previous = ActiveName(w.profiles)],
            [w EXCEPT !.profiles = SetActiveProfile(@, c.name)])
  ELSE Failed(c, w)
UndoActive(c, w) ==
  IF c.previous # <<>> /\ ProfileExists(w.profiles, c.previous[1])
  THEN Done(c, [w EXCEPT !.profiles = SetActiveProfile(@, c.previous[1])])
  ELSE Failed(c, w)

RedoDefault(c, w) ==
  Done([c EXCEPT !.previous = w.default], [w EXCEPT !.default = <<c.name>>])
UndoDefault(c, w) == Done(c, [w EXCEPT !.default = c.previous])

Redo(c, w) == CASE c.kind = "add" -> RedoAdd(c, w)
                [] c.kind = "active" -> RedoActive(c, w)
                [] c.kind = "default" -> RedoDefault(c, w)
Undo(c, w) == CASE c.kind = "add" -> UndoAdd(c, w)
                [] c.kind = "active" -> UndoActive(c, w)
                [] c.kind = "default" -> UndoDefault(c, w)

-----------------------------------------------------------------------------
(* A composite.  A label of one command is a name, one of several the        *)
(* sequence of theirs; NoLabel is the empty string.                          *)
NoLabel == <<>>
Labelled(label) == [commands |-> <<>>, label |-> label, disabled |-> FALSE]
FromCommand(c) == [Labelled(NoLabel) EXCEPT !.commands = <<c>>]
LabelOf(c) == <<c.kind>>

(* makeAndDo: what comes of a command that failed is not a composite.        *)
MakeAndDo(c, w) == Redo(c, w)

(* operator<<: an empty composite adds nothing, not even its label; one that *)
(* failed to be made is passed over.                                         *)
Joined(all, one) ==
  IF one.commands = <<>> THEN all
  ELSE [commands |-> all.commands \o one.commands,
        label |-> all.label \o one.label,
        disabled |-> all.disabled \/ one.disabled]
JoinedIfMade(all, made) ==
  IF made.ok THEN Joined(all, FromCommand(made.command)) ELSE all

Cleared(all) == [all EXCEPT !.commands = <<>>]
DisabledAs(all, disable) == [all EXCEPT !.disabled = disable]
GetLabel(all) ==
  IF all.label = NoLabel /\ Len(all.commands) = 1 THEN LabelOf(all.commands[1])
  ELSE all.label
GetLabels(all) == [i \in DOMAIN all.commands |-> LabelOf(all.commands[i])]
CombinedLabels(all) == FlattenSeq(GetLabels(all))

(* One more command of a list run: done holds what it came to so far, and    *)
(* once a command failed none is run any more.                               *)
RunNext(done, i, result) ==
  [ok |-> result.ok, world |-> result.world, failedAt |-> IF result.ok THEN 0 ELSE i,
   commands |-> [done.commands EXCEPT ![i] = result.command]]
Begun(cs, w) == [ok |-> TRUE, world |-> w, failedAt |-> 0, commands |-> cs]

RedoRange(done, first, last) ==
  FoldLeft(LAMBDA d, i : IF d.ok THEN RunNext(d, i, Redo(d.commands[i], d.world)) ELSE d,
           done, [k \in 1 .. last - first + 1 |-> first + k - 1])
UndoRange(done, first, last) ==    \* from last down to first
  FoldLeft(LAMBDA d, i : IF d.ok THEN RunNext(d, i, Undo(d.commands[i], d.world)) ELSE d,
           done, [k \in 1 .. last - first + 1 |-> last - k + 1])

(* Commands::redo takes back what it redid when a command fails, and         *)
(* Commands::undo redoes what it undid; both give up where that fails too.   *)
(* restored tells whether it did not.                                        *)
RedoAll(cs, w) ==
  LET d == RedoRange(Begun(cs, w), 1, Len(cs))
      r == UndoRange([d EXCEPT !.ok = TRUE], 1, d.failedAt - 1)
  IN IF d.ok THEN d @@ [restored |-> TRUE]
     ELSE [r EXCEPT !.ok = FALSE] @@ [restored |-> r.ok]
UndoAll(cs, w) ==
  LET d == UndoRange(Begun(cs, w), 1, Len(cs))
      r == RedoRange([d EXCEPT !.ok = TRUE], d.failedAt + 1, Len(cs))
  IN IF d.ok THEN d @@ [restored |-> TRUE]
     ELSE [r EXCEPT !.ok = FALSE] @@ [restored |-> r.ok]

-----------------------------------------------------------------------------
(* EnsureProfileController: a profile is entered and made the default one    *)
(* (or an existing one is chosen), then the default one is activated; all of *)
(* it goes on the undo stack as one entry.                                   *)
EnsureLabel == <<"ensure">>
EnsureCommand == DisabledAs(Labelled(EnsureLabel), TRUE)

Activated(all, w) ==
  LET made == MakeAndDo(SetActiveCommand(w.default[1]), w)
  IN [all |-> JoinedIfMade(all, made), world |-> made.world]
Entered(all, w, name, email) ==
  LET add == MakeAndDo(AddCommand(name, email), w)
      def == MakeAndDo(SetDefaultCommand(name), add.world)
  IN IF ~add.ok THEN [all |-> Cleared(all), world |-> w]
     ELSE [all |-> JoinedIfMade(JoinedIfMade(Cleared(all), add), def), world |-> def.world]
Chosen(all, w, name) ==
  LET def == MakeAndDo(SetDefaultCommand(name), w)
  IN [all |-> JoinedIfMade(Cleared(all), def), world |-> def.world]

-----------------------------------------------------------------------------
SomeCommands ==
  {AddCommand(n, 1) : n \in SomeNames} \cup {SetActiveCommand(n) : n \in SomeNames}
  \cup {SetDefaultCommand(n) : n \in SomeNames}
SomeLists == UNION {[1 .. n -> SomeCommands] : n \in 0 .. 3}
SomeWorlds ==
  {World(p, d) : p \in StoresAfter[2], d \in {<<>>, <<"a">>}}

(* What the rest of the program sees of a world. *)
Seen(w) == [profiles |-> {<<e.value.name, e.value.email>> :
                          e \in ToSet(GetEntries(w.profiles.store, Every, "exclude"))},
            active |-> ActiveName(w.profiles), default |-> w.default]

(* A list that fails leaves what it found, provided what it takes back can   *)
(* be taken back; otherwise, an error of another command is returned and     *)
(* half of the list remains done.                                            *)
ASSUME AllOrNothing ==
  \A cs \in SomeLists : \A w \in SomeWorlds :
    LET r == RedoAll(cs, w)
    IN ~r.ok /\ r.restored => Seen(r.world) = Seen(w)

(* Only the first activation of a profile cannot be taken back: the store    *)
(* can be told a profile, but not to have none.  It is why the entry that    *)
(* ensures a profile is disabled: to undo it always fails.                   *)
ASSUME FirstActivationStays ==
  \A cs \in SomeLists : \A w \in SomeWorlds :
    LET r == RedoAll(cs, w)
        u == UndoAll(r.commands, r.world)
    IN /\ ~r.restored =>
            \E i \in DOMAIN cs : cs[i].kind = "active" /\ r.commands[i].previous = <<>>
       /\ r.ok /\ ~u.ok =>
            \E i \in DOMAIN cs : cs[i].kind = "active" /\ r.commands[i].previous = <<>>

(* What was done as one is undone as one and redone as one.                  *)
ASSUME UndoneAndRedone ==
  \A cs \in SomeLists : \A w \in SomeWorlds :
    LET r == RedoAll(cs, w)
        u == UndoAll(r.commands, r.world)
        a == RedoAll(u.commands, u.world)
    IN r.ok /\ u.ok => /\ Seen(u.world) = Seen(w)
                       /\ a.ok /\ Seen(a.world) = Seen(r.world)

(* Ensuring a profile ends with the default one active, however it came to   *)
(* be, unless the name entered is taken; the entry stays disabled, holds     *)
(* every command that had an effect, and cannot be undone.                   *)
ASSUME EnsuredIsActive ==
  \A p \in {q \in StoresAfter[2] : q.active = <<>>} : \A n \in SomeNames :
    LET w == World(p, <<>>)
        first == IF ProfileExists(p, n) THEN Chosen(EnsureCommand, w, n)
                 ELSE Entered(EnsureCommand, w, n, 1)
        done == Activated(first.all, first.world)
    IN /\ ActiveName(done.world.profiles) = done.world.default
       /\ done.all.disabled /\ GetLabel(done.all) = EnsureLabel
       /\ CombinedLabels(done.all) =
            (IF ProfileExists(p, n) THEN <<>> ELSE <<"add">>) \o <<"default", "active">>
       /\ ~UndoAll(done.all.commands, done.world).ok
=============================================================================
