---------------------------- MODULE ProfileStore ----------------------------
(* What all stores are made of: the signals a part of the program sends to   *)
(* those who subscribed (connections/), the cached entries with their states *)
(* (store::BaseStore), and the store of the profiles, the one whose entries  *)
(* can be New, Modified and Deleted.  Operators only; the assumptions at the *)
(* end check them on every short history of calls.                           *)
EXTENDS Integers, Sequences, SequencesExt

CONSTANT NoFunction      \* a null callback

-----------------------------------------------------------------------------
(* Signals.  The callbacks of a signal by the id of their subscription; ids  *)
(* are never used again.  A Connection holds the id of one subscription, or  *)
(* NoToken once it was moved from or reset.                                  *)
NoToken == -1
Silent == [next |-> 0, subscribers |-> <<>>, connections |-> <<>>]

Disconnected(s, id) ==
  [s EXCEPT !.subscribers = [i \in DOMAIN @ \ {id} |-> @[i]]]

(* Signal::connect; a null callback is refused by an exception. *)
MayConnect(f) == f # NoFunction
Connected(s, f) ==
  [next |-> s.next + 1,
   subscribers |-> [i \in DOMAIN s.subscribers \cup {s.next} |->
                      IF i = s.next THEN f ELSE s.subscribers[i]],
   connections |-> Append(s.connections, s.next)]

(* Connection::reset, which the destructor and an assignment call too. *)
Reset(s, c) ==
  IF s.connections[c] = NoToken THEN s
  ELSE [Disconnected(s, s.connections[c]) EXCEPT !.connections[c] = NoToken]

(* Connection::operator=: what the target held is disconnected first. *)
Moved(s, from, to) ==
  IF from = to THEN s
  ELSE LET r == Reset(s, to)
       IN [r EXCEPT !.connections[to] = s.connections[from],
                    !.connections[from] = NoToken]

(* Signal::notify goes over a copy of the subscribers: each of them is       *)
(* called, though the callbacks reset the connections in drops meanwhile.    *)
Called(s) == DOMAIN s.subscribers
AfterNotify(s, drops) ==
  FoldLeft(LAMBDA r, c : Reset(r, c), s, SetToSeq(drops))

-----------------------------------------------------------------------------
(* A BaseStore.  said is everything its subscribers were told, told is       *)
(* _alreadyNotified, maybe the flag that the title of the window shows.      *)
Value(id, name, email) == [id |-> id, name |-> name, email |-> email]
Entry(v, st) == [value |-> v, state |-> st]
EmptyStore == [entries |-> <<>>, maybe |-> FALSE, remap |-> <<>>, next |-> -2,
               told |-> FALSE, said |-> <<>>]

Say(s, signal, values) ==
  [s EXCEPT !.said = Append(@, [signal |-> signal, values |-> values])]

(* _notifyStoreChanged: once per commit, where check is set. *)
SayChanged(s, check) ==
  IF check /\ s.told THEN s
  ELSE [Say(s, "changed", <<>>) EXCEPT !.told = check]
SayItems(s, signal, values, check) == SayChanged(Say(s, signal, values), check)
SayCommitted(s) ==
  LET a == SayItems(s, "added", <<>>, TRUE)
      r == SayItems(a, "removed", <<>>, TRUE)
  IN [SayItems(r, "updated", <<>>, TRUE) EXCEPT !.told = FALSE]

MarkDirty(s) == [Say(s, "dirty", <<>>) EXCEPT !.maybe = TRUE]
ClearDirty(s) == [Say(s, "clean", <<>>) EXCEPT !.maybe = FALSE]

(* FilterOptions: a field with the value it is to have, and the policy for   *)
(* deleted entries.  Of the three policies two do the same.                  *)
Every == [field |-> "none"]
With(field, is) == [field |-> field, is |-> is]
Eval(f, deletion, e) ==
  /\ f.field # "none" => e.value[f.field] = f.is
  /\ deletion = "include" \/ e.state # "Deleted"

GetEntries(s, f, deletion) == SelectSeq(s.entries, LAMBDA e : Eval(f, deletion, e))
GetIds(s, f, deletion) == {e.value.id : e \in ToSet(GetEntries(s, f, deletion))}
GetFirst(s, f, deletion) ==        \* at most one entry
  LET es == GetEntries(s, f, deletion) IN SubSeq(es, 1, IF es = <<>> THEN 0 ELSE 1)
GetValues(s, deletion) ==
  LET es == GetEntries(s, Every, deletion) IN [i \in DOMAIN es |-> es[i].value]

FindEntry(s, id) == SelectInSeq(s.entries, LAMBDA e : e.value.id = id)
IsDeleted(s, id) ==
  FindEntry(s, id) # 0 /\ s.entries[FindEntry(s, id)].state = "Deleted"
HasNonDeleted(s) == \E e \in ToSet(s.entries) : e.state # "Deleted"
IsDirty(s) == \E e \in ToSet(s.entries) : e.state # "Clean"
AllDirty(s) == \A e \in ToSet(s.entries) : e.state # "Clean"

AddEntry(s, v) ==
  LET new == [v EXCEPT !.id = s.next]
      added == [MarkDirty(s) EXCEPT !.next = @ - 1,
                                    !.entries = Append(@, Entry(new, "New"))]
  IN SayItems(added, "added", <<new>>, FALSE)

AddCleanEntries(s, values) ==
  SayChanged([s EXCEPT !.entries =
                @ \o [i \in DOMAIN values |-> Entry(values[i], "Clean")]], FALSE)

(* _updateEntry; an unknown id still marks the store dirty. *)
UpdateEntry(s, v, st) ==
  LET marked == IF st = "Clean" THEN s ELSE MarkDirty(s)
      i == FindEntry(s, v.id)
  IN IF i = 0 THEN marked
     ELSE SayItems([marked EXCEPT !.entries[i] = Entry(v, st)], "updated", <<v>>, FALSE)

RemoveEntry(s, id) ==
  [s EXCEPT !.entries = SelectSeq(@, LAMBDA e : e.value.id # id)]

(* _deleteEntry: a new entry goes at once, and nobody is told. *)
DeleteEntry(s, id) ==
  LET e == s.entries[FindEntry(s, id)]
  IN IF e.state = "New" THEN RemoveEntry(s, id)
     ELSE MarkDirty(SayItems(UpdateEntry(s, e.value, "Deleted"),
                             "removed", <<e.value>>, FALSE))

ClearEntries(s) ==
  IF s.entries = <<>> THEN s ELSE [MarkDirty(s) EXCEPT !.entries = <<>>]

(* _commitEntry of an entry as the service returned it.  After a removal the *)
(* pointer found before names the slot, where the next entry is by then; of  *)
(* the last entry it is past the end, and nothing of the store is written.   *)
CommitEntry(s, temp, saved) ==
  LET i == FindEntry(s, temp)
      mapped == IF temp # saved.value.id /\ saved.state = "New"
                THEN [s EXCEPT !.remap = [k \in DOMAIN @ \cup {temp} |->
                                            IF k = temp THEN saved.value.id ELSE @[k]]]
                ELSE s
      kept == IF saved.state \in {"New", "Modified"}
              THEN [mapped EXCEPT !.entries[i].value = saved.value] ELSE mapped
      left == IF saved.state = "Deleted" THEN RemoveEntry(kept, saved.value.id) ELSE kept
  IN IF i > Len(left.entries) THEN left
     ELSE [left EXCEPT !.entries[i].state = "Clean"]

-----------------------------------------------------------------------------
(* ProfileStore: a store, the active profile (a sequence of at most one id), *)
(* the rows of the table and the row id to come.                             *)
FromRows(rows) == AddCleanEntries(EmptyStore, rows)
Profiles(rows) ==
  [store |-> FromRows(rows), active |-> <<>>, rows |-> ToSet(rows), row |-> Len(rows) + 1]

Named(p, name, deletion) == GetFirst(p.store, With("name", name), deletion)
HasProfiles(p) == HasNonDeleted(p.store)
ProfileNames(p) ==
  LET vs == GetValues(p.store, "exclude") IN [i \in DOMAIN vs |-> vs[i].name]
ProfileExists(p, name) == Named(p, name, "exclude") # <<>>
ActiveProfile(p) ==
  IF p.active = <<>> THEN <<>>
  ELSE GetFirst(p.store, With("id", p.active[1]), "exclude")
SetActiveProfile(p, name) ==
  IF ~ProfileExists(p, name) THEN p
  ELSE [p EXCEPT !.active = <<Named(p, name, "exclude")[1].value.id>>]

(* addProfile: a deleted profile of that name comes back with the new email. *)
MayAdd(p, name) == \A e \in ToSet(Named(p, name, "include")) : e.state = "Deleted"
AddProfile(p, name, email) ==
  LET old == Named(p, name, "include")
  IN CASE ~MayAdd(p, name) -> p
       [] old = <<>> -> [p EXCEPT !.store = AddEntry(@, Value(-1, name, email))]
       [] OTHER -> [p EXCEPT !.store =
                      UpdateEntry(@, [old[1].value EXCEPT !.email = email], "Modified")]

(* removeProfile finds deleted entries too. *)
MayRemove(p, name) == Named(p, name, "include") # <<>>
RemoveProfile(p, name) ==
  IF ~MayRemove(p, name) THEN p
  ELSE LET id == Named(p, name, "include")[1].value.id
       IN [p EXCEPT !.store = DeleteEntry(@, id),
                    !.active = IF @ = <<id>> THEN <<>> ELSE @]

CommitNew(p, e) ==
  LET saved == Entry([e.value EXCEPT !.id = p.row], "New")
  IN [store |-> CommitEntry(p.store, e.value.id, saved),
      active |-> IF p.active = <<e.value.id>> THEN <<p.row>> ELSE p.active,
      rows |-> p.rows \cup {saved.value}, row |-> p.row + 1]
CommitModified(p, e) ==
  [p EXCEPT !.store = CommitEntry(@, e.value.id, e),
            !.rows = {r \in @ : r.id # e.value.id} \cup {e.value}]
CommitDeleted(p, e) ==
  [p EXCEPT !.store = CommitEntry(@, e.value.id, e),
            !.rows = {r \in @ : r.id # e.value.id}]

(* commit goes over the entries by position.  A removal shifts them under    *)
(* the loop, which is undefined: Commit stands for the commits of stores     *)
(* without a deleted entry, the only ones the program makes.                 *)
NoneDeleted(p) == \A e \in ToSet(p.store.entries) : e.state # "Deleted"
Commit(p) ==
  LET step(q, i) == CASE q.store.entries[i].state = "New" -> CommitNew(q, q.store.entries[i])
                      [] q.store.entries[i].state = "Modified" -> CommitModified(q, q.store.entries[i])
                      [] OTHER -> q
      done == FoldLeft(step, p, [i \in DOMAIN p.store.entries |-> i])
  IN [done EXCEPT !.store = SayCommitted(@)]

(* StoreContainer::commit ends with the maps and the title cleared. *)
Saved(p) == [Commit(p) EXCEPT !.store = [ClearDirty(@) EXCEPT !.remap = <<>>]]

(* reload, after the file was replaced by one with these rows. *)
Reload(p, rows) ==
  [store |-> AddCleanEntries(ClearEntries(p.store), rows), active |-> p.active,
   rows |-> ToSet(rows), row |-> Len(rows) + 1]

-----------------------------------------------------------------------------
(* Every store that at most five calls lead to, from an empty file and from  *)
(* one with a profile.  Histories in which the program could not commit (a   *)
(* saved profile was removed) are continued by everything but a commit.      *)
SomeNames == {"a", "b"}
SomeRows == {<<>>, <<Value(1, "a", 1)>>}
NextStores(p) ==
  {AddProfile(p, n, e) : n \in SomeNames, e \in 1 .. 2}
  \cup {RemoveProfile(p, n) : n \in SomeNames}
  \cup {SetActiveProfile(p, n) : n \in SomeNames}
  \cup (IF NoneDeleted(p) THEN {Saved(p)} ELSE {})
Hushed(p) == [p EXCEPT !.store.said = <<>>]
StoresAfter[n \in 0 .. 5] ==
  IF n = 0 THEN {Hushed(Profiles(rows)) : rows \in SomeRows}
  ELSE StoresAfter[n - 1]
       \cup UNION {{Hushed(q) : q \in NextStores(p)} : p \in StoresAfter[n - 1]}
SomeStores == StoresAfter[5]

Signals(p) == {p.store.said[i].signal : i \in DOMAIN p.store.said}
ValuesShown(p) == ToSet(GetValues(p.store, "exclude"))

(* The look-ups agree with each other: an id names one entry, what is not    *)
(* deleted is what is found without the deleted ones, and a name is offered  *)
(* for selection if and only if a profile of that name exists.               *)
ASSUME LookupsAgree ==
  \A p \in SomeStores :
    LET s == p.store
        all == GetIds(s, Every, "include")
    IN /\ \A id \in all : s.entries[FindEntry(s, id)].value.id = id
       /\ GetIds(s, Every, "exclude") = {id \in all : ~IsDeleted(s, id)}
       /\ ToSet(ProfileNames(p)) = {n \in SomeNames : ProfileExists(p, n)}
       /\ HasProfiles(p) <=> ProfileNames(p) # <<>>
       /\ AllDirty(s) /\ ~IsDirty(s) <=> all = {}

(* A reload shows the file it read, and leaves nothing to commit; it keeps   *)
(* the active profile, which is another one or none if the file is older,    *)
(* and the title tells of changes though there are none.                     *)
ASSUME ReloadKeepsTheActive ==
  \A p \in SomeStores : \A rows \in SomeRows :
    LET q == Reload(p, rows)
    IN /\ ValuesShown(q) = q.rows /\ ~IsDirty(q.store)
       /\ q.active = p.active
       /\ p.store.entries # <<>> => q.store.maybe

(* No two entries of a store, deleted ones included, share a name, and the   *)
(* table never gets two profiles of one name: the look-up by name that       *)
(* addProfile makes covers what no save has removed from the file yet.       *)
ASSUME NamesStayUnique ==
  \A p \in SomeStores :
    /\ \A i, j \in DOMAIN p.store.entries :
         p.store.entries[i].value.name = p.store.entries[j].value.name => i = j
    /\ \A r, s \in p.rows : r.name = s.name => r = s

(* The title never shows a clean program while an entry waits for a save     *)
(* (it may show a dirty one without: a new profile taken back leaves it).    *)
ASSUME DirtIsAnnounced == \A p \in SomeStores : IsDirty(p.store) => p.store.maybe

(* The active profile is always one that the store shows: a removal unsets   *)
(* it, a commit that gives the profile another id moves it along.            *)
ASSUME ActiveIsShown ==
  \A p \in SomeStores : p.active # <<>> => ActiveProfile(p) # <<>>

(* A commit leaves nothing to commit and makes the table what the store      *)
(* shows; each temporary id is mapped to the row of its profile; and it      *)
(* tells of the change once, however many profiles were new or modified.     *)
ASSUME CommitSavesAndTellsOnce ==
  \A p \in {q \in SomeStores : NoneDeleted(q)} :
    LET q == Commit(p)
    IN /\ ~IsDirty(q.store) /\ ValuesShown(q) = q.rows
       /\ \A e \in ToSet(p.store.entries) :
            e.state = "New" => \E r \in q.rows : /\ r.name = e.value.name
                                                 /\ q.store.remap[e.value.id] = r.id
       /\ Len(SelectSeq(q.store.said, LAMBDA m : m.signal = "changed")) = 1

(* A profile removed and entered again before a save keeps its row.          *)
ASSUME RestoredKeepsItsRow ==
  \A p \in SomeStores : \A e \in ToSet(p.store.entries) :
    e.state = "Clean" =>
      LET q == AddProfile(RemoveProfile(p, e.value.name), e.value.name, 2)
      IN /\ [e.value EXCEPT !.email = 2] \in ValuesShown(q)
         /\ FindEntry(q.store, e.value.id) = FindEntry(p.store, e.value.id)

(* Whoever keeps a copy by the signals hears of every change of what the     *)
(* store shows, but for one: a profile that was never saved is taken back    *)
(* without a word.                                                           *)
ASSUME ChangesAreToldButOne ==
  \A p \in SomeStores : \A q \in NextStores(p) :
    ValuesShown(q) # ValuesShown(p) /\ "changed" \notin Signals(q) =>
      \E e \in ToSet(p.store.entries) :
        /\ e.state = "New"
        /\ q.store.entries = SelectSeq(p.store.entries, LAMBDA f : f # e)

(* The commit of a removal marks the entry behind it as saved, which it may  *)
(* not be.  The program never makes one.                                     *)
ASSUME RemovalCleansTheNext ==
  \A p \in SomeStores : \A i \in DOMAIN p.store.entries :
    p.store.entries[i].state = "Deleted" /\ i < Len(p.store.entries) =>
      LET q == CommitDeleted(p, p.store.entries[i])
      IN q.store.entries[i] = Entry(p.store.entries[i + 1].value, "Clean")

(* Signals that at most four calls lead to. *)
NextSignals(s) ==
  {Connected(s, f) : f \in {g \in {"f", NoFunction} : MayConnect(g)}}
  \cup {Reset(s, c) : c \in DOMAIN s.connections}
  \cup {Moved(s, c, d) : c, d \in DOMAIN s.connections}
SignalsAfter[n \in 0 .. 4] ==
  IF n = 0 THEN {Silent}
  ELSE SignalsAfter[n - 1] \cup UNION {NextSignals(s) : s \in SignalsAfter[n - 1]}

(* Every subscriber is held by exactly one connection, whatever was moved    *)
(* where: dropping the connections drops the subscribers, each once.         *)
ASSUME EachIsHeldOnce ==
  \A s \in SignalsAfter[4] :
    /\ \A i \in DOMAIN s.subscribers :
         \E c \in DOMAIN s.connections :
           /\ s.connections[c] = i
           /\ \A d \in DOMAIN s.connections : s.connections[d] = i => d = c
    /\ AfterNotify(s, DOMAIN s.connections).subscribers = <<>>

(* A subscriber that is disconnected during a notification is called in it   *)
(* all the same, and in no later one.                                        *)
ASSUME DroppedAreCalledOnceMore ==
  \A s \in SignalsAfter[4] : \A c \in DOMAIN s.connections :
    s.connections[c] # NoToken =>
      /\ s.connections[c] \in Called(s)
      /\ s.connections[c] \notin Called(AfterNotify(s, {c}))
=============================================================================
