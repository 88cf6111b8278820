---------------------------- MODULE AtomicBatches ----------------------------
(* What the repositories promise of the file: its rows arrive in batches,   *)
(* and a batch is whole: a row that stands alone, or a transaction with all *)
(* the entries, the leg and the option data that its type asks for, each of *)
(* them naming it.                                                          *)
EXTENDS Naturals, Sequences

CONSTANTS LoneTables,    \* the tables whose rows stand alone
          Shape          \* the tables of a transaction of a type, in order

VARIABLES rows,          \* the committed rows
          last           \* the batch that was added last

IsLone(b) == Len(b) = 1 /\ b[1].table \in LoneTables

IsTransaction(b) ==
  /\ b # <<>> /\ b[1].type \in DOMAIN Shape
  /\ Len(b) = Len(Shape[b[1].type])
  /\ \A i \in 1..Len(b) : b[i].table = Shape[b[1].type][i]
  /\ \A i \in 2..Len(b) : b[i].of = b[1].id

(* No row of the batch has the key of a committed row.                      *)
IsNew(b) ==
  \A i \in DOMAIN b, r \in rows : b[i].table = r.table => b[i].id # r.id

Init == rows = {} /\ last = <<>>

Add == /\ IsLone(last') \/ IsTransaction(last')
       /\ IsNew(last')
       /\ rows' = rows \cup {last'[i] : i \in DOMAIN last'}

Spec == Init /\ [][Add]_<<rows, last>>
=============================================================================
