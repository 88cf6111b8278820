-------------------------------- MODULE Query --------------------------------
(* The orm: expressions of conditions (filter::Node), the SQL text that a   *)
(* query makes of them and the values it binds, and what SQL reads in that  *)
(* text.  A text is a sequence of tokens, where "(" holds the tokens up to  *)
(* its ")".  This module is for TLC only: it is recursive.                  *)
EXTENDS Integers, Sequences, FiniteSets, SequencesExt

CONSTANT Null

(* ------------------------------ expressions ------------------------------ *)
Empty == [node |-> "empty"]
IsEmpty(e) == e.node = "empty"

(* makeAnd, makeOr: an empty side is left out.                              *)
Absorb(kind, l, r) ==
  IF IsEmpty(l) THEN r ELSE IF IsEmpty(r) THEN l
  ELSE [node |-> kind, l |-> l, r |-> r]
And(l, r) == Absorb("and", l, r)
Or(l, r) == Absorb("or", l, r)

(* A condition on the column <<table, field>> with the values to bind.      *)
Equal(c, v) == [node |-> "leaf", op |-> "=", col |-> c, vals |-> <<v>>]
In(c, vs) == [node |-> "leaf", op |-> "IN", col |-> c, vals |-> vs]
IsNull(c) == [node |-> "leaf", op |-> "IS NULL", col |-> c, vals |-> <<>>]

AnyOf(leaves) == FoldLeft(Or, Empty, leaves)

(* --------------------------- text and bindings --------------------------- *)
Word(w) == [tok |-> w]
Paren(text) == [tok |-> "(", in |-> text]

(* Mutant: AND does without parentheses.                                    *)
JoinedBare(l, kind, r) ==
  IF kind = "and" THEN l \o <<Word(kind)>> \o r
  ELSE <<Paren(l), Word(kind), Paren(r)>>

(* DBOperationVisitor: both sides in parentheses.                           *)
Joined(l, kind, r) == <<Paren(l), Word(kind), Paren(r)>>

RECURSIVE TextOf(_)
TextOf(e) ==
  CASE e.node = "empty" -> <<>>
    [] e.node = "leaf" -> <<[tok |-> e.op, col |-> e.col, holes |-> Len(e.vals)]>>
    [] OTHER -> Joined(TextOf(e.l), e.node, TextOf(e.r))

(* BindVisitor: the values in the order of the tree, from index 1.          *)
RECURSIVE ValuesOf(_)
ValuesOf(e) ==
  CASE e.node = "empty" -> <<>>
    [] e.node = "leaf" -> e.vals
    [] OTHER -> ValuesOf(e.l) \o ValuesOf(e.r)

Query_(joins, distinct, e) ==
  [joins |-> joins, distinct |-> distinct, text |-> TextOf(e), vals |-> ValuesOf(e)]

(* ------------------------------ SQL (external) --------------------------- *)
(* Truth is 2, falsehood 0, and what depends on a NULL is 1.                *)
Truth(b) == IF b THEN 2 ELSE 0
Least(a, b) == IF a < b THEN a ELSE b
Most(a, b) == IF a < b THEN b ELSE a

RECURSIVE Holes(_)
Holes(text) ==
  IF text = <<>> THEN 0
  ELSE Holes(Tail(text)) +
       (CASE Head(text).tok = "(" -> Holes(Head(text).in)
          [] Head(text).tok \in {"and", "or"} -> 0
          [] OTHER -> Head(text).holes)

Column(j, c) ==
  IF c[1] \in DOMAIN j /\ c[2] \in DOMAIN j[c[1]] THEN j[c[1]][c[2]] ELSE Null

(* A condition on the joined row j, its first value bound at n + 1.  What   *)
(* is not bound is NULL.                                                    *)
Holds(j, t, vals, n) ==
  LET x == Column(j, t.col)
      v(i) == IF n + i <= Len(vals) THEN vals[n + i] ELSE Null
      same(i) == IF x = Null \/ v(i) = Null THEN 1 ELSE Truth(x = v(i))
  IN  IF t.tok = "IS NULL" THEN Truth(x = Null)
      ELSE FoldLeft(Most, 0, [i \in 1..t.holes |-> same(i)])

(* OR binds less tightly than AND.                                          *)
RECURSIVE Reads(_, _, _, _)
Reads(j, text, vals, n) ==
  LET at(kind) == {i \in DOMAIN text : text[i].tok = kind}
      split(i, Op(_, _)) ==
        LET l == SubSeq(text, 1, i - 1)
            r == SubSeq(text, i + 1, Len(text))
        IN  Op(Reads(j, l, vals, n), Reads(j, r, vals, n + Holes(l)))
  IN  CASE text = <<>> -> 2
        [] at("or") # {} -> split(Max(at("or")), Most)
        [] at("and") # {} -> split(Max(at("and")), Least)
        [] text[1].tok = "(" -> Reads(j, text[1].in, vals, n)
        [] OTHER -> Holds(j, text[1], vals, n)

TableOf(d, t) == {r \in d : r.table = t}

(* INNER JOINs, [from, to] two columns each.                                *)
JoinOne(d, J, k) ==
  UNION {{(k.to[1] :> q) @@ j :
            q \in {p \in TableOf(d, k.to[1]) : p[k.to[2]] = Column(j, k.from)}} : j \in J}

(* The rows of the base table that a query returns, and how often.          *)
Returned(d, base, q) ==
  LET from == {(base :> r) : r \in TableOf(d, base)}
      all == FoldLeft(LAMBDA J, k : JoinOne(d, J, k), from, q.joins)
      found == {j \in all : Reads(j, q.text, q.vals, 0) = 2}
      times(r) == Cardinality({j \in found : j[base] = r})
  IN  [r \in {j[base] : j \in found} |-> IF q.distinct THEN 1 ELSE times(r)]
=============================================================================
