----------------------------- MODULE MCUndoStack -----------------------------
(* The undo stack on a small instance: one log category. The tree of the    *)
(* categories, which only names the levels, is checked beside it for every  *)
(* three of the names of up to two segments and two longer ones; so are the  *)
(* profiles, and the composite that ensures one.                            *)
EXTENDS UndoStack, LogCategoryTree, Composites

OneCategory == [c \in {"app"} |-> {"app"}]
SmallNames == UNION {[1 .. n -> 1 .. 2] : n \in 1 .. 2}
              \cup {<<1, 1, 1>>, <<1, 2, 1>>}
=============================================================================
