--------------------------- MODULE LogCategoryTree ---------------------------
(* The tree of log categories that logging::LogCategories builds from the    *)
(* registered dotted names, and ui::LogCategoryModel, which shows it in the  *)
(* dialog of the debug slots, all of it or what was modified only.           *)
EXTENDS Integers, Sequences, SequencesExt

CONSTANTS
  CategoryNames    \* the names that may be registered: sequences of segments,
                   \* a segment a number whose order is that of the names

Root == 1          \* RootLogCategoryId
Invalid == 0       \* InvalidLogCategoryId

(* LogCategories::findLogCategory.                                          *)
FindLogCategory(tree, name) ==
  LET ids == {i \in DOMAIN tree : tree[i].name = name} IN
  IF ids = {} THEN Invalid ELSE CHOOSE i \in ids : TRUE

(* LogCategories::_addLogCategory of a node: it is the last one, and its    *)
(* parent lists it.                                                         *)
AddNode(tree, parent, name) ==
  Append([i \in DOMAIN tree |->
            IF i = parent
            THEN [tree[i] EXCEPT !.children = Append(@, Len(tree) + 1)]
            ELSE tree[i]],
         [name |-> name, parent |-> parent, children |-> <<>>])

(* LogCategories::_addLogCategory of a full name: every segment moves down, *)
(* to a node that exists or a new one.                                      *)
MoveDown(at, name) ==
  LET id == FindLogCategory(at.tree, name) IN
  IF id # Invalid THEN [at EXCEPT !.parent = id]
  ELSE [tree |-> AddNode(at.tree, at.parent, name),
        parent |-> Len(at.tree) + 1]

AddLogCategory(tree, name) ==
  FoldLeft(MoveDown, [tree |-> tree, parent |-> Root],
           [k \in 1 .. Len(name) |-> SubSeq(name, 1, k)]).tree

(* The constructor: the root, then the names of a std::set in their order.  *)
Earlier(a, b) ==
  \/ a # b /\ IsPrefix(a, b)
  \/ \E k \in 1 .. Len(a) :
       k <= Len(b) /\ a[k] < b[k] /\ \A j \in 1 .. k - 1 : a[j] = b[j]

LogCategories(names) ==
  FoldLeft(AddLogCategory, AddNode(<<>>, Invalid, <<>>),
           SetToSortSeq(names, Earlier))

(* LogCategories::getChildrenOf sorts the children by name.                 *)
ChildrenOf(tree, id) ==
  IF id \notin DOMAIN tree THEN <<>>
  ELSE SortSeq(tree[id].children,
               LAMBDA a, b : Earlier(tree[a].name, tree[b].name))

(* LogCategories::getAllDescendantsOf: the category itself comes first.     *)
RECURSIVE Descend(_, _, _)
Descend(tree, stack, found) ==
  IF stack = <<>> THEN found
  ELSE LET id == Last(stack) IN
       Descend(tree, Front(stack) \o ChildrenOf(tree, id), Append(found, id))

AllDescendantsOf(tree, id) == Descend(tree, <<id>>, <<>>)

-----------------------------------------------------------------------------
(* LogCategoryModel::_getFilteredChildren: modified is the set of the       *)
(* categories whose level is not that of the reference.                     *)
FilteredChildren(tree, modified, only, id) ==
  IF only THEN SelectSeq(ChildrenOf(tree, id), LAMBDA c : c \in modified)
  ELSE ChildrenOf(tree, id)

(* LogCategoryModel::_getRowOfChild, rows counted from one, zero for none.  *)
RowOfChild(tree, modified, only, parent, child) ==
  LET rows == FilteredChildren(tree, modified, only, parent) IN
  IF Contains(rows, child)
  THEN CHOOSE r \in DOMAIN rows : rows[r] = child ELSE 0

(* LogCategoryModel::index and parent, of a category in place of an index:  *)
(* the root has the invalid index.                                          *)
Index(tree, modified, only, row, parent) ==
  LET rows == FilteredChildren(tree, modified, only, parent) IN
  IF row \in DOMAIN rows THEN [row |-> row, id |-> rows[row]]
  ELSE [row |-> 0, id |-> Invalid]

ParentIndex(tree, modified, only, id) ==
  LET parent == tree[id].parent IN
  IF parent \in {Root, Invalid} THEN [row |-> 0, id |-> Root]
  ELSE LET row == RowOfChild(tree, modified, only, tree[parent].parent,
                             parent) IN
       [row |-> row, id |-> IF row = 0 THEN Root ELSE parent]

(* The rows a view comes to from the root.                                  *)
RECURSIVE Shown(_, _, _, _)
Shown(tree, modified, only, at) ==
  LET rows == FilteredChildren(tree, modified, only, at) IN
  {[parent |-> at, index |-> Index(tree, modified, only, r, at)] :
     r \in DOMAIN rows}
  \cup UNION {Shown(tree, modified, only, rows[r]) : r \in DOMAIN rows}

-----------------------------------------------------------------------------
Registered == {S \in SUBSET CategoryNames : Cardinality(S) <= 3}
Ids(tree, name) == {i \in DOMAIN tree : IsPrefix(name, tree[i].name)}

(* Whatever names are registered, a category is one node, `Apply to         *)
(* children` reaches it and the categories whose names extend its own, each *)
(* once, and the model leads from every row it shows back to the row above: *)
(* also when only modified categories are shown (getAllDescendantsOf,       *)
(* LogCategoryModel::index and parent).                                     *)
TreeFollowsNames ==
  \A S \in Registered :
    LET tree == LogCategories(S) IN
    /\ IsInjective([i \in DOMAIN tree |-> tree[i].name])
    /\ \A name \in S : FindLogCategory(tree, name) # Invalid
    /\ \A i \in DOMAIN tree :
         LET ds == AllDescendantsOf(tree, i) IN
         ToSet(ds) = Ids(tree, tree[i].name) /\ IsInjective(ds)
    /\ \A modified \in SUBSET DOMAIN tree, only \in BOOLEAN :
         \A e \in Shown(tree, modified, only, Root) :
           ParentIndex(tree, modified, only, e.index.id).id = e.parent

ASSUME TreeAssumption == TreeFollowsNames
=============================================================================
