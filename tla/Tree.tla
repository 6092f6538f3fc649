--------------------------------- MODULE Tree ---------------------------------
(***************************************************************************)
(* What the links between objects promise: an ordered tree that only       *)
(* grows, one linked object at a time, at the end of a list of children.   *)
(* NodeTree shows that cells_add_child keeps this promise although it      *)
(* makes three stores and the process may die between them; Query relies   *)
(* on it.                                                                  *)
(***************************************************************************)
EXTENDS Naturals, Sequences, SequencesExt

CONSTANTS
    Nodes,   \* the objects
    Root,    \* storage_get_root_cell
    None     \* no object: cells_get_default_cld()

ASSUME TreeConstants == Root \in Nodes /\ None \notin Nodes

VARIABLE kids    \* kids[p]: the children of p in order

\* Operators on a tree K; Query also looks at a tree of the past.
InTree(K)    == {Root} \cup UNION {ToSet(K[p]) : p \in Nodes}
FirstOf(K, p) == IF K[p] = << >> THEN None ELSE Head(K[p])
ParentOf(K, n) ==
    IF \E p \in Nodes : n \in ToSet(K[p])
    THEN CHOOSE p \in Nodes : n \in ToSet(K[p])
    ELSE None
NextOf(K, n) ==
    LET p    == ParentOf(K, n)
        here == CHOOSE i \in DOMAIN K[p] : K[p][i] = n
    IN  IF p = None \/ n = Last(K[p]) THEN None ELSE K[p][here + 1]

TreeInit == kids = [p \in Nodes |-> << >>]

\* cells_add_child, for an object that is in the tree and one that is not.
Link(p, n) ==
    kids' = [kids EXCEPT ![p] = Append(@, n)]

TreeNext == \E p \in InTree(kids), n \in Nodes \ InTree(kids) : Link(p, n)

TreeSpec == TreeInit /\ [][TreeNext]_kids
===============================================================================
