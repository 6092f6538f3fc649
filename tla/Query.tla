--------------------------------- MODULE Query ---------------------------------
(***************************************************************************)
(* A query: the stack of iterators of query_iterator.c and the iterators   *)
(* it pushes.  It reads the tree and changes nothing in it; the client may *)
(* link objects between two moves.  Each iterator makes copies of cells in *)
(* memory, and somebody has to free each of them, once and not too early.  *)
(*                                                                         *)
(* Queries do not share anything but the tree, and leave nothing in the    *)
(* file, so one query is modelled and the death of the process is not.     *)
(***************************************************************************)
EXTENDS Tree, QueryConditions

CONSTANT Queries   \* the queries a client may make

TreeOps == {"T_SELF", "T_ATTRIBUTES", "T_PARENT", "T_IMM_CHILDREN", "T_ALL_CHILDREN",
            "T_CONDITION"}

\* A level of a query: its tree operation and, if it is a condition, its graph.
Levels == [op : TreeOps \ {"T_CONDITION"}, cond : {NoCell}]
          \cup [op : {"T_CONDITION"}, cond : CondOps]

ASSUME QueryAssumptions ==
    /\ Queries \subseteq Seq(Levels)
    /\ DOMAIN NameOf = Nodes /\ DOMAIN ValueOf = Nodes

VARIABLES
    query,    \* the query that was applied
    stack,    \* queryIterator.stack, the top first
    copies,   \* the copies of cells made so far; the first is the client's.  That
              \* of a name or a value, which no iterator stands on, counts as one
              \* of its object
    current,  \* me.current: a copy; 0 is NULL
    pc,       \* where queryMoveNext is
    start,    \* the tree when the query was applied
    returned  \* of each object that was returned the way to it

machine == <<stack, copies, current, pc, returned>>
vars    == <<kids, query, start, machine>>

Top    == Head(stack)
Below  == Tail(stack)
InHand == Top.it.cur      \* the copy the iterator on top stands on
NoCopy == 0

\* A copy of object n: its first child is as old as the copy.  by: who has to
\* free it; frees: how often that was done.
CopyOf(n, by) == [n |-> n, first |-> FirstOf(kids, n), by |-> by, frees |-> 0]

Alive(c)  == copies[c].frees = 0
Freed(c)  == IF c = NoCopy THEN copies ELSE [copies EXCEPT ![c].frees = @ + 1]
NewCopy   == Len(copies) + 1

\* An array iterator over items, and one over children from n on.
Items(items)   == [kind |-> "items", items |-> items, next |-> None, cur |-> NoCopy]
Children(k, n) == [kind |-> k, items |-> << >>, next |-> n, cur |-> NoCopy]

Init ==
    /\ TreeInit
    /\ query = << >> /\ stack = << >> /\ copies = << >> /\ current = NoCopy
    /\ pc = "none" /\ start = kids /\ returned = << >>
-------------------------------------------------------------------------------
(* The client.                                                             *)

\* cells_add_child: a whole call of it, or none of a query.
LinkNode ==
    /\ pc \in {"none", "idle"}
    /\ TreeNext
    /\ UNCHANGED <<query, start, machine>>

\* select_cell of the root and apply_query.
Apply(q) ==
    /\ pc = "none"
    /\ query' = q /\ start' = kids
    /\ copies' = <<CopyOf(Root, "client")>>
    /\ stack' = <<[step |-> q, it |-> Items(<<1>>)]>>
    /\ pc' = "idle"
    /\ UNCHANGED <<kids, current, returned>>

MoveNext ==
    /\ pc = "idle"
    /\ pc' = "move"
    /\ UNCHANGED <<kids, query, start, stack, copies, current, returned>>
-------------------------------------------------------------------------------
(* qIt->stack->it->move_next.                                              *)

AtMove(k) == pc = "move" /\ stack # << >> /\ Top.it.kind \in k

\* What every step of the machine leaves alone.
Given == <<kids, query, start>>

\* array_iter_move_next.
ItemNext ==
    /\ AtMove({"items"}) /\ Top.it.items # << >>
    /\ stack' = [stack EXCEPT ![1].it.cur = Head(Top.it.items),
                              ![1].it.items = Tail(Top.it.items)]
    /\ pc' = "handle"
    /\ UNCHANGED <<Given, copies, current, returned>>

\* Mutant: the iterator over one cell frees the cell.
ItemEndFrees ==
    /\ AtMove({"items"}) /\ Top.it.items = << >>
    /\ stack' = Below
    /\ copies' = Freed(InHand)
    /\ UNCHANGED <<Given, current, pc, returned>>

\* Mutant: the iterator that has ended is not taken from the stack.
ItemEndStays ==
    /\ AtMove({"items"}) /\ Top.it.items = << >>
    /\ UNCHANGED vars

\* ... at its end: it frees its array, not the items, and is popped.
ItemEnd ==
    /\ AtMove({"items"}) /\ Top.it.items = << >>
    /\ stack' = Below
    /\ UNCHANGED <<Given, copies, current, pc, returned>>

\* Mutant: the copy the iterator stood on is kept.
ChildNextKeeps ==
    /\ AtMove({"children", "all"}) /\ Top.it.next # None
    /\ copies' = Append(copies, CopyOf(Top.it.next, "iterator"))
    /\ stack' = [stack EXCEPT ![1].it.cur = NewCopy,
                              ![1].it.next = NextOf(kids, Top.it.next)]
    /\ pc' = "handle"
    /\ UNCHANGED <<Given, current, returned>>

\* imm_children_iter_move_next: the copy it stood on is freed, the next child is
\* copied, and with it where to go from there.  The iterator over all children
\* asks the one over the immediate children, which it was made with; those it
\* makes for the children wait behind it.
ChildNext ==
    /\ AtMove({"children", "all"}) /\ Top.it.next # None
    /\ copies' = Append(Freed(InHand), CopyOf(Top.it.next, "iterator"))
    /\ stack' = [stack EXCEPT ![1].it.cur = NewCopy,
                              ![1].it.next = NextOf(kids, Top.it.next)]
    /\ pc' = "handle"
    /\ UNCHANGED <<Given, current, returned>>

ChildrenEnd ==
    /\ AtMove({"children"}) /\ Top.it.next = None
    /\ copies' = Freed(InHand)
    /\ stack' = Below
    /\ UNCHANGED <<Given, current, pc, returned>>

\* all_children_iter_move_next, when the first of its iterators has ended: it
\* puts that iterator, which is freed, in the place of its queue and goes on.
AllBreaks ==
    /\ AtMove({"all"}) /\ Top.it.next = None
    /\ copies' = Freed(InHand)
    /\ pc' = "wild"
    /\ UNCHANGED <<Given, stack, current, returned>>

\* The stack is empty: false.
QueryEnds ==
    /\ pc = "move" /\ stack = << >>
    /\ pc' = "over"
    /\ UNCHANGED <<Given, stack, copies, current, returned>>
-------------------------------------------------------------------------------
(* The body of the loop of queryMoveNext.                                  *)

Object   == copies[InHand].n

\* The objects the levels stand on, from the root to the one in hand.
Way == [h \in 1 .. Len(stack) |-> copies[stack[Len(stack) + 1 - h].it.cur].n]

AtOp(op) == pc = "handle" /\ Top.step # << >> /\ Head(Top.step).op = op

\* The iterator it is pushed for the levels that follow.
Push(it) ==
    /\ stack' = <<[step |-> Tail(Top.step), it |-> it]>> \o stack
    /\ pc' = "move"
    /\ UNCHANGED <<Given, current, returned>>

\* No level is left: the object belongs to the result.
ReturnNode ==
    /\ pc = "handle" /\ Top.step = << >>
    /\ current' = InHand
    /\ returned' = Append(returned, Way)
    /\ pc' = "idle"
    /\ UNCHANGED <<Given, stack, copies>>

Verdict(v) == v \in Verdicts(Object, Head(Top.step).cond)

\* evaluateConditionGraph has copied the cells of names and values that the
\* condition reads; nobody frees them.
ReadCells ==
    LET reads == CellReads(Object, Head(Top.step).cond)
    IN  copies' = copies \o [i \in 1 .. Cardinality(reads) |-> CopyOf(Object, "nobody")]

ConditionTrue ==
    /\ AtOp("T_CONDITION") /\ Verdict("true")
    /\ Push(Items(<<InHand>>))
    /\ ReadCells

ConditionFalse ==
    /\ AtOp("T_CONDITION") /\ Verdict("false")
    /\ pc' = "move"
    /\ ReadCells
    /\ UNCHANGED <<Given, stack, current, returned>>

\* Nothing is known of what follows, the copies included.
ConditionDies ==
    /\ AtOp("T_CONDITION") /\ Verdict("undefined")
    /\ pc' = "wild"
    /\ UNCHANGED <<Given, stack, copies, current, returned>>

\* Mutant: the siblings of the object are taken for its children.
PushSiblings ==
    /\ AtOp("T_IMM_CHILDREN")
    /\ Push(Children("children", NextOf(kids, Object)))
    /\ UNCHANGED copies

\* new_node_imm_children_iterator: from the first child the copy knows.
PushChildren ==
    /\ AtOp("T_IMM_CHILDREN")
    /\ Push(Children("children", copies[InHand].first))
    /\ UNCHANGED copies

PushAll ==
    /\ AtOp("T_ALL_CHILDREN")
    /\ Push(Children("all", copies[InHand].first))
    /\ UNCHANGED copies

\* The parent is copied; nobody frees this copy.
PushParent ==
    /\ AtOp("T_PARENT") /\ ParentOf(kids, Object) # None
    /\ copies' = Append(copies, CopyOf(ParentOf(kids, Object), "nobody"))
    /\ Push(Items(<<NewCopy>>))

\* Mutant: the root has a parent, the undefined descriptor.
PushNoCell ==
    /\ AtOp("T_PARENT") /\ ParentOf(kids, Object) = None
    /\ Push(Items(<<NoCopy>>))
    /\ UNCHANGED copies

\* The root has none: an iterator over nothing.
PushNothing ==
    /\ AtOp("T_PARENT") /\ ParentOf(kids, Object) = None
    /\ Push(Items(<< >>))
    /\ UNCHANGED copies

\* T_SELF and T_ATTRIBUTES have no case: false, as at the end.
Unhandled ==
    /\ \E op \in {"T_SELF", "T_ATTRIBUTES"} : AtOp(op)
    /\ pc' = "over"
    /\ UNCHANGED <<Given, stack, copies, current, returned>>
-------------------------------------------------------------------------------
Library == \/ ItemNext \/ ItemEnd \/ ChildNext \/ ChildrenEnd \/ AllBreaks \/ QueryEnds
           \/ ReturnNode \/ ConditionTrue \/ ConditionFalse \/ ConditionDies
           \/ PushChildren \/ PushAll \/ PushParent \/ PushNothing \/ Unhandled

Client == LinkNode \/ MoveNext \/ \E q \in Queries : Apply(q)

Next == Library \/ Client

Spec == Init /\ [][Next]_vars

\* The thread that runs queryMoveNext runs on until it returns.
FairSpec == Spec /\ WF_vars(Library)
-------------------------------------------------------------------------------
(* What may and what may not happen.                                       *)

CopyType == [n : Nodes, first : Nodes \cup {None},
             by : {"client", "iterator", "nobody"}, frees : Nat]
IterOK(it) ==
    /\ it.kind \in {"items", "children", "all"}
    /\ it.next \in Nodes \cup {None}
    /\ it.cur \in {NoCopy} \cup DOMAIN copies
    /\ ToSet(it.items) \subseteq DOMAIN copies

\* The variables have their types: an iterator stands on a copy or on none.
TypeOK ==
    /\ kids \in [Nodes -> Seq(Nodes)] /\ start \in [Nodes -> Seq(Nodes)]
    /\ query \in Queries \cup {<< >>}
    /\ copies \in Seq(CopyType)
    /\ \A i \in DOMAIN stack : stack[i].step \in Suffixes(query) /\ IterOK(stack[i].it)
    /\ current \in {NoCopy} \cup DOMAIN copies
    /\ pc \in {"none", "idle", "move", "handle", "over", "wild"}
    /\ returned \in Seq(Seq(Nodes))

\* The copy of an object queryMoveNext looks at, and the one the client was
\* given until it moves on, have not been freed, and none is freed twice,
\* although the copy that has passed a condition is an item of a second iterator
\* and may be one of a third.
NoMisuse ==
    /\ pc = "handle" => InHand # NoCopy /\ Alive(InHand)
    /\ pc = "idle" /\ current # NoCopy => Alive(current)
    /\ \A c \in DOMAIN copies : copies[c].frees <= 1

\* The copies in memory are those the iterators over children stand on, one a
\* level, the one the client made, and those nobody frees: of a parent for each
\* step up, of a name or a value for each time a condition reads it.  So a query
\* that goes down over a large tree leaves nothing of the objects it has passed,
\* but what its conditions have read of them.
CopiesOwned ==
    pc # "wild" =>
        LET own == {stack[i].it.cur : i \in {j \in DOMAIN stack : stack[j].it.kind # "items"}}
        IN  {c \in DOMAIN copies : Alive(c)}
          = {c \in DOMAIN copies : copies[c].by # "iterator"} \cup (own \ {NoCopy})

\* A condition of which the code can answer what it asks (see Meaning) gets its
\* verdict from its meaning, and just that one.
ConditionsRight ==
    AtOp("T_CONDITION") /\ Plain(Object, Head(Top.step).cond) =>
        LET cond == Head(Top.step).cond
        IN  Verdicts(Object, cond) = {IF True(Meaning(Object, cond)) THEN "true" ELSE "false"}

\* The objects a level leads to from object n of tree K, in order.
Targets(K, level, n) ==
    CASE level.op = "T_CONDITION" ->
            IF Verdicts(n, level.cond) = {"true"} THEN <<n>> ELSE << >>
      [] level.op = "T_IMM_CHILDREN" -> K[n]
      [] level.op = "T_PARENT" ->
            IF ParentOf(K, n) = None THEN << >> ELSE <<ParentOf(K, n)>>

\* What query q means for tree K: the objects at the ends of the ways that start
\* at the root and take one step a level, each to an object the level leads to.
Ways(K, q) ==
    {w \in [1 .. Len(q) + 1 -> Nodes] :
        /\ w[1] = Root
        /\ \A i \in DOMAIN q : w[i + 1] \in ToSet(Targets(K, q[i], w[i]))}

\* Where two ways part, v goes on to an object the level leads to earlier.
Before(K, q, v, w) ==
    \E i \in DOMAIN q :
        /\ \A j \in 1 .. i : v[j] = w[j]
        /\ LET to == Targets(K, q[i], v[i])
           IN  \E a, b \in DOMAIN to : a < b /\ to[a] = v[i + 1] /\ to[b] = w[i + 1]

\* The queries of levels queryMoveNext has a case for that works, and of
\* conditions that have one verdict for each object.
Regular ==
    {q \in Queries : \A i \in DOMAIN q :
        /\ q[i].op \in {"T_CONDITION", "T_IMM_CHILDREN", "T_PARENT"}
        /\ q[i].op = "T_CONDITION" =>
              \A n \in Nodes : Verdicts(n, q[i].cond) \in {{"true"}, {"false"}}}

\* The result is right for a tree that grows while it is read: only what the query
\* selects in the tree as it is now is returned, in order and by each way once, and
\* in the end all that it selects in the tree it was applied to.  So it is exact if
\* nothing was linked.
ResultsRight ==
    pc \in {"idle", "over"} /\ query \in Regular =>
        /\ ToSet(returned) \subseteq Ways(kids, query)
        /\ \A i, j \in DOMAIN returned : i < j => Before(kids, query, returned[i], returned[j])
        /\ pc = "over" => Ways(start, query) \subseteq ToSet(returned)

\* queryMoveNext comes back: the lists of children end, the levels of the query
\* are used up one by one, and an iterator that has ended is asked no more.
MoveReturns == (pc \in {"move", "handle"}) ~> (pc \in {"idle", "over", "wild"})
-------------------------------------------------------------------------------
(* What a comment of the code says and the code does not do.               *)

\* query.h:95 lists T_ALL_CHILDREN as "bfs", cells_iterators.c:124 as "an iterator
\* over all cell's ancestors": a query of this level ends after it has returned
\* every object below the root.
AllChildrenReturned ==
    [i \in DOMAIN query |-> query[i].op] = <<"T_ALL_CHILDREN">> /\ pc \in {"over", "wild"} =>
        pc = "over" /\ InTree(start) \ {Root} \subseteq {Last(w) : w \in ToSet(returned)}
===============================================================================
