------------------------------- MODULE NodeTree -------------------------------
(***************************************************************************)
(* The tree of objects and attributes that node_pub.c builds from cells,   *)
(* and the iterator over the children of an object.  The file keeps the    *)
(* tree; a call is cut where it stores into a cell, because the process    *)
(* may die there, and the client may call between two moves of an iterator.*)
(*                                                                         *)
(* Of the storage below only this is used: a place is asked for first and  *)
(* used later, it is new_cell_start of a block of the cell's type, it is   *)
(* not reserved, and every insertion moves new_cell_start on (BlockStore). *)
(* So the cells of one type are numbered in the order of their places, and *)
(* an insertion is one step: a cell that is written and not accounted for  *)
(* when the process dies is referred to from nowhere, and a reopened       *)
(* storage inserts into new blocks.  Cells that leave their block, which   *)
(* BlockStore is about, are out of scope here.                             *)
(***************************************************************************)
EXTENDS Integers, Sequences, FiniteSets

CONSTANTS
    Words,         \* what a string cell may hold
    NoWord,        \* ... and an unused one
    NoValue,       \* a node or attribute is inserted without a value (NULL)
    OtherValue,    \* ... or with a value that is not a string
    ValueChoices,  \* the values the client uses: these two, and words
    Readers,       \* the iterators the client may hold at once
    MaxNodes,      \* bound: objects besides the root
    MaxAttrs,      \* bound: attributes
    MaxTexts       \* bound: string cells

ASSUME TreeAssumptions ==
    /\ MaxNodes \in Nat /\ MaxAttrs \in Nat /\ MaxTexts \in Nat
    /\ Words # {}
    /\ NoWord \notin Words
    /\ NoValue # OtherValue /\ {NoValue, OtherValue} \cap Words = {}
    /\ ValueChoices \subseteq Words \cup {NoValue, OtherValue}

UNDEF     == -1   \* cells_get_default_cld()
ELSEWHERE == -2   \* a cell that is neither object, attribute nor string
ROOT      == 0    \* storage_get_root_cell
Nodes     == 0 .. MaxNodes
Attrs     == 1 .. MaxAttrs
Texts     == 1 .. MaxTexts

VARIABLES
    \* -- the file
    node,     \* node[n]: struct cell_object
    attr,     \* attr[a]: struct cell_attr
    text,     \* text[i]: the value of a cell_string
    newNode, newAttr, newText,  \* new_cell_start, a cell at a time
    \* -- the call in progress
    pc, call,
    \* -- what the client holds
    bare,     \* objects it inserted with insert_cell and has not linked
    chain,    \* the attributes it is inserting for its next node
    copy,     \* a copy of an object (select_cell)
    iter,     \* iter[r]: its iterators
    \* -- what the properties need to remember
    linked,   \* the objects in the tree
    kids,     \* kids[p]: the children of p in the order they were linked
    given,    \* given[n]: the name and the value n was inserted with
    fault     \* why a call killed the process

cellvars == <<node, attr, text, newNode, newAttr, newText>>
client   == <<bare, chain, copy, iter>>
history  == <<linked, kids, given>>
vars     == <<cellvars, pc, call, client, history, fault>>

Blank     == [attrs |-> UNDEF, children |-> UNDEF, next |-> UNDEF, parent |-> UNDEF,
              name |-> UNDEF, value |-> UNDEF]
BlankAttr == [key |-> UNDEF, value |-> UNDEF, next |-> UNDEF]
NoChain   == [first |-> UNDEF, last |-> UNDEF]
NoCopy    == [n |-> UNDEF, attrs |-> UNDEF, children |-> UNDEF, had |-> 0]
NoIter    == [of |-> UNDEF, next |-> UNDEF, seen |-> << >>, had |-> 0]
NoCall    == [op |-> "none", p |-> UNDEF, n |-> UNDEF, a |-> UNDEF, at |-> UNDEF,
              first |-> FALSE, word |-> NoWord, val |-> NoValue, nameAt |-> UNDEF,
              valAt |-> UNDEF, link |-> UNDEF]
NotGiven  == [word |-> NoWord, val |-> NoValue]

Init ==
    /\ node = [n \in Nodes |-> Blank]
    /\ attr = [a \in Attrs |-> BlankAttr]
    /\ text = [i \in Texts |-> NoWord]
    /\ newNode = 1 /\ newAttr = 1 /\ newText = 1
    /\ pc = "idle" /\ call = NoCall
    /\ bare = {} /\ chain = NoChain /\ copy = NoCopy
    /\ iter = [r \in Readers |-> NoIter]
    /\ linked = {ROOT} /\ kids = [n \in Nodes |-> << >>]
    /\ given = [n \in Nodes |-> NotGiven]
    /\ fault = "none"
-------------------------------------------------------------------------------
Goto(l) == pc' = l /\ UNCHANGED call
Return  == pc' = "idle" /\ call' = NoCall

\* Mutant: new_cell_start does not move on.
PutTextStill(i, w) == text' = [text EXCEPT ![i] = w] /\ UNCHANGED newText

\* A string is inserted at place i: its block's new_cell_start moves on from
\* where it is now, wherever i is.
PutText(i, w) ==
    /\ text' = [text EXCEPT ![i] = w]
    /\ newText' = newText + 1

\* The process is gone, and with it the call and what the client holds.
ProcessEnds ==
    /\ Return
    /\ bare' = {} /\ chain' = NoChain /\ copy' = NoCopy
    /\ iter' = [r \in Readers |-> NoIter]
    /\ UNCHANGED history
-------------------------------------------------------------------------------
(* Calls of the client.                                                    *)

\* Room for what one call may insert, so that the bounds end no call half way.
RoomForNode  == newNode <= MaxNodes
RoomForAttr  == newAttr <= MaxAttrs
RoomForTexts == newText < MaxTexts

\* cells_insert_full_node, under an object of the tree, with the attributes
\* that were inserted for it.
InsertNode(p, w, v) ==
    /\ pc = "idle" /\ RoomForNode /\ RoomForTexts
    /\ call' = [NoCall EXCEPT !.op = "node", !.p = p, !.word = w, !.val = v,
                              !.link = chain.first]
    /\ chain' = NoChain
    /\ pc' = "find"
    /\ UNCHANGED <<cellvars, bare, copy, iter, history, fault>>

\* cells_insert_full_attr, to go on with the attributes inserted last.
InsertAttr(w, v) ==
    /\ pc = "idle" /\ RoomForAttr /\ RoomForTexts
    /\ call' = [NoCall EXCEPT !.op = "attr", !.word = w, !.val = v, !.link = chain.last]
    /\ pc' = "find"
    /\ UNCHANGED <<cellvars, client, history, fault>>

\* An object without links: storage_find_new_cell_place and insert_cell.
InsertBare ==
    /\ pc = "idle" /\ RoomForNode
    /\ node' = [node EXCEPT ![newNode] = Blank]
    /\ newNode' = newNode + 1
    /\ bare' = bare \cup {newNode}
    /\ UNCHANGED <<attr, text, newAttr, newText, pc, call, chain, copy, iter, history, fault>>

\* cells_add_child for such an object.
AddChild(p, n) ==
    /\ pc = "idle"
    /\ call' = [NoCall EXCEPT !.op = "child", !.p = p, !.n = n]
    /\ bare' = bare \ {n}
    /\ pc' = "child"
    /\ UNCHANGED <<cellvars, chain, copy, iter, history, fault>>

\* select_cell: the copy is as old as the client likes when it is used.
TakeCopy(n) ==
    /\ pc = "idle"
    /\ copy' = [n |-> n, attrs |-> node[n].attrs, children |-> node[n].children,
                had |-> Len(kids[n])]
    /\ UNCHANGED <<cellvars, pc, call, bare, chain, iter, history, fault>>

\* cell_add_attribute.  Without an attribute in the copy it links from the object.
AddAttrFirst ==
    /\ pc = "idle" /\ RoomForAttr
    /\ copy.n # UNDEF /\ copy.attrs = UNDEF
    /\ call' = [NoCall EXCEPT !.op = "add", !.at = copy.n, !.first = TRUE]
    /\ pc' = "find"
    /\ UNCHANGED <<cellvars, client, history, fault>>

\* ... with one that has a successor it stops there: the loop that looks for
\* the last attribute runs while the next one is undefined.
AddAttrNext ==
    /\ pc = "idle" /\ RoomForAttr
    /\ copy.attrs # UNDEF /\ attr[copy.attrs].next # UNDEF
    /\ call' = [NoCall EXCEPT !.op = "add", !.at = copy.attrs]
    /\ pc' = "find"
    /\ UNCHANGED <<cellvars, client, history, fault>>

\* ... and with one that has none, find_cell of the undefined descriptor gives
\* NULL and the loop reads through it.
AddAttrDies ==
    /\ pc = "idle" /\ copy.attrs # UNDEF /\ attr[copy.attrs].next = UNDEF
    /\ fault' = "no next attribute"
    /\ ProcessEnds
    /\ UNCHANGED cellvars
-------------------------------------------------------------------------------
(* The places for all cells of a call are asked for before any is used.    *)

\* storage_find_new_cell_place fails: nothing is inserted.
FindFails ==
    /\ pc = "find"
    /\ Return
    /\ UNCHANGED <<cellvars, client, history, fault>>

\* A string goes where the name or key goes too: the place is not reserved.
PlaceOfValue == CASE call.val = NoValue    -> UNDEF
                  [] call.val = OtherValue -> ELSEWHERE
                  [] OTHER                 -> newText

FindPlaces ==
    /\ pc = "find"
    /\ call' = [call EXCEPT !.nameAt = newText, !.valAt = PlaceOfValue,
                            !.n = newNode, !.a = newAttr]
    /\ pc' = IF call.op = "add" THEN "cell" ELSE "name"
    /\ UNCHANGED <<cellvars, client, history, fault>>

\* The value of an attribute finds no place: the attribute is inserted without it.
FindNoValue ==
    /\ pc = "find" /\ call.op = "attr" /\ call.val # NoValue
    /\ call' = [call EXCEPT !.nameAt = newText, !.a = newAttr]
    /\ pc' = "name"
    /\ UNCHANGED <<cellvars, client, history, fault>>
-------------------------------------------------------------------------------
(* The insertions.                                                         *)

\* Mutant: the value is inserted where the name belongs.
PutNameSwapped ==
    /\ pc = "name"
    /\ PutText(call.nameAt, call.val)
    /\ Goto("value")
    /\ UNCHANGED <<node, attr, newNode, newAttr, client, history, fault>>

\* The name of a node, the key of an attribute.
PutName ==
    /\ pc = "name"
    /\ PutText(call.nameAt, call.word)
    /\ Goto("value")
    /\ UNCHANGED <<node, attr, newNode, newAttr, client, history, fault>>

PutValue ==
    /\ pc = "value" /\ call.valAt \in Texts
    /\ PutText(call.valAt, call.val)
    /\ Goto("cell")
    /\ UNCHANGED <<node, attr, newNode, newAttr, client, history, fault>>

\* A value of another type, or none.
PutNoText ==
    /\ pc = "value" /\ call.valAt \notin Texts
    /\ call.op = "attr" => call.val # NoValue
    /\ Goto("cell")
    /\ UNCHANGED <<cellvars, client, history, fault>>

\* An attribute without a value: insert_cell is called with NULL.
PutNullDies ==
    /\ pc = "value" /\ call.op = "attr" /\ call.val = NoValue
    /\ fault' = "attribute without a value"
    /\ ProcessEnds
    /\ UNCHANGED cellvars

PutNode ==
    /\ pc = "cell" /\ call.op = "node"
    /\ node' = [node EXCEPT ![call.n] =
                  [Blank EXCEPT !.attrs = call.link, !.parent = call.p,
                                !.name = call.nameAt, !.value = call.valAt]]
    /\ newNode' = newNode + 1
    /\ given' = [given EXCEPT ![call.n] = [word |-> call.word, val |-> call.val]]
    /\ Goto("child")
    /\ UNCHANGED <<attr, text, newAttr, newText, client, linked, kids, fault>>

PutAttr ==
    /\ pc = "cell" /\ call.op \in {"attr", "add"}
    /\ attr' = [attr EXCEPT ![call.a] =
                  IF call.op = "attr"
                  THEN [key |-> call.nameAt, value |-> call.valAt, next |-> UNDEF]
                  ELSE [BlankAttr EXCEPT !.key = ELSEWHERE]]
    /\ newAttr' = newAttr + 1
    /\ Goto("attr")
    /\ UNCHANGED <<node, text, newNode, newText, client, history, fault>>
-------------------------------------------------------------------------------
(* The links.                                                              *)

\* Mutant: the new attribute is linked to the one before it.
LinkPrevBack ==
    /\ pc = "attr" /\ call.op = "attr"
    /\ attr' = [attr EXCEPT ![call.a].next = call.link]
    /\ chain' = [first |-> IF chain.first = UNDEF THEN call.a ELSE chain.first,
                 last  |-> call.a]
    /\ Return
    /\ UNCHANGED <<node, text, newNode, newAttr, newText, bare, copy, iter, history, fault>>

\* The attribute inserted before this one, if any, gets it as its next.
LinkPrev ==
    /\ pc = "attr" /\ call.op = "attr"
    /\ attr' = IF call.link = UNDEF THEN attr
               ELSE [attr EXCEPT ![call.link].next = call.a]
    /\ chain' = [first |-> IF chain.first = UNDEF THEN call.a ELSE chain.first,
                 last  |-> call.a]
    /\ Return
    /\ UNCHANGED <<node, text, newNode, newAttr, newText, bare, copy, iter, history, fault>>

\* The end of cell_add_attribute.
LinkAttr ==
    /\ pc = "attr" /\ call.op = "add"
    /\ IF call.first
       THEN node' = [node EXCEPT ![call.at].attrs = call.a] /\ UNCHANGED attr
       ELSE attr' = [attr EXCEPT ![call.at].next = call.a] /\ UNCHANGED node
    /\ Return
    /\ UNCHANGED <<text, newNode, newAttr, newText, client, history, fault>>

\* Mutant: whether the parent has children is not asked.
SetParentAlways ==
    /\ pc = "child"
    /\ node' = [node EXCEPT ![call.n].parent = call.p]
    /\ call' = [call EXCEPT !.at = call.p, !.first = TRUE]
    /\ pc' = "walk"
    /\ UNCHANGED <<attr, text, newNode, newAttr, newText, client, history, fault>>

\* cells_add_child: the parent is stored, then the last child is looked for.
SetParent ==
    /\ pc = "child"
    /\ node' = [node EXCEPT ![call.n].parent = call.p]
    /\ call' = IF node[call.p].children = UNDEF
               THEN [call EXCEPT !.at = call.p, !.first = TRUE]
               ELSE [call EXCEPT !.at = node[call.p].children]
    /\ pc' = "walk"
    /\ UNCHANGED <<attr, text, newNode, newAttr, newText, client, history, fault>>

\* Mutant: the first sibling is taken for the last.
AtLastAtOnce == TRUE

AtLast == call.first \/ node[call.at].next = UNDEF

Walk ==
    /\ pc = "walk" /\ ~AtLast
    /\ call' = [call EXCEPT !.at = node[call.at].next]
    /\ UNCHANGED <<cellvars, pc, client, history, fault>>

\* Mutant: the sibling is linked to itself.
LinkChildSelf ==
    /\ pc = "walk" /\ AtLast
    /\ node' = IF call.first THEN [node EXCEPT ![call.at].children = call.n]
                             ELSE [node EXCEPT ![call.at].next = call.at]
    /\ linked' = linked \cup {call.n}
    /\ kids' = [kids EXCEPT ![call.p] = Append(@, call.n)]
    /\ Return
    /\ UNCHANGED <<attr, text, newNode, newAttr, newText, client, given, fault>>

LinkChild ==
    /\ pc = "walk" /\ AtLast
    /\ node' = IF call.first THEN [node EXCEPT ![call.at].children = call.n]
                             ELSE [node EXCEPT ![call.at].next = call.n]
    /\ linked' = linked \cup {call.n}
    /\ kids' = [kids EXCEPT ![call.p] = Append(@, call.n)]
    /\ Return
    /\ UNCHANGED <<attr, text, newNode, newAttr, newText, client, given, fault>>
-------------------------------------------------------------------------------
(* new_node_imm_children_iterator and imm_children_iter_move_next.         *)

IterStart(r) ==
    /\ pc = "idle" /\ copy.n # UNDEF /\ iter[r] = NoIter
    /\ iter' = [iter EXCEPT ![r] = [of |-> copy.n, next |-> copy.children, seen |-> << >>,
                                    had |-> copy.had]]
    /\ UNCHANGED <<cellvars, pc, call, bare, chain, copy, history, fault>>

\* Mutant: the way on is read from the object and not from the child.
IterNextOfParent(r) ==
    /\ pc = "idle" /\ iter[r].next # UNDEF
    /\ iter' = [iter EXCEPT ![r].seen = Append(@, iter[r].next),
                            ![r].next = node[iter[r].of].next]
    /\ UNCHANGED <<cellvars, pc, call, bare, chain, copy, history, fault>>

\* The next child is copied, and with it where to go from there.
IterNext(r) ==
    /\ pc = "idle" /\ iter[r].next # UNDEF
    /\ iter' = [iter EXCEPT ![r].seen = Append(@, iter[r].next),
                            ![r].next = node[iter[r].next].next]
    /\ UNCHANGED <<cellvars, pc, call, bare, chain, copy, history, fault>>

IterEnd(r) ==
    /\ pc = "idle" /\ iter[r].of # UNDEF /\ iter[r].next = UNDEF
    /\ iter' = [iter EXCEPT ![r] = NoIter]
    /\ UNCHANGED <<cellvars, pc, call, bare, chain, copy, history, fault>>
-------------------------------------------------------------------------------
\* The process dies; the tree in the file is as the stores so far have left it.
Crash ==
    /\ ProcessEnds
    /\ UNCHANGED <<cellvars, fault>>

Library == \/ FindFails \/ FindPlaces \/ FindNoValue
           \/ PutName \/ PutValue \/ PutNoText \/ PutNullDies \/ PutNode \/ PutAttr
           \/ LinkPrev \/ LinkAttr \/ SetParent \/ Walk \/ LinkChild

Client ==
    \/ \E p \in linked, w \in Words, v \in ValueChoices : InsertNode(p, w, v)
    \/ \E w \in Words, v \in ValueChoices : InsertAttr(w, v)
    \/ InsertBare
    \/ \E p \in linked, n \in bare : AddChild(p, n)
    \/ \E n \in linked : TakeCopy(n)
    \/ AddAttrFirst \/ AddAttrNext \/ AddAttrDies
    \/ \E r \in Readers : IterStart(r) \/ IterNext(r) \/ IterEnd(r)

Next == Library \/ Client \/ Crash

Spec == Init /\ [][Next]_vars

\* The thread that runs a call runs on until it returns.
FairSpec == Spec /\ WF_vars(Library)
-------------------------------------------------------------------------------
(* What may and what may not happen.                                       *)

Opt(S) == S \cup {UNDEF}
Labels == {"idle", "find", "name", "value", "cell", "attr", "child", "walk"}
Faults == {"none", "no next attribute", "attribute without a value"}

\* The variables have their types; a string cell holds a word or nothing.
TypeOK ==
    /\ node \in [Nodes -> [attrs : Opt(Attrs), children : Opt(Nodes), next : Opt(Nodes),
                           parent : Opt(Nodes), name : Opt(Texts),
                           value : Opt(Texts) \cup {ELSEWHERE}]]
    /\ attr \in [Attrs -> [key : Opt(Texts) \cup {ELSEWHERE},
                           value : Opt(Texts) \cup {ELSEWHERE}, next : Opt(Attrs)]]
    /\ text \in [Texts -> Words \cup {NoWord}]
    /\ newNode \in 1 .. MaxNodes + 1
    /\ newAttr \in 1 .. MaxAttrs + 1
    /\ newText \in 1 .. MaxTexts + 1
    /\ pc \in Labels /\ (pc = "idle") = (call = NoCall)
    /\ bare \subseteq Nodes
    /\ chain \in [first : Opt(Attrs), last : Opt(Attrs)]
    /\ linked \subseteq Nodes
    /\ fault \in Faults

\* In the file, s goes from the first child of p along the siblings to the last.
IsListOf(s, p) ==
    /\ node[p].children = IF s = << >> THEN UNDEF ELSE s[1]
    /\ \A i \in DOMAIN s : node[s[i]].next = IF i = Len(s) THEN UNDEF ELSE s[i + 1]

\* The file holds the tree the client has built: the children of an object are
\* the nodes linked under it, in the order of the calls, each with its parent,
\* the last one without a successor, and each in one list only.  This is what
\* cells_add_child keeps although it stores the parent first and the link to
\* the node last, and the process may die in between.
TreeIsKids ==
    /\ \A p \in linked :
          /\ IsListOf(kids[p], p)
          /\ \A i \in DOMAIN kids[p] : node[kids[p][i]].parent = p
    /\ \A n \in linked \ {ROOT} :
          Cardinality({pi \in linked \X (1 .. MaxNodes) :
                         pi[2] \in DOMAIN kids[pi[1]] /\ kids[pi[1]][pi[2]] = n}) = 1

\* A link that leads to a node of the tree is never stored over: no later call
\* and no death of the process loses a node that was linked, or moves it.
LinksStay ==
    [][\A n \in linked :
          /\ node[n].children # UNDEF => node'[n].children = node[n].children
          /\ node[n].next # UNDEF => node'[n].next = node[n].next
          /\ node'[n].parent = node[n].parent]_vars

\* Lists of attributes end, and no attribute is in two of them, whatever copy
\* of an object, however old, is given to cell_add_attribute.
AttrLists ==
    \A a \in Attrs :
       /\ attr[a].next # UNDEF => attr[a].next > a
       /\ Cardinality({n \in Nodes : node[n].attrs = a})
            + Cardinality({b \in Attrs : attr[b].next = a}) <= 1

\* An iterator over children returns them in order and without a gap, and when
\* it ends it has returned every child there was when its object was copied,
\* although children are linked between two of its moves.
ReadersInOrder ==
    \A r \in Readers : iter[r] # NoIter =>
       /\ Len(iter[r].seen) <= Len(kids[iter[r].of])
       /\ \A i \in DOMAIN iter[r].seen : iter[r].seen[i] = kids[iter[r].of][i]
       /\ iter[r].next = UNDEF => Len(iter[r].seen) >= iter[r].had

\* The objects of the tree that cells_insert_full_node has inserted.
Named == {n \in linked : given[n] # NotGiven}

\* A node of the tree has the name it was given if its value is no string, and
\* its value if that is one, through all later calls and deaths of the process.
TextsStay ==
    \A n \in Named :
       LET at == IF given[n].val \in Words THEN node[n].value ELSE node[n].name
           w  == IF given[n].val \in Words THEN given[n].val ELSE given[n].word
       IN  at \in Texts /\ text[at] = w

\* The thread that makes a call comes back from it; the walk over the children
\* ends.
AddReturns == (pc # "idle") ~> (pc = "idle")
-------------------------------------------------------------------------------
(* NodeTree implements Tree.                                               *)

\* The children of p as a reader of the file finds them, while the lists end.
NodeLists == UNION {[1 .. k -> Nodes] : k \in 0 .. MaxNodes}

ListInFile(p) == CHOOSE s \in NodeLists : IsListOf(s, p)

KidsInFile == [p \in Nodes |-> ListInFile(p)]

FileTree == INSTANCE Tree WITH Root <- ROOT, None <- UNDEF, kids <- KidsInFile

\* Read from the file alone, the tree grows by one object at the end of one list
\* of children at a time, under an object of the tree, and in one store of a call
\* that makes three: cells_add_child is atomic to a reader and to a crash.
ImplementsTree == FileTree!TreeSpec
-------------------------------------------------------------------------------
(* What comments of the code say and the code does not do.                 *)

\* cell_types.h:54-55 says that the value of an attribute is "an undefined cell
\* descriptor when attr has just key".
KeyOnlyAttrs == fault # "attribute without a value"
===============================================================================
