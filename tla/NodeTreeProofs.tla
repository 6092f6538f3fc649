---------------------------- MODULE NodeTreeProofs ----------------------------
(***************************************************************************)
(* Proofs about NodeTree, for every value of its constants.                *)
(*                                                                         *)
(* The inductive invariant says label by label what a call knows: which    *)
(* places it holds and that nobody else refers to them yet, and where the  *)
(* walk over the children stands.  The client acts only between two calls, *)
(* so what it holds (copies and iterators) is related to the tree alone.   *)
(***************************************************************************)
EXTENDS NodeTree, SequenceTheorems, FiniteSetTheorems, WellFoundedInduction, TLAPS

CallType == [op : {"none", "node", "attr", "add", "child"}, p : Opt(Nodes), n : Int,
             a : Int, at : Int, first : BOOLEAN, word : Words \cup {NoWord},
             val : Words \cup {NoValue, OtherValue}, nameAt : Int, valAt : Int,
             link : Opt(Attrs)]
CopyType == [n : Opt(Nodes), attrs : Opt(Attrs), children : Opt(Nodes), had : Nat]
IterType == [of : Opt(Nodes), next : Opt(Nodes), seen : Seq(Nodes), had : Nat]

\* The types of the variables TypeOK does not mention.
AllTyped ==
    /\ TypeOK
    /\ call \in CallType /\ copy \in CopyType /\ iter \in [Readers -> IterType]
    /\ kids \in [Nodes -> Seq(Nodes)]
    /\ given \in [Nodes -> [word : Words \cup {NoWord},
                            val : Words \cup {NoValue, OtherValue}]]

\* What each label is reached for.
LabelsOK ==
    /\ pc = "find" => call.op \in {"node", "attr", "add"}
    /\ pc \in {"name", "value"} => call.op \in {"node", "attr"}
    /\ pc = "cell" => call.op \in {"node", "attr", "add"}
    /\ pc = "attr" => call.op \in {"attr", "add"}
    /\ pc \in {"child", "walk"} => call.op \in {"node", "child"}

\* A call that inserts has room, and the places it was given are the next ones:
\* no other call has inserted since it asked.
PlacesOK ==
    /\ call.op = "node" /\ pc \in {"find", "name", "value", "cell"} =>
          newNode <= MaxNodes /\ call.p \in linked /\ ~call.first
    /\ call.op \in {"attr", "add"} /\ pc \in {"find", "name", "value", "cell"} =>
          newAttr <= MaxAttrs
    /\ call.op \in {"node", "attr"} /\ pc \in {"find", "name"} => newText < MaxTexts
    /\ call.op \in {"node", "attr"} => call.word \in Words
    /\ pc \in {"name", "value", "cell"} =>
          /\ call.op = "node" => call.n = newNode
          /\ call.op \in {"attr", "add"} => call.a = newAttr
          /\ call.op # "add" =>
                /\ call.valAt \in {UNDEF, ELSEWHERE, call.nameAt}
                /\ call.valAt = call.nameAt => call.val \in Words
                /\ call.op = "node" /\ call.val \in Words => call.valAt = call.nameAt
                /\ call.nameAt \in Texts
    /\ pc = "find" => call.valAt = UNDEF
    /\ pc = "name" => call.nameAt = newText
    /\ pc = "value" => call.nameAt = newText - 1 /\ newText <= MaxTexts
    /\ pc = "attr" => call.a = newAttr - 1 /\ call.a \in Attrs

\* The lists of children make a tree of the nodes that are linked, and the file
\* holds it.
TreeShape ==
    /\ linked \subseteq 0 .. newNode - 1 /\ ROOT \in linked
    /\ bare \subseteq 1 .. newNode - 1 /\ bare \cap linked = {}
    /\ \A p \in Nodes : \A i \in DOMAIN kids[p] : p \in linked /\ kids[p][i] \in linked \ {ROOT}
    /\ \A p, q \in Nodes : \A i \in DOMAIN kids[p], j \in DOMAIN kids[q] :
          kids[p][i] = kids[q][j] => p = q /\ i = j
    /\ \A n \in linked \ {ROOT} : \E p \in Nodes : \E i \in DOMAIN kids[p] : kids[p][i] = n

TreeInFile ==
    /\ \A p \in Nodes : /\ IsListOf(kids[p], p)
                        /\ \A i \in DOMAIN kids[p] : node[kids[p][i]].parent = p
    /\ \A n \in Nodes : n = ROOT \/ n \notin linked => node[n].next = UNDEF

\* cells_add_child: the node is in nobody's hands but the call's, and the walk
\* stands on a child of the parent, or on the parent that has none.
WalkOK ==
    pc \in {"child", "walk"} =>
       /\ call.p \in linked
       /\ call.n \in 1 .. newNode - 1 /\ call.n \notin linked \cup bare
       /\ pc = "child" => ~call.first
       /\ pc = "walk" =>
             /\ node[call.n].parent = call.p
             /\ IF call.first THEN call.at = call.p /\ kids[call.p] = << >>
                ELSE \E i \in DOMAIN kids[call.p] : call.at = kids[call.p][i]

TreeInv == TreeShape /\ TreeInFile /\ WalkOK

\* A copy knows the first child if its object had children by then.
CopyOK ==
    copy.n # UNDEF =>
       /\ copy.n \in linked
       /\ copy.had <= Len(kids[copy.n])
       /\ copy.children = IF copy.had = 0 THEN UNDEF ELSE kids[copy.n][1]

\* An iterator has returned the first children and stands before the next one.
IterInv(r) ==
    /\ iter[r].of = UNDEF => iter[r] = NoIter
    /\ iter[r].of # UNDEF =>
          LET s == kids[iter[r].of]
              k == Len(iter[r].seen)
          IN  /\ iter[r].of \in linked
              /\ iter[r].had <= Len(s)
              /\ k <= Len(s)
              /\ \A i \in 1 .. k : iter[r].seen[i] = s[i]
              /\ iter[r].next = UNDEF => k >= iter[r].had
              /\ iter[r].next # UNDEF => k < Len(s) /\ iter[r].next = s[k + 1]

ReadInv == CopyOK /\ \A r \in Readers : IterInv(r)

\* Nothing refers to attribute a.
Unreferred(a) == /\ \A n \in Nodes : node[n].attrs # a
                 /\ \A b \in Attrs : attr[b].next # a

\* Links lead to attributes that exist, those of attributes on to later ones, and
\* no two lead to the same.
LinksOK ==
    /\ \A n \in Nodes : node[n].attrs < newAttr
    /\ \A b \in Attrs : attr[b].next < newAttr
    /\ \A b \in Attrs : attr[b].next = UNDEF \/ attr[b].next > b
    /\ \A n, m \in Nodes : node[n].attrs # UNDEF /\ node[n].attrs = node[m].attrs => n = m
    /\ \A b, c \in Attrs : attr[b].next # UNDEF /\ attr[b].next = attr[c].next => b = c
    /\ \A n \in Nodes, b \in Attrs : node[n].attrs # UNDEF => node[n].attrs # attr[b].next

\* The first attribute the client inserts for its next node, the one a call that
\* inserts a node has taken over, and a new one not yet linked: referred to from
\* nowhere.
ChainOK ==
    /\ copy.attrs < newAttr
    /\ (chain.first = UNDEF) = (chain.last = UNDEF)
    /\ chain.first < newAttr /\ chain.last < newAttr /\ call.link < newAttr
    /\ chain.first # UNDEF => Unreferred(chain.first)
    /\ call.op = "attr" => call.link = chain.last
    /\ call.op = "node" /\ pc \in {"find", "name", "value", "cell"} =>
          /\ chain.first = UNDEF
          /\ call.link # UNDEF => Unreferred(call.link)
    /\ call.op = "add" =>
          IF call.first THEN call.at \in Nodes
          ELSE call.at \in Attrs /\ call.at < newAttr
    /\ pc = "attr" =>
          /\ Unreferred(call.a)
          /\ chain.first < call.a /\ chain.last < call.a
          /\ call.op = "add" /\ ~call.first => call.at < call.a

AttrInv == LinksOK /\ ChainOK

\* The string that a node inserted with name or value is recognised by.
TextOf(n) == IF given[n].val \in Words THEN node[n].value ELSE node[n].name
WordOf(g) == IF g.val \in Words THEN g.val ELSE g.word

TextInv ==
    /\ \A n \in Nodes : given[n] # NotGiven =>
          /\ n < newNode
          /\ TextOf(n) \in Texts /\ TextOf(n) < newText
          /\ pc = "value" => TextOf(n) < call.nameAt
          /\ text[TextOf(n)] = WordOf(given[n])
    /\ call.op = "node" =>
          /\ pc = "value" => text[call.nameAt] = call.word
          /\ pc = "cell" => /\ call.nameAt < newText
                            /\ text[call.nameAt] = WordOf([word |-> call.word, val |-> call.val])

IInv == AllTyped /\ LabelsOK /\ PlacesOK /\ TreeInv /\ ReadInv /\ AttrInv /\ TextInv
-------------------------------------------------------------------------------
(* The initial state.                                                      *)

LEMMA InitIInv == Init => IInv
<1> SUFFICES ASSUME Init PROVE IInv
    OBVIOUS
<1> USE TreeAssumptions DEF Init, UNDEF, ROOT, Nodes, Attrs, Texts, Opt
<1>1. TypeOK
    BY DEF TypeOK, Blank, BlankAttr, NoChain, Labels, Faults
<1>2. /\ call \in CallType /\ copy \in CopyType /\ iter \in [Readers -> IterType]
      /\ kids \in [Nodes -> Seq(Nodes)]
      /\ given \in [Nodes -> [word : Words \cup {NoWord},
                              val : Words \cup {NoValue, OtherValue}]]
    BY DEF CallType, CopyType, IterType, NoCall, NoCopy, NoIter, NotGiven
<1>3. LabelsOK /\ PlacesOK
    BY DEF LabelsOK, PlacesOK, NoCall
<1>4. TreeInv
    BY DEF TreeInv, TreeShape, TreeInFile, WalkOK, IsListOf, Blank
<1>5. ReadInv
    BY DEF ReadInv, CopyOK, IterInv, NoCopy, NoIter
<1>6. AttrInv
    BY DEF AttrInv, LinksOK, ChainOK, Unreferred, Blank, BlankAttr, NoChain, NoCopy, NoCall
<1>7. TextInv
    BY DEF TextInv, NoCall
<1> QED BY <1>1, <1>2, <1>3, <1>4, <1>5, <1>6, <1>7 DEF IInv, AllTyped
-------------------------------------------------------------------------------
(* Types.                                                                  *)

NodeType == [attrs : Opt(Attrs), children : Opt(Nodes), next : Opt(Nodes),
             parent : Opt(Nodes), name : Opt(Texts), value : Opt(Texts) \cup {ELSEWHERE}]
AttrType == [key : Opt(Texts) \cup {ELSEWHERE}, value : Opt(Texts) \cup {ELSEWHERE},
             next : Opt(Attrs)]

\* The places of the cells that a call inserts.
LEMMA PlaceTypes ==
    ASSUME IInv
    PROVE  /\ newNode \in Int /\ newAttr \in Int /\ newText \in Int
           /\ newNode >= 1 /\ newAttr >= 1 /\ newText >= 1
           /\ pc \in {"name", "value", "cell"} /\ call.op = "node" =>
                 call.n \in Nodes \ {ROOT} /\ call.p \in Nodes
           /\ pc \in {"name", "value", "cell"} /\ call.op \in {"attr", "add"} =>
                 call.a \in Attrs
           /\ pc \in {"name", "value", "cell"} /\ call.op # "add" =>
                 /\ call.nameAt \in Texts
                 /\ call.valAt \in Opt(Texts) \cup {ELSEWHERE}
           /\ pc \in {"child", "walk"} => call.n \in Nodes \ {ROOT} /\ call.p \in Nodes
           /\ pc = "attr" => call.a \in Attrs
<1>a. MaxNodes \in Nat /\ MaxAttrs \in Nat /\ MaxTexts \in Nat
    BY TreeAssumptions
<1>1. /\ newNode \in 1 .. MaxNodes + 1 /\ newAttr \in 1 .. MaxAttrs + 1
      /\ newText \in 1 .. MaxTexts + 1 /\ linked \subseteq Nodes
    BY DEF IInv, AllTyped, TypeOK
<1>b. /\ newNode \in Int /\ newAttr \in Int /\ newText \in Int
      /\ newNode >= 1 /\ newAttr >= 1 /\ newText >= 1
    BY <1>a, <1>1
<1>c. PlacesOK /\ WalkOK
    BY DEF IInv, TreeInv
<1>2. ASSUME pc \in {"name", "value", "cell"}, call.op = "node"
      PROVE  call.n \in Nodes \ {ROOT} /\ call.p \in Nodes
    <2>1. call.n = newNode /\ newNode <= MaxNodes /\ call.p \in linked
        BY <1>2, <1>c DEF PlacesOK
    <2>2. newNode \in Nodes \ {ROOT}
        BY <2>1, <1>a, <1>b DEF Nodes, ROOT
    <2> QED BY <2>1, <2>2, <1>1
<1>3. pc \in {"name", "value", "cell"} /\ call.op \in {"attr", "add"} => call.a \in Attrs
    BY <1>a, <1>b, <1>c DEF PlacesOK, Attrs
<1>4. pc \in {"name", "value", "cell"} /\ call.op # "add" =>
                 /\ call.nameAt \in Texts
                 /\ call.valAt \in Opt(Texts) \cup {ELSEWHERE}
    BY <1>a, <1>b, <1>c DEF PlacesOK, Opt
<1>5. ASSUME pc \in {"child", "walk"} PROVE call.n \in Nodes \ {ROOT} /\ call.p \in Nodes
    <2>1. call.n \in 1 .. newNode - 1 /\ call.p \in linked
        BY <1>5, <1>c DEF WalkOK
    <2>2. call.n \in Nodes \ {ROOT}
        BY <2>1, <1>a, <1>1 DEF Nodes, ROOT
    <2> QED BY <2>1, <2>2, <1>1
<1>6. pc = "attr" => call.a \in Attrs
    BY <1>c DEF PlacesOK
<1> QED BY <1>b, <1>2, <1>3, <1>4, <1>5, <1>6

\* The children of an object, and where the walk over them stands.
LEMMA KidsAreNodes ==
    ASSUME IInv, NEW p \in Nodes
    PROVE  /\ kids[p] \in Seq(Nodes)
           /\ Len(kids[p]) \in Nat /\ DOMAIN kids[p] = 1 .. Len(kids[p])
           /\ \A i \in DOMAIN kids[p] : kids[p][i] \in Nodes
<1>1. kids[p] \in Seq(Nodes)
    BY DEF IInv, AllTyped
<1> QED BY <1>1, ElementOfSeq, LenProperties

LEMMA WalkIsOnNode == IInv /\ pc = "walk" => call.at \in Nodes
<1> SUFFICES ASSUME IInv, pc = "walk" PROVE call.at \in Nodes
    OBVIOUS
<1>1. call.p \in Nodes
    BY PlaceTypes
<1>2. call.at = call.p \/ \E i \in DOMAIN kids[call.p] : call.at = kids[call.p][i]
    BY DEF IInv, TreeInv, WalkOK
<1> QED BY <1>1, <1>2, KidsAreNodes

\* The variables of the file keep their types.
LEMMA FileTyped ==
    ASSUME IInv, Next
    PROVE  /\ node' \in [Nodes -> NodeType]
           /\ attr' \in [Attrs -> AttrType]
           /\ text' \in [Texts -> Words \cup {NoWord}]
           /\ newNode' \in 1 .. MaxNodes + 1
           /\ newAttr' \in 1 .. MaxAttrs + 1
           /\ newText' \in 1 .. MaxTexts + 1
<1>a. /\ node \in [Nodes -> NodeType]
      /\ attr \in [Attrs -> AttrType]
      /\ text \in [Texts -> Words \cup {NoWord}]
      /\ newNode \in 1 .. MaxNodes + 1
      /\ newAttr \in 1 .. MaxAttrs + 1
      /\ newText \in 1 .. MaxTexts + 1
    BY DEF IInv, AllTyped, TypeOK, NodeType, AttrType
<1>b. call \in CallType
    BY DEF IInv, AllTyped
<1>c. MaxNodes \in Nat /\ MaxAttrs \in Nat /\ MaxTexts \in Nat /\ PlacesOK /\ LabelsOK
    BY TreeAssumptions DEF IInv
<1> USE <1>a, <1>b, <1>c
<1>1. CASE UNCHANGED cellvars
    BY <1>1 DEF cellvars
<1>2. CASE InsertBare
    <2>1. Blank \in NodeType
        BY DEF Blank, NodeType, Opt
    <2>2. newNode + 1 \in 1 .. MaxNodes + 1
        BY <1>2 DEF InsertBare, RoomForNode
    <2> QED BY <1>2, <2>1, <2>2 DEF InsertBare
<1>3. CASE PutName
    <2>1. call.word \in Words /\ newText < MaxTexts
        BY <1>3 DEF PutName, PlacesOK, LabelsOK
    <2>2. newText + 1 \in 1 .. MaxTexts + 1
        BY <2>1
    <2> QED BY <1>3, <2>1, <2>2 DEF PutName, PutText
<1>4. CASE PutValue
    <2>1. call.valAt \in {UNDEF, ELSEWHERE, call.nameAt} /\ call.valAt \in Texts
          /\ (call.valAt = call.nameAt => call.val \in Words)
          /\ newText <= MaxTexts
        BY <1>4 DEF PutValue, PlacesOK, LabelsOK
    <2>2. call.val \in Words
        BY <2>1, <1>c DEF Texts, UNDEF, ELSEWHERE
    <2>3. newText + 1 \in 1 .. MaxTexts + 1
        BY <2>1
    <2> QED BY <1>4, <2>2, <2>3 DEF PutValue, PutText
<1>5. CASE PutNode
    <2>1. call.p \in Nodes /\ call.nameAt \in Texts /\ call.valAt \in Opt(Texts) \cup {ELSEWHERE}
          /\ call.link \in Opt(Attrs)
        BY <1>5, PlaceTypes DEF PutNode, CallType
    <2>2. [Blank EXCEPT !.attrs = call.link, !.parent = call.p,
                        !.name = call.nameAt, !.value = call.valAt] \in NodeType
        BY <2>1 DEF Blank, NodeType, Opt
    <2>3. newNode + 1 \in 1 .. MaxNodes + 1
        BY <1>5 DEF PutNode, PlacesOK
    <2> QED BY <1>5, <2>2, <2>3 DEF PutNode
<1>6. CASE PutAttr
    <2>1. newAttr + 1 \in 1 .. MaxAttrs + 1
        BY <1>6 DEF PutAttr, PlacesOK
    <2>2. [BlankAttr EXCEPT !.key = ELSEWHERE] \in AttrType
        BY DEF BlankAttr, AttrType, Opt
    <2>3. call.op = "attr" => [key |-> call.nameAt, value |-> call.valAt, next |-> UNDEF] \in AttrType
        BY <1>6, PlaceTypes DEF PutAttr, AttrType, Opt
    <2> QED BY <1>6, <2>1, <2>2, <2>3 DEF PutAttr
<1>7. CASE LinkPrev
    <2>1. call.a \in Attrs
        BY <1>7, PlaceTypes DEF LinkPrev
    <2>2. attr' \in [Attrs -> AttrType]
        BY <1>7, <2>1 DEF LinkPrev, AttrType, Opt
    <2> QED BY <1>7, <2>2 DEF LinkPrev
<1>8. CASE LinkAttr
    <2>1. call.a \in Attrs
        BY <1>8, PlaceTypes DEF LinkAttr
    <2>2. attr' \in [Attrs -> AttrType]
        BY <1>8, <2>1 DEF LinkAttr, AttrType, Opt
    <2>3. node' \in [Nodes -> NodeType]
        BY <1>8, <2>1 DEF LinkAttr, NodeType, Opt
    <2> QED BY <1>8, <2>2, <2>3 DEF LinkAttr
<1>9. CASE SetParent
    <2>1. call.p \in Nodes
        BY <1>9, PlaceTypes DEF SetParent
    <2>2. node' \in [Nodes -> NodeType]
        BY <1>9, <2>1 DEF SetParent, NodeType, Opt
    <2> QED BY <1>9, <2>2 DEF SetParent
<1>10. CASE LinkChild
    <2>1. call.n \in Opt(Nodes)
        BY <1>10, PlaceTypes DEF LinkChild, Opt
    <2>2. \/ node' = [node EXCEPT ![call.at].children = call.n]
          \/ node' = [node EXCEPT ![call.at].next = call.n]
        BY <1>10 DEF LinkChild
    <2>3. node' \in [Nodes -> NodeType]
        BY <2>1, <2>2 DEF NodeType
    <2> QED BY <1>10, <2>3 DEF LinkChild
<1>11. \/ UNCHANGED cellvars \/ InsertBare \/ PutName \/ PutValue \/ PutNode \/ PutAttr
       \/ LinkPrev \/ LinkAttr \/ SetParent \/ LinkChild
    BY DEF Next, Library, Client, Crash, FindFails, FindPlaces, FindNoValue, PutNoText,
           PutNullDies, Walk, InsertNode, InsertAttr, AddChild, TakeCopy, AddAttrFirst,
           AddAttrNext, AddAttrDies, IterStart, IterNext, IterEnd
<1> QED BY <1>1, <1>2, <1>3, <1>4, <1>5, <1>6, <1>7, <1>8, <1>9, <1>10, <1>11

\* A call that begins or goes on is a call, and not the idle one.
LEMMA CallTyped ==
    ASSUME IInv, Next
    PROVE  call' \in CallType /\ pc' \in Labels /\ (pc' = "idle") = (call' = NoCall)
<1>a. /\ call \in CallType /\ pc \in Labels /\ (pc = "idle") = (call = NoCall)
      /\ chain \in [first : Opt(Attrs), last : Opt(Attrs)] /\ copy \in CopyType
      /\ linked \subseteq Nodes /\ bare \subseteq Nodes
      /\ node \in [Nodes -> NodeType]
    BY DEF IInv, AllTyped, TypeOK, NodeType
<1>b. /\ newNode \in Int /\ newAttr \in Int /\ newText \in Int
      /\ UNDEF \in Int /\ ELSEWHERE \in Int /\ Nodes \subseteq Int /\ Attrs \subseteq Int
      /\ \A S : UNDEF \in Opt(S) /\ S \subseteq Opt(S)
    BY PlaceTypes, TreeAssumptions DEF UNDEF, ELSEWHERE, Nodes, Attrs, Opt
<1>c. NoCall \in CallType
    BY <1>b DEF NoCall, CallType
<1>d. Opt(Nodes) \subseteq Int /\ Opt(Attrs) \subseteq Int
    BY <1>b DEF Opt
<1>1. CASE Return
    BY <1>1, <1>c DEF Return, Labels
<1>2. CASE pc # "idle" /\ UNCHANGED call /\ pc' \in Labels \ {"idle"}
    BY <1>2, <1>a
<1>3. ASSUME NEW p \in linked, NEW w \in Words, NEW v \in ValueChoices, InsertNode(p, w, v)
      PROVE  call' \in CallType /\ pc' \in Labels /\ pc' # "idle" /\ call' # NoCall
    <2>1. v \in Words \cup {NoValue, OtherValue} /\ p \in Opt(Nodes) /\ chain.first \in Opt(Attrs)
        BY <1>a, <1>b, TreeAssumptions
    <2>2. call' = [NoCall EXCEPT !.op = "node", !.p = p, !.word = w, !.val = v,
                                 !.link = chain.first]
        BY <1>3 DEF InsertNode
    <2>3. call' \in CallType /\ call'.op = "node"
        BY <2>1, <2>2, <1>c DEF CallType
    <2> QED BY <1>3, <2>3 DEF InsertNode, NoCall, Labels
<1>4. ASSUME NEW w \in Words, NEW v \in ValueChoices, InsertAttr(w, v)
      PROVE  call' \in CallType /\ pc' \in Labels /\ pc' # "idle" /\ call' # NoCall
    <2>1. v \in Words \cup {NoValue, OtherValue} /\ chain.last \in Opt(Attrs)
        BY <1>a, TreeAssumptions
    <2>2. call' = [NoCall EXCEPT !.op = "attr", !.word = w, !.val = v, !.link = chain.last]
        BY <1>4 DEF InsertAttr
    <2>3. call' \in CallType /\ call'.op = "attr"
        BY <2>1, <2>2, <1>c DEF CallType
    <2> QED BY <1>4, <2>3 DEF InsertAttr, NoCall, Labels
<1>5. ASSUME NEW p \in linked, NEW n \in bare, AddChild(p, n)
      PROVE  call' \in CallType /\ pc' \in Labels /\ pc' # "idle" /\ call' # NoCall
    <2>1. call' = [NoCall EXCEPT !.op = "child", !.p = p, !.n = n]
        BY <1>5 DEF AddChild
    <2>2. call' \in CallType /\ call'.op = "child"
        BY <2>1, <1>a, <1>b, <1>c DEF CallType
    <2> QED BY <1>5, <2>2 DEF AddChild, NoCall, Labels
<1>6. ASSUME AddAttrFirst \/ AddAttrNext
      PROVE  call' \in CallType /\ pc' \in Labels /\ pc' # "idle" /\ call' # NoCall
    <2>1. copy.n \in Int /\ copy.attrs \in Int
        BY <1>a, <1>d DEF CopyType
    <2>2. \/ call' = [NoCall EXCEPT !.op = "add", !.at = copy.n, !.first = TRUE]
          \/ call' = [NoCall EXCEPT !.op = "add", !.at = copy.attrs]
        BY <1>6 DEF AddAttrFirst, AddAttrNext
    <2>3. call' \in CallType /\ call'.op = "add"
        BY <2>1, <2>2, <1>c DEF CallType
    <2> QED BY <1>6, <2>3 DEF AddAttrFirst, AddAttrNext, NoCall, Labels
<1>7. ASSUME FindPlaces \/ FindNoValue
      PROVE  call' \in CallType /\ pc' \in Labels /\ pc' # "idle" /\ call' # NoCall
    <2>1. PlaceOfValue \in Int
        BY <1>b DEF PlaceOfValue
    <2>2. call.op # "none"
        BY <1>7 DEF FindPlaces, FindNoValue, IInv, LabelsOK
    <2>3. \/ call' = [call EXCEPT !.nameAt = newText, !.valAt = PlaceOfValue,
                                  !.n = newNode, !.a = newAttr]
          \/ call' = [call EXCEPT !.nameAt = newText, !.a = newAttr]
        BY <1>7 DEF FindPlaces, FindNoValue
    <2>4. call' \in CallType /\ call'.op = call.op
        BY <2>1, <2>3, <1>a, <1>b DEF CallType
    <2> QED BY <1>7, <2>2, <2>4 DEF FindPlaces, FindNoValue, NoCall, Labels
<1>8. ASSUME SetParent \/ Walk
      PROVE  call' \in CallType /\ pc' \in Labels /\ pc' # "idle" /\ call' # NoCall
    <2>1. call.op # "none" /\ call.p \in Nodes
        BY <1>8, PlaceTypes DEF SetParent, Walk, IInv, LabelsOK
    <2>2. \A n \in Nodes : node[n].children \in Int /\ node[n].next \in Int
        BY <1>a, <1>d DEF NodeType
    <2>3. Walk => call.at \in Nodes
        BY WalkIsOnNode DEF Walk, AtLast
    <2>4. \/ call' = [call EXCEPT !.at = call.p, !.first = TRUE]
          \/ call' = [call EXCEPT !.at = node[call.p].children]
          \/ Walk /\ call' = [call EXCEPT !.at = node[call.at].next]
        BY <1>8 DEF SetParent, Walk
    <2>5. call' \in CallType /\ call'.op = call.op
        BY <2>1, <2>2, <2>3, <2>4, <1>a, <1>b DEF CallType
    <2> QED BY <1>8, <2>1, <2>5 DEF SetParent, Walk, NoCall, Labels
<1>9. CASE UNCHANGED <<pc, call>>
    BY <1>9, <1>a
<1>10. \/ Return \/ (pc # "idle" /\ UNCHANGED call /\ pc' \in Labels \ {"idle"})
       \/ \E p \in linked, w \in Words, v \in ValueChoices : InsertNode(p, w, v)
       \/ \E w \in Words, v \in ValueChoices : InsertAttr(w, v)
       \/ \E p \in linked, n \in bare : AddChild(p, n)
       \/ AddAttrFirst \/ AddAttrNext \/ FindPlaces \/ FindNoValue \/ SetParent \/ Walk
       \/ UNCHANGED <<pc, call>>
    <2>1. CASE Library
        <3>1. FindFails \/ PutNullDies \/ LinkPrev \/ LinkAttr \/ LinkChild => Return
            BY DEF FindFails, PutNullDies, LinkPrev, LinkAttr, LinkChild, ProcessEnds
        <3>2. PutName \/ PutValue \/ PutNoText \/ PutNode \/ PutAttr
                 => pc # "idle" /\ UNCHANGED call /\ pc' \in Labels \ {"idle"}
            BY DEF PutName, PutValue, PutNoText, PutNode, PutAttr, Goto, Labels
        <3> QED BY <2>1, <3>1, <3>2 DEF Library
    <2>2. CASE Client
        <3>1. InsertBare => UNCHANGED <<pc, call>>
            BY DEF InsertBare
        <3>2. ASSUME NEW n, TakeCopy(n) PROVE UNCHANGED <<pc, call>>
            BY <3>2 DEF TakeCopy
        <3>3. ASSUME NEW r, IterStart(r) \/ IterNext(r) \/ IterEnd(r) PROVE UNCHANGED <<pc, call>>
            BY <3>3 DEF IterStart, IterNext, IterEnd
        <3>4. AddAttrDies => Return
            BY DEF AddAttrDies, ProcessEnds
        <3> QED BY <2>2, <3>1, <3>2, <3>3, <3>4 DEF Client
    <2>3. CASE Crash
        BY <2>3 DEF Crash, ProcessEnds
    <2> QED BY <2>1, <2>2, <2>3 DEF Next
<1> QED BY <1>1, <1>2, <1>3, <1>4, <1>5, <1>6, <1>7, <1>8, <1>9, <1>10

\* What the client holds keeps its type.
LEMMA ClientTyped ==
    ASSUME IInv, Next
    PROVE  /\ bare' \subseteq Nodes
           /\ chain' \in [first : Opt(Attrs), last : Opt(Attrs)]
           /\ copy' \in CopyType
           /\ iter' \in [Readers -> IterType]
<1>a. /\ bare \subseteq Nodes /\ linked \subseteq Nodes
      /\ chain \in [first : Opt(Attrs), last : Opt(Attrs)]
      /\ copy \in CopyType /\ iter \in [Readers -> IterType]
      /\ node \in [Nodes -> NodeType]
    BY DEF IInv, AllTyped, TypeOK, NodeType
<1>b. NoChain \in [first : Opt(Attrs), last : Opt(Attrs)] /\ NoCopy \in CopyType /\ NoIter \in IterType
    BY DEF NoChain, NoCopy, NoIter, CopyType, IterType, Opt
<1> USE <1>a
<1>1. CASE UNCHANGED client
    BY <1>1 DEF client
<1>2. CASE ProcessEnds
    BY <1>2, <1>b DEF ProcessEnds
<1>3. ASSUME NEW p \in linked, NEW w \in Words, NEW v \in ValueChoices, InsertNode(p, w, v)
      PROVE  UNCHANGED <<bare, copy, iter>> /\ chain' = NoChain
    BY <1>3 DEF InsertNode
<1>4. CASE InsertBare
    <2>1. newNode \in Nodes
        BY <1>4, PlaceTypes, TreeAssumptions DEF InsertBare, RoomForNode, Nodes
    <2> QED BY <1>4, <2>1 DEF InsertBare
<1>5. ASSUME NEW p \in linked, NEW n \in bare, AddChild(p, n)
      PROVE  UNCHANGED <<chain, copy, iter>> /\ bare' \subseteq bare
    BY <1>5 DEF AddChild
<1>6. ASSUME NEW n \in linked, TakeCopy(n)
      PROVE  UNCHANGED <<bare, chain, iter>> /\ copy' \in CopyType
    <2>1. n \in Nodes /\ n \in Opt(Nodes) /\ Len(kids[n]) \in Nat
        BY KidsAreNodes DEF Opt
    <2>2. node[n].attrs \in Opt(Attrs) /\ node[n].children \in Opt(Nodes)
        BY <2>1 DEF NodeType
    <2> QED BY <1>6, <2>1, <2>2 DEF TakeCopy, CopyType
<1>7. CASE LinkPrev
    <2>1. call.a \in Opt(Attrs)
        BY <1>7, PlaceTypes DEF LinkPrev, Opt
    <2> QED BY <1>7, <2>1 DEF LinkPrev
<1>8. ASSUME NEW r \in Readers, IterStart(r) \/ IterNext(r) \/ IterEnd(r)
      PROVE  UNCHANGED <<bare, chain, copy>> /\ iter' \in [Readers -> IterType]
    <2>1. CASE IterStart(r)
        <3>1. [of |-> copy.n, next |-> copy.children, seen |-> << >>, had |-> copy.had] \in IterType
            BY DEF CopyType, IterType
        <3> QED BY <2>1, <3>1 DEF IterStart
    <2>2. CASE IterNext(r)
        <3>1. iter[r] \in IterType /\ iter[r].next \in Nodes
            BY <2>2 DEF IterNext, IterType, Opt
        <3>2. Append(iter[r].seen, iter[r].next) \in Seq(Nodes)
            BY <3>1, AppendProperties DEF IterType
        <3>3. node[iter[r].next].next \in Opt(Nodes)
            BY <3>1 DEF NodeType
        <3>4. iter' = [iter EXCEPT ![r].seen = Append(@, iter[r].next),
                                   ![r].next = node[iter[r].next].next]
            BY <2>2 DEF IterNext
        <3>5. iter' = [iter EXCEPT ![r] =
                          [iter[r] EXCEPT !.seen = Append(iter[r].seen, iter[r].next),
                                          !.next = node[iter[r].next].next]]
            BY <3>4, <3>1 DEF IterType
        <3>6. [iter[r] EXCEPT !.seen = Append(iter[r].seen, iter[r].next),
                              !.next = node[iter[r].next].next] \in IterType
            BY <3>1, <3>2, <3>3 DEF IterType
        <3> QED BY <2>2, <3>5, <3>6 DEF IterNext
    <2>3. CASE IterEnd(r)
        BY <2>3, <1>b DEF IterEnd
    <2> QED BY <1>8, <2>1, <2>2, <2>3 DEF IterStart, IterNext, IterEnd
<1>9. \/ UNCHANGED client \/ ProcessEnds \/ InsertBare \/ LinkPrev
      \/ \E p \in linked, w \in Words, v \in ValueChoices : InsertNode(p, w, v)
      \/ \E p \in linked, n \in bare : AddChild(p, n)
      \/ \E n \in linked : TakeCopy(n)
      \/ \E r \in Readers : IterStart(r) \/ IterNext(r) \/ IterEnd(r)
    <2>1. CASE Library
        BY <2>1 DEF Library, FindFails, FindPlaces, FindNoValue, PutName, PutValue, PutNoText,
                    PutNullDies, PutNode, PutAttr, LinkAttr, SetParent, Walk, LinkChild
    <2>2. CASE Client
        BY <2>2 DEF Client, InsertAttr, AddAttrFirst, AddAttrNext, AddAttrDies
    <2>3. CASE Crash
        BY <2>3 DEF Crash
    <2> QED BY <2>1, <2>2, <2>3 DEF Next
<1> QED BY <1>1, <1>2, <1>3, <1>4, <1>5, <1>6, <1>7, <1>8, <1>9, <1>b

\* So does what the model remembers.
LEMMA HistoryTyped ==
    ASSUME IInv, Next
    PROVE  /\ linked' \subseteq Nodes
           /\ kids' \in [Nodes -> Seq(Nodes)]
           /\ given' \in [Nodes -> [word : Words \cup {NoWord},
                                    val : Words \cup {NoValue, OtherValue}]]
           /\ fault' \in Faults
<1>a. /\ linked \subseteq Nodes /\ kids \in [Nodes -> Seq(Nodes)] /\ fault \in Faults
      /\ given \in [Nodes -> [word : Words \cup {NoWord},
                              val : Words \cup {NoValue, OtherValue}]]
    BY DEF IInv, AllTyped, TypeOK
<1> USE <1>a
<1>1. CASE UNCHANGED history /\ fault' \in Faults
    BY <1>1 DEF history
<1>2. CASE PutNode
    <2>1. call.word \in Words \cup {NoWord} /\ call.val \in Words \cup {NoValue, OtherValue}
        BY DEF IInv, AllTyped, CallType
    <2> QED BY <1>2, <2>1 DEF PutNode
<1>3. CASE LinkChild
    <2>1. call.n \in Nodes /\ call.p \in Nodes
        BY <1>3, PlaceTypes DEF LinkChild
    <2>2. Append(kids[call.p], call.n) \in Seq(Nodes)
        BY <2>1, AppendProperties
    <2> QED BY <1>3, <2>1, <2>2 DEF LinkChild
<1>4. (UNCHANGED history /\ fault' \in Faults) \/ PutNode \/ LinkChild
    <2>1. CASE Library
        BY <2>1 DEF Library, FindFails, FindPlaces, FindNoValue, PutName, PutValue, PutNoText,
                    PutNullDies, PutAttr, LinkPrev, LinkAttr, SetParent, Walk, ProcessEnds, Faults
    <2>2. CASE Client
        BY <2>2 DEF Client, InsertNode, InsertAttr, InsertBare, AddChild, TakeCopy,
                    AddAttrFirst, AddAttrNext, AddAttrDies, IterStart, IterNext, IterEnd,
                    ProcessEnds, Faults
    <2>3. CASE Crash
        BY <2>3 DEF Crash, ProcessEnds
    <2> QED BY <2>1, <2>2, <2>3 DEF Next
<1> QED BY <1>1, <1>2, <1>3, <1>4

LEMMA TypedStep == IInv /\ Next => AllTyped'
<1> SUFFICES ASSUME IInv, Next PROVE AllTyped'
    OBVIOUS
<1>1. TypeOK'
    BY FileTyped, CallTyped, ClientTyped, HistoryTyped DEF TypeOK, NodeType, AttrType
<1> QED BY <1>1, CallTyped, ClientTyped, HistoryTyped
        DEF AllTyped, CallType, CopyType, IterType
-------------------------------------------------------------------------------
(* The steps of a call.                                                    *)

\* What a step may be: it ends a call, belongs to the client between two calls,
\* or begins a call or goes on with one.
LEMMA StepKinds ==
    ASSUME IInv, Next
    PROVE  \/ pc' = "idle" /\ call' = NoCall
           \/ \E p \in linked, w \in Words, v \in ValueChoices : InsertNode(p, w, v)
           \/ \E w \in Words, v \in ValueChoices : InsertAttr(w, v)
           \/ \E p \in linked, n \in bare : AddChild(p, n)
           \/ AddAttrFirst \/ AddAttrNext
           \/ FindPlaces \/ FindNoValue \/ PutName \/ PutValue \/ PutNoText
           \/ PutNode \/ PutAttr \/ SetParent \/ Walk
<1>1. pc = "idle" <=> call = NoCall
    BY DEF IInv, AllTyped, TypeOK
<1>2. CASE Library
    <2>1. FindFails \/ PutNullDies \/ LinkPrev \/ LinkAttr \/ LinkChild => Return
        BY DEF FindFails, PutNullDies, LinkPrev, LinkAttr, LinkChild, ProcessEnds
    <2> QED BY <1>2, <2>1 DEF Library, Return
<1>3. CASE Client
    <2>1. InsertBare => pc' = "idle" /\ call' = NoCall
        BY <1>1 DEF InsertBare
    <2>2. ASSUME NEW n, TakeCopy(n) PROVE pc' = "idle" /\ call' = NoCall
        BY <1>1, <2>2 DEF TakeCopy
    <2>3. ASSUME NEW r, IterStart(r) \/ IterNext(r) \/ IterEnd(r)
          PROVE  pc' = "idle" /\ call' = NoCall
        BY <1>1, <2>3 DEF IterStart, IterNext, IterEnd
    <2>4. AddAttrDies => pc' = "idle" /\ call' = NoCall
        BY DEF AddAttrDies, ProcessEnds, Return
    <2> QED BY <1>3, <2>1, <2>2, <2>3, <2>4 DEF Client
<1>4. CASE Crash
    BY <1>4 DEF Crash, ProcessEnds, Return
<1> QED BY <1>2, <1>3, <1>4 DEF Next

\* The call of the client has the operation and the place it is made with.
LEMMA CallsMade ==
    ASSUME IInv
    PROVE  /\ \A p, w, v : InsertNode(p, w, v) =>
                 /\ call'.op = "node" /\ call'.p = p /\ call'.word = w /\ call'.val = v
                 /\ call'.link = chain.first /\ call'.valAt = UNDEF /\ ~call'.first
           /\ \A w, v : InsertAttr(w, v) =>
                 /\ call'.op = "attr" /\ call'.word = w /\ call'.val = v
                 /\ call'.link = chain.last /\ call'.valAt = UNDEF
           /\ \A p, n : AddChild(p, n) =>
                 call'.op = "child" /\ call'.p = p /\ call'.n = n /\ ~call'.first
           /\ AddAttrFirst =>
                 call'.op = "add" /\ call'.at = copy.n /\ call'.first /\ call'.valAt = UNDEF
           /\ AddAttrNext =>
                 call'.op = "add" /\ call'.at = copy.attrs /\ ~call'.first /\ call'.valAt = UNDEF
<1>1. ASSUME NEW p, NEW w, NEW v, InsertNode(p, w, v)
      PROVE  /\ call'.op = "node" /\ call'.p = p /\ call'.word = w /\ call'.val = v
             /\ call'.link = chain.first /\ call'.valAt = UNDEF /\ ~call'.first
    BY <1>1 DEF InsertNode, NoCall
<1>2. ASSUME NEW w, NEW v, InsertAttr(w, v)
      PROVE  /\ call'.op = "attr" /\ call'.word = w /\ call'.val = v
             /\ call'.link = chain.last /\ call'.valAt = UNDEF
    BY <1>2 DEF InsertAttr, NoCall
<1>3. ASSUME NEW p, NEW n, AddChild(p, n)
      PROVE  call'.op = "child" /\ call'.p = p /\ call'.n = n /\ ~call'.first
    BY <1>3 DEF AddChild, NoCall
<1>4. AddAttrFirst =>
         call'.op = "add" /\ call'.at = copy.n /\ call'.first /\ call'.valAt = UNDEF
    BY DEF AddAttrFirst, NoCall
<1>5. AddAttrNext =>
         call'.op = "add" /\ call'.at = copy.attrs /\ ~call'.first /\ call'.valAt = UNDEF
    BY DEF AddAttrNext, NoCall
<1> QED BY <1>1, <1>2, <1>3, <1>4, <1>5

\* The places a call is given, and all that it had before.
LEMMA PlacesFound ==
    ASSUME IInv, FindPlaces \/ FindNoValue
    PROVE  /\ call'.op = call.op /\ call'.p = call.p /\ call'.word = call.word
           /\ call'.val = call.val /\ call'.link = call.link
           /\ call'.at = call.at /\ call'.first = call.first
           /\ call'.nameAt = newText /\ call'.a = newAttr
           /\ FindPlaces => call'.n = newNode /\ call'.valAt = PlaceOfValue
           /\ FindNoValue => call.op = "attr" /\ call'.valAt = UNDEF
<1>1. call \in CallType /\ PlacesOK
    BY DEF IInv, AllTyped
<1>2. ASSUME FindPlaces
      PROVE  call' = [call EXCEPT !.nameAt = newText, !.valAt = PlaceOfValue,
                                  !.n = newNode, !.a = newAttr]
    BY <1>2 DEF FindPlaces
<1>3. ASSUME FindNoValue
      PROVE  call' = [call EXCEPT !.nameAt = newText, !.a = newAttr]
             /\ call.op = "attr" /\ call.valAt = UNDEF
    BY <1>1, <1>3 DEF FindNoValue, PlacesOK
<1> QED BY <1>1, <1>2, <1>3 DEF CallType

LEMMA LabelsStep == IInv /\ Next => LabelsOK'
<1> SUFFICES ASSUME IInv, Next PROVE LabelsOK'
    OBVIOUS
<1>a. LabelsOK /\ call \in CallType
    BY DEF IInv, AllTyped
<1>1. CASE pc' = "idle"
    BY <1>1 DEF LabelsOK
<1>2. ASSUME NEW p \in linked, NEW w \in Words, NEW v \in ValueChoices, InsertNode(p, w, v)
      PROVE  LabelsOK'
    BY <1>2, CallsMade DEF InsertNode, LabelsOK
<1>3. ASSUME NEW w \in Words, NEW v \in ValueChoices, InsertAttr(w, v) PROVE LabelsOK'
    BY <1>3, CallsMade DEF InsertAttr, LabelsOK
<1>4. ASSUME NEW p \in linked, NEW n \in bare, AddChild(p, n) PROVE LabelsOK'
    BY <1>4, CallsMade DEF AddChild, LabelsOK
<1>5. CASE AddAttrFirst \/ AddAttrNext
    BY <1>5, CallsMade DEF AddAttrFirst, AddAttrNext, LabelsOK
<1>6. CASE FindPlaces \/ FindNoValue
    BY <1>6, <1>a, PlacesFound DEF FindPlaces, FindNoValue, LabelsOK
<1>7. CASE PutName \/ PutValue \/ PutNoText \/ PutNode \/ PutAttr
    BY <1>7, <1>a DEF PutName, PutValue, PutNoText, PutNode, PutAttr, Goto, LabelsOK
<1>8. CASE SetParent \/ Walk
    <2>1. call'.op = call.op
        BY <1>8, <1>a DEF SetParent, Walk, CallType
    <2> QED BY <1>8, <1>a, <2>1 DEF SetParent, Walk, LabelsOK
<1> QED BY StepKinds, <1>1, <1>2, <1>3, <1>4, <1>5, <1>6, <1>7, <1>8

LEMMA PlacesStep == IInv /\ Next => PlacesOK'
<1> SUFFICES ASSUME IInv, Next PROVE PlacesOK'
    OBVIOUS
<1>a. PlacesOK /\ LabelsOK /\ call \in CallType /\ linked \subseteq Nodes
    BY DEF IInv, AllTyped, TypeOK
<1>b. /\ MaxTexts \in Nat /\ MaxAttrs \in Nat
      /\ newText \in Int /\ newText >= 1 /\ newAttr \in Int /\ newAttr >= 1
    BY PlaceTypes, TreeAssumptions
<1>1. CASE pc' = "idle" /\ call' = NoCall
    BY <1>1 DEF PlacesOK, NoCall
<1>2. ASSUME NEW p \in linked, NEW w \in Words, NEW v \in ValueChoices, InsertNode(p, w, v)
      PROVE  PlacesOK'
    <2>1. newNode <= MaxNodes /\ newText < MaxTexts /\ pc' = "find"
          /\ UNCHANGED <<newNode, newText, linked>>
        BY <1>2 DEF InsertNode, RoomForNode, RoomForTexts, cellvars, history
    <2>2. /\ call'.op = "node" /\ call'.p \in linked /\ call'.word \in Words
          /\ call'.valAt = UNDEF /\ ~call'.first
        BY <1>2, CallsMade
    <2> QED BY <2>1, <2>2 DEF PlacesOK
<1>3. ASSUME NEW w \in Words, NEW v \in ValueChoices, InsertAttr(w, v) PROVE PlacesOK'
    <2>1. newAttr <= MaxAttrs /\ newText < MaxTexts /\ pc' = "find"
          /\ UNCHANGED <<newAttr, newText>>
        BY <1>3 DEF InsertAttr, RoomForAttr, RoomForTexts, cellvars
    <2>2. call'.op = "attr" /\ call'.word \in Words /\ call'.valAt = UNDEF
        BY <1>3, CallsMade
    <2> QED BY <2>1, <2>2 DEF PlacesOK
<1>4. ASSUME NEW p \in linked, NEW n \in bare, AddChild(p, n) PROVE PlacesOK'
    BY <1>4, CallsMade DEF AddChild, PlacesOK
<1>5. CASE AddAttrFirst \/ AddAttrNext
    <2>1. newAttr <= MaxAttrs /\ pc' = "find" /\ newAttr' = newAttr
        BY <1>5 DEF AddAttrFirst, AddAttrNext, RoomForAttr, cellvars
    <2>2. call'.op = "add" /\ call'.valAt = UNDEF
        BY <1>5, CallsMade
    <2> QED BY <2>1, <2>2 DEF PlacesOK
<1>6. CASE FindPlaces \/ FindNoValue
    <2>1. pc = "find" /\ pc' \in {"name", "cell"} /\ (pc' = "cell" <=> call.op = "add")
          /\ UNCHANGED <<newNode, newAttr, newText, linked>>
        BY <1>6 DEF FindPlaces, FindNoValue, cellvars, history
    <2>2. /\ call'.op = call.op /\ call'.p = call.p /\ call'.word = call.word
          /\ call'.val = call.val /\ call'.nameAt = newText /\ call'.a = newAttr
          /\ call'.first = call.first
        BY <1>6, PlacesFound
    <2>3. call.op \in {"node", "attr", "add"}
        BY <1>a, <2>1 DEF LabelsOK
    <2>4. call.op = "node" => call'.n = newNode
        BY <1>6, PlacesFound
    <2>5. call.op # "add" =>
             /\ call'.valAt \in {UNDEF, ELSEWHERE, newText}
             /\ call'.valAt = newText => call.val \in Words
             /\ call.op = "node" /\ call.val \in Words => call'.valAt = newText
        <3>1. CASE FindNoValue
            BY <3>1, PlacesFound, <1>b DEF UNDEF
        <3>2. CASE FindPlaces
            <4>1. call'.valAt = PlaceOfValue
                BY <3>2, PlacesFound
            <4>2. newText # UNDEF /\ newText # ELSEWHERE
                BY <1>b DEF UNDEF, ELSEWHERE
            <4>3. call.val \in Words \cup {NoValue, OtherValue}
                BY <1>a DEF CallType
            <4> QED BY <4>1, <4>2, <4>3, TreeAssumptions DEF PlaceOfValue
        <3> QED BY <1>6, <3>1, <3>2
    <2>6. call.op # "add" => newText \in Texts /\ newText < MaxTexts
        BY <1>a, <1>b, <2>1, <2>3 DEF PlacesOK, Texts
    <2>7. /\ call.op = "node" => newNode <= MaxNodes /\ call.p \in linked /\ ~call.first
          /\ call.op \in {"attr", "add"} => newAttr <= MaxAttrs
          /\ call.op \in {"node", "attr"} => call.word \in Words
        BY <1>a, <2>1 DEF PlacesOK
    <2> QED BY <2>1, <2>2, <2>3, <2>4, <2>5, <2>6, <2>7 DEF PlacesOK
<1>7. CASE PutName
    <2>1. newText' = newText + 1 /\ pc = "name" /\ pc' = "value"
          /\ UNCHANGED <<newNode, newAttr, linked, call>>
        BY <1>7 DEF PutName, PutText, Goto, history
    <2> QED BY <2>1, <1>a, <1>b DEF PlacesOK, LabelsOK
<1>8. CASE PutValue
    <2>1. pc = "value" /\ pc' = "cell" /\ UNCHANGED <<newNode, newAttr, linked, call>>
        BY <1>8 DEF PutValue, Goto, history
    <2> QED BY <2>1, <1>a, <1>b DEF PlacesOK, LabelsOK
<1>9. CASE PutNoText
    <2>1. pc = "value" /\ pc' = "cell" /\ UNCHANGED <<newNode, newAttr, newText, linked, call>>
        BY <1>9 DEF PutNoText, Goto, history, cellvars
    <2> QED BY <2>1, <1>a, <1>b DEF PlacesOK, LabelsOK
<1>10. CASE PutNode
    <2>1. call.op = "node" /\ pc' = "child" /\ UNCHANGED call
        BY <1>10 DEF PutNode, Goto
    <2> QED BY <2>1, <1>a DEF PlacesOK
<1>11. CASE PutAttr
    <2>1. /\ call.op \in {"attr", "add"} /\ pc = "cell" /\ pc' = "attr" /\ UNCHANGED call
          /\ newAttr' = newAttr + 1
        BY <1>11 DEF PutAttr, Goto
    <2>2. call.a = newAttr /\ newAttr \in Attrs
        BY <2>1, <1>a, <1>b DEF PlacesOK, Attrs
    <2> QED BY <2>1, <2>2, <1>a, <1>b DEF PlacesOK
<1>12. CASE SetParent \/ Walk
    <2>1. pc \in {"child", "walk"} /\ pc' = "walk" /\ call'.op = call.op /\ call'.word = call.word
        BY <1>12, <1>a DEF SetParent, Walk, CallType
    <2> QED BY <2>1, <1>a DEF PlacesOK, LabelsOK
<1> QED BY StepKinds, <1>1, <1>2, <1>3, <1>4, <1>5, <1>6, <1>7, <1>8, <1>9, <1>10, <1>11, <1>12
-------------------------------------------------------------------------------
(* The tree.                                                               *)

\* A node that is not linked has no children and no sibling.
LEMMA UnlinkedIsBare ==
    ASSUME IInv, NEW n \in Nodes \ linked
    PROVE  kids[n] = << >> /\ node[n].children = UNDEF /\ node[n].next = UNDEF
<1>1. DOMAIN kids[n] = {}
    BY DEF IInv, TreeInv, TreeShape
<1>2. kids[n] = << >>
    BY <1>1, KidsAreNodes
<1> QED BY <1>2 DEF IInv, TreeInv, TreeInFile, IsListOf

\* A child has a sibling behind it or is the last one.
LEMMA SiblingLinks ==
    ASSUME IInv, NEW p \in Nodes, NEW i \in DOMAIN kids[p]
    PROVE  /\ kids[p] # << >>
           /\ node[p].children = kids[p][1]
           /\ node[kids[p][i]].parent = p
           /\ node[kids[p][i]].next = UNDEF <=> i = Len(kids[p])
           /\ i # Len(kids[p]) => /\ i + 1 \in DOMAIN kids[p]
                                  /\ node[kids[p][i]].next = kids[p][i + 1]
<1>1. IsListOf(kids[p], p) /\ node[kids[p][i]].parent = p
    BY DEF IInv, TreeInv, TreeInFile
<1>2. i \in 1 .. Len(kids[p]) /\ Len(kids[p]) \in Nat
    BY KidsAreNodes
<1>3. kids[p] # << >>
    BY <1>2
<1>4. i # Len(kids[p]) => i + 1 \in DOMAIN kids[p]
    BY <1>2, KidsAreNodes
<1>5. UNDEF \notin Nodes
    BY DEF UNDEF, Nodes
<1> QED BY <1>1, <1>3, <1>4, <1>5, KidsAreNodes DEF IsListOf

\* What LinkChild stores: one link, where there was none, from the last child of
\* the parent, or from the parent that has no child yet.
LEMMA LinkStores ==
    ASSUME IInv, LinkChild
    PROVE  LET p == call.p
               n == call.n
               k == Len(kids[p])
           IN  /\ p \in linked /\ p \in Nodes /\ n \in Nodes \ linked /\ n # ROOT
               /\ n \in 1 .. newNode - 1 /\ n \notin bare
               /\ linked' = linked \cup {n}
               /\ kids' = [kids EXCEPT ![p] = Append(kids[p], n)]
               /\ \A m \in Nodes :
                     /\ node'[m].children = IF m = p /\ k = 0 THEN n ELSE node[m].children
                     /\ node'[m].next = IF k # 0 /\ m = kids[p][k] THEN n ELSE node[m].next
                     /\ node'[m].parent = node[m].parent
                     /\ node'[m].attrs = node[m].attrs
                     /\ node'[m].name = node[m].name /\ node'[m].value = node[m].value
               /\ node[n].parent = p
               /\ k = 0 => node[p].children = UNDEF /\ kids[p] = << >>
               /\ k # 0 => k \in DOMAIN kids[p] /\ node[kids[p][k]].next = UNDEF
<1> DEFINE p == call.p
           n == call.n
           k == Len(kids[p])
<1>1. pc = "walk" /\ AtLast
    BY DEF LinkChild
<1>2. /\ p \in linked /\ n \in 1 .. newNode - 1 /\ n \notin linked \cup bare
      /\ node[n].parent = p
      /\ IF call.first THEN call.at = p /\ kids[p] = << >>
         ELSE \E i \in DOMAIN kids[p] : call.at = kids[p][i]
    BY <1>1 DEF IInv, TreeInv, WalkOK
<1>3. p \in Nodes /\ n \in Nodes /\ n # ROOT
    BY <1>1, PlaceTypes
<1>4. linked' = linked \cup {n} /\ kids' = [kids EXCEPT ![p] = Append(kids[p], n)]
    BY DEF LinkChild
<1>5. k \in Nat /\ DOMAIN kids[p] = 1 .. k
    BY <1>3, KidsAreNodes
<1>6. CASE call.first
    <2>1. call.at = p /\ kids[p] = << >> /\ k = 0
        BY <1>2, <1>6
    <2>2. node[p].children = UNDEF
        BY <2>1, <1>3 DEF IInv, TreeInv, TreeInFile, IsListOf
    <2>3. node' = [node EXCEPT ![p].children = n]
        BY <1>6, <2>1 DEF LinkChild
    <2>4. node \in [Nodes -> NodeType]
        BY DEF IInv, AllTyped, TypeOK, NodeType
    <2>5. \A m \in Nodes :
             /\ node'[m].children = IF m = p THEN n ELSE node[m].children
             /\ node'[m].next = node[m].next
             /\ node'[m].parent = node[m].parent
             /\ node'[m].attrs = node[m].attrs
             /\ node'[m].name = node[m].name /\ node'[m].value = node[m].value
        BY <2>3, <2>4 DEF NodeType
    <2> QED BY <1>2, <1>3, <1>4, <2>1, <2>2, <2>5
<1>7. CASE ~call.first
    <2>1. PICK i \in DOMAIN kids[p] : call.at = kids[p][i]
        BY <1>2, <1>7
    <2>2. node[call.at].next = UNDEF
        BY <1>1, <1>7 DEF AtLast
    <2>3. i = k
        BY <2>1, <2>2, <1>3, SiblingLinks
    <2>4. node' = [node EXCEPT ![call.at].next = n]
        BY <1>7 DEF LinkChild
    <2>5. node \in [Nodes -> NodeType]
        BY DEF IInv, AllTyped, TypeOK, NodeType
    <2>6. \A m \in Nodes :
             /\ node'[m].children = node[m].children
             /\ node'[m].next = IF m = call.at THEN n ELSE node[m].next
             /\ node'[m].parent = node[m].parent
             /\ node'[m].attrs = node[m].attrs
             /\ node'[m].name = node[m].name /\ node'[m].value = node[m].value
        BY <2>4, <2>5 DEF NodeType
    <2>7. k # 0 /\ k \in DOMAIN kids[p]
        BY <2>1, <2>3, <1>5
    <2> QED BY <1>2, <1>3, <1>4, <2>1, <2>2, <2>3, <2>6, <2>7
<1> QED BY <1>6, <1>7

\* The nodes that are known stay known as more are made.
LEMMA LongerRange ==
    ASSUME NEW i \in Int, NEW j \in Int, i <= j, NEW n \in 0 .. i - 1
    PROVE  n \in 0 .. j - 1
OBVIOUS

\* A step that links nothing and stores over no link leaves the tree as it is.
LEMMA SameTree ==
    ASSUME IInv, UNCHANGED <<linked, kids>>,
           newNode' \in Int, newNode' >= newNode,
           bare' \subseteq 1 .. newNode' - 1, bare' \cap linked = {},
           \A n \in Nodes : node'[n].children = node[n].children /\ node'[n].next = node[n].next,
           \A n \in linked : node'[n].parent = node[n].parent
    PROVE  TreeShape' /\ TreeInFile'
<1>1. newNode \in Int
    BY PlaceTypes
<1>2. TreeShape'
    <2>1. TreeShape
        BY DEF IInv, TreeInv
    <2>2. linked' \subseteq 0 .. newNode' - 1
        <3>1. linked \subseteq 0 .. newNode - 1
            BY <2>1 DEF TreeShape
        <3>2. ASSUME NEW n \in linked PROVE n \in 0 .. newNode' - 1
            BY <1>1, <3>1, LongerRange
        <3>3. linked' = linked
            OBVIOUS
        <3> QED BY <3>2, <3>3
    <2>3. kids' = kids /\ linked' = linked /\ bare' \cap linked' = {} /\ ROOT \in linked'
        BY <2>1 DEF TreeShape
    <2>4. /\ \A p \in Nodes : \A i \in DOMAIN kids'[p] :
                p \in linked' /\ kids'[p][i] \in linked' \ {ROOT}
          /\ \A p, q \in Nodes : \A i \in DOMAIN kids'[p], j \in DOMAIN kids'[q] :
                kids'[p][i] = kids'[q][j] => p = q /\ i = j
          /\ \A n \in linked' \ {ROOT} : \E p \in Nodes : \E i \in DOMAIN kids'[p] : kids'[p][i] = n
        BY <2>1, <2>3 DEF TreeShape
    <2> QED BY <2>2, <2>3, <2>4 DEF TreeShape
<1>3. \A p \in Nodes : \A i \in DOMAIN kids[p] : kids[p][i] \in linked /\ kids[p][i] \in Nodes
    BY KidsAreNodes DEF IInv, TreeInv, TreeShape
<1>4. ASSUME NEW p \in Nodes PROVE IsListOf(kids[p], p)'
    <2>1. IsListOf(kids[p], p)
        BY DEF IInv, TreeInv, TreeInFile
    <2> QED BY <1>3, <2>1 DEF IsListOf
<1>5. \A p \in Nodes : \A i \in DOMAIN kids[p] : node'[kids[p][i]].parent = p
    BY <1>3 DEF IInv, TreeInv, TreeInFile
<1>6. \A n \in Nodes : n = ROOT \/ n \notin linked => node'[n].next = UNDEF
    BY DEF IInv, TreeInv, TreeInFile
<1> QED BY <1>2, <1>4, <1>5, <1>6 DEF TreeInFile

\* The lists of children after LinkChild.
LEMMA KidsAppended ==
    ASSUME IInv, LinkChild
    PROVE  LET p == call.p
               k == Len(kids[p])
           IN  /\ k \in Nat
               /\ \A q \in Nodes : q # p => kids'[q] = kids[q]
               /\ Len(kids'[p]) = k + 1 /\ DOMAIN kids'[p] = 1 .. k + 1
               /\ kids'[p] # << >>
               /\ \A i \in 1 .. k : i \in DOMAIN kids[p] /\ kids'[p][i] = kids[p][i]
               /\ kids'[p][k + 1] = call.n
<1> DEFINE p == call.p
           k == Len(kids[p])
<1>1. p \in Nodes /\ call.n \in Nodes /\ kids' = [kids EXCEPT ![p] = Append(kids[p], call.n)]
    BY LinkStores
<1>2. kids \in [Nodes -> Seq(Nodes)]
    BY DEF IInv, AllTyped
<1>3. kids'[p] = Append(kids[p], call.n) /\ \A q \in Nodes : q # p => kids'[q] = kids[q]
    BY <1>1, <1>2
<1>4. k \in Nat /\ DOMAIN kids[p] = 1 .. k
    BY <1>1, KidsAreNodes
<1>5. /\ Len(kids'[p]) = k + 1
      /\ \A i \in 1 .. k : kids'[p][i] = kids[p][i]
      /\ kids'[p][k + 1] = call.n
      /\ kids'[p] \in Seq(Nodes)
    BY <1>1, <1>2, <1>3, AppendProperties
<1>6. DOMAIN kids'[p] = 1 .. k + 1 /\ kids'[p] # << >>
    BY <1>4, <1>5, LenProperties
<1> QED BY <1>3, <1>4, <1>5, <1>6

LEMMA ShapeAfterLink ==
    ASSUME IInv, LinkChild
    PROVE  TreeShape'
<1> DEFINE p == call.p
           n == call.n
           k == Len(kids[p])
<1>a. /\ p \in linked /\ p \in Nodes /\ n \in Nodes \ linked /\ n # ROOT
      /\ n \in 1 .. newNode - 1 /\ n \notin bare /\ linked' = linked \cup {n}
    BY LinkStores
<1>b. UNCHANGED <<newNode, bare>>
    BY DEF LinkChild, client
<1>c. TreeShape /\ newNode \in Int
    BY PlaceTypes DEF IInv, TreeInv
<1>d. /\ k \in Nat
      /\ \A q \in Nodes : q # p => kids'[q] = kids[q]
      /\ DOMAIN kids'[p] = 1 .. k + 1
      /\ \A i \in 1 .. k : i \in DOMAIN kids[p] /\ kids'[p][i] = kids[p][i]
      /\ kids'[p][k + 1] = n
    BY KidsAppended
<1> HIDE DEF p, n, k
<1>1. linked' \subseteq 0 .. newNode' - 1 /\ ROOT \in linked'
    BY <1>a, <1>b, <1>c DEF TreeShape
<1>2. bare' \subseteq 1 .. newNode' - 1 /\ bare' \cap linked' = {}
    BY <1>a, <1>b, <1>c DEF TreeShape
\* A place in a list is one there was, or the new one.
<1>3. ASSUME NEW q \in Nodes, NEW i \in DOMAIN kids'[q]
      PROVE  \/ q = p /\ i = k + 1 /\ kids'[q][i] = n
             \/ i \in DOMAIN kids[q] /\ kids'[q][i] = kids[q][i] /\ kids[q][i] # n
    <2>1. CASE q = p
        <3>1. i = k + 1 \/ i \in 1 .. k
            BY <1>3, <1>d, <2>1
        <3>2. ASSUME i \in 1 .. k PROVE i \in DOMAIN kids[q] /\ kids'[q][i] = kids[q][i] /\ kids[q][i] # n
            <4>1. i \in DOMAIN kids[q] /\ kids'[q][i] = kids[q][i]
                BY <1>d, <2>1, <3>2
            <4> QED BY <4>1, <1>a, <1>c DEF TreeShape
        <3> QED BY <2>1, <3>1, <3>2, <1>d
    <2>2. CASE q # p
        <3>1. i \in DOMAIN kids[q] /\ kids'[q][i] = kids[q][i]
            BY <1>3, <1>d, <2>2
        <3> QED BY <3>1, <1>a, <1>c DEF TreeShape
    <2> QED BY <2>1, <2>2
<1>4. \A q \in Nodes : \A i \in DOMAIN kids'[q] : q \in linked' /\ kids'[q][i] \in linked' \ {ROOT}
    BY <1>3, <1>a, <1>c DEF TreeShape
<1>5. ASSUME NEW q \in Nodes, NEW r \in Nodes, NEW i \in DOMAIN kids'[q], NEW j \in DOMAIN kids'[r],
             kids'[q][i] = kids'[r][j]
      PROVE  q = r /\ i = j
    <2>1. CASE q = p /\ i = k + 1 /\ kids'[q][i] = n
        BY <2>1, <1>3, <1>5
    <2>2. CASE i \in DOMAIN kids[q] /\ kids'[q][i] = kids[q][i] /\ kids[q][i] # n
        <3>1. j \in DOMAIN kids[r] /\ kids'[r][j] = kids[r][j]
            BY <2>2, <1>3, <1>5
        <3>2. kids[q][i] = kids[r][j]
            BY <2>2, <3>1, <1>5
        <3>3. \A x, y \in Nodes : \A a \in DOMAIN kids[x], b \in DOMAIN kids[y] :
                 kids[x][a] = kids[y][b] => x = y /\ a = b
            BY <1>c DEF TreeShape
        <3> QED BY <2>2, <3>1, <3>2, <3>3
    <2> QED BY <2>1, <2>2, <1>3
<1>6. ASSUME NEW m \in linked' \ {ROOT}
      PROVE  \E q \in Nodes : \E i \in DOMAIN kids'[q] : kids'[q][i] = m
    <2>1. CASE m = n
        BY <2>1, <1>a, <1>d
    <2>2. CASE m # n
        <3>1. m \in linked \ {ROOT}
            BY <2>2, <1>6, <1>a
        <3>2. PICK q \in Nodes : \E i \in DOMAIN kids[q] : kids[q][i] = m
            BY <3>1, <1>c DEF TreeShape
        <3>3. PICK i \in DOMAIN kids[q] : kids[q][i] = m
            BY <3>2
        <3>4. i \in DOMAIN kids'[q] /\ kids'[q][i] = m
            <4>1. CASE q = p
                <5>1. i \in 1 .. k
                    BY <4>1, <3>3, <1>a, KidsAreNodes DEF k
                <5> QED BY <4>1, <5>1, <3>3, <1>d
            <4>2. CASE q # p
                BY <4>2, <3>3, <1>d
            <4> QED BY <4>1, <4>2
        <3> QED BY <3>4
    <2> QED BY <2>1, <2>2
<1> QED BY <1>1, <1>2, <1>4, <1>5, <1>6 DEF TreeShape

LEMMA FileAfterLink ==
    ASSUME IInv, LinkChild
    PROVE  TreeInFile'
<1> DEFINE p == call.p
           n == call.n
           k == Len(kids[p])
<1>a. /\ p \in linked /\ p \in Nodes /\ n \in Nodes \ linked /\ n # ROOT
      /\ linked' = linked \cup {n}
      /\ \A m \in Nodes :
            /\ node'[m].children = IF m = p /\ k = 0 THEN n ELSE node[m].children
            /\ node'[m].next = IF k # 0 /\ m = kids[p][k] THEN n ELSE node[m].next
            /\ node'[m].parent = node[m].parent
      /\ node[n].parent = p
      /\ k = 0 => kids[p] = << >>
      /\ k # 0 => k \in DOMAIN kids[p]
    BY LinkStores
<1>b. /\ k \in Nat
      /\ \A q \in Nodes : q # p => kids'[q] = kids[q]
      /\ Len(kids'[p]) = k + 1 /\ DOMAIN kids'[p] = 1 .. k + 1 /\ kids'[p] # << >>
      /\ \A i \in 1 .. k : i \in DOMAIN kids[p] /\ kids'[p][i] = kids[p][i]
      /\ kids'[p][k + 1] = n
    BY KidsAppended
<1>c. TreeShape /\ TreeInFile
    BY DEF IInv, TreeInv
<1>d. node[n].next = UNDEF
    BY <1>a, UnlinkedIsBare
<1>e. \A q \in Nodes : \A i \in DOMAIN kids[q] : kids[q][i] \in Nodes
    BY KidsAreNodes
<1>f. k # 0 => kids[p][k] \in linked \ {ROOT}
    BY <1>a, <1>c DEF TreeShape
<1>g. \A i \in 1 .. k : /\ node[kids[p][i]].parent = p
                        /\ node[p].children = kids[p][1]
                        /\ i # k => node[kids[p][i]].next = kids[p][i + 1]
    BY <1>a, <1>b, SiblingLinks
<1> HIDE DEF p, n, k
<1>1. ASSUME NEW q \in Nodes, q # p
      PROVE  IsListOf(kids[q], q)' /\ \A i \in DOMAIN kids[q] : node'[kids[q][i]].parent = q
    <2>1. IsListOf(kids[q], q) /\ \A i \in DOMAIN kids[q] : node[kids[q][i]].parent = q
        BY <1>c DEF TreeInFile
    <2>2. \A i \in DOMAIN kids[q] : kids[q][i] # n /\ (k # 0 => kids[q][i] # kids[p][k])
        BY <1>1, <1>a, <1>c DEF TreeShape
    <2>3. kids'[q] = kids[q]
        BY <1>1, <1>b
    <2> QED BY <2>1, <2>2, <2>3, <1>1, <1>a, <1>e DEF IsListOf
<1>2. node'[p].children = kids'[p][1]
    <2>1. CASE k = 0
        BY <2>1, <1>a, <1>b
    <2>2. CASE k # 0
        <3>1. 1 \in 1 .. k
            BY <2>2, <1>b
        <3> QED BY <2>2, <3>1, <1>a, <1>b, <1>g
    <2> QED BY <2>1, <2>2
<1>3. ASSUME NEW i \in DOMAIN kids'[p]
      PROVE  /\ node'[kids'[p][i]].parent = p
             /\ node'[kids'[p][i]].next = IF i = Len(kids'[p]) THEN UNDEF ELSE kids'[p][i + 1]
    <2>1. CASE i = k + 1
        <3>1. k # 0 => n # kids[p][k]
            BY <1>a, <1>f
        <3> QED BY <2>1, <3>1, <1>a, <1>b, <1>d
    <2>2. CASE i = k /\ k # 0
        <3>1. i \in 1 .. k /\ kids'[p][i] = kids[p][k] /\ i # k + 1
            BY <2>2, <1>b
        <3> QED BY <2>2, <3>1, <1>a, <1>b, <1>e, <1>g
    <2>3. CASE i \in 1 .. k - 1
        <3>1. i \in 1 .. k /\ i + 1 \in 1 .. k /\ i # k /\ i # k + 1 /\ k # 0
            BY <2>3, <1>b
        <3>2. i \in DOMAIN kids[p] /\ kids'[p][i] = kids[p][i] /\ kids'[p][i + 1] = kids[p][i + 1]
            BY <3>1, <1>b
        <3>3. kids[p][i] # kids[p][k]
            BY <3>1, <3>2, <1>a, <1>c DEF TreeShape
        <3>4. kids[p][i] \in Nodes
            BY <3>2, <1>a, <1>e
        <3>5. /\ node'[kids[p][i]].parent = node[kids[p][i]].parent
              /\ node'[kids[p][i]].next = node[kids[p][i]].next
            BY <3>1, <3>3, <3>4, <1>a
        <3>6. node[kids[p][i]].parent = p /\ node[kids[p][i]].next = kids[p][i + 1]
            BY <3>1, <1>g
        <3> QED BY <3>1, <3>2, <3>5, <3>6, <1>b
    <2>4. i = k + 1 \/ (i = k /\ k # 0) \/ i \in 1 .. k - 1
        BY <1>3, <1>b
    <2> QED BY <2>1, <2>2, <2>3, <2>4
<1>4. ASSUME NEW m \in Nodes, m = ROOT \/ m \notin linked'
      PROVE  node'[m].next = UNDEF
    <2>1. m = ROOT \/ m \notin linked
        BY <1>4, <1>a
    <2>2. node[m].next = UNDEF
        BY <2>1, <1>c DEF TreeInFile
    <2>3. k # 0 => m # kids[p][k]
        BY <2>1, <1>f
    <2> QED BY <2>2, <2>3, <1>a
<1>5. ASSUME NEW q \in Nodes, q = p PROVE IsListOf(kids[q], q)'
    <2>1. node'[p].children = IF kids'[p] = << >> THEN UNDEF ELSE kids'[p][1]
        BY <1>2, <1>b
    <2>2. \A i \in DOMAIN kids'[p] :
             node'[kids'[p][i]].next = IF i = Len(kids'[p]) THEN UNDEF ELSE kids'[p][i + 1]
        BY <1>3
    <2> QED BY <1>5, <2>1, <2>2 DEF IsListOf
<1>6. ASSUME NEW q \in Nodes
      PROVE  IsListOf(kids[q], q)' /\ \A i \in DOMAIN kids'[q] : node'[kids'[q][i]].parent = q
    <2>1. CASE q = p
        BY <2>1, <1>3, <1>5
    <2>2. CASE q # p
        BY <2>2, <1>1, <1>b
    <2> QED BY <2>1, <2>2
<1> QED BY <1>4, <1>6 DEF TreeInFile

\* No other step links a node, or stores over a link or the parent of a linked one.
LEMMA OtherStores ==
    ASSUME IInv, Next, ~LinkChild
    PROVE  /\ UNCHANGED <<linked, kids>>
           /\ newNode' \in Int /\ newNode' >= newNode
           /\ bare' \subseteq 1 .. newNode' - 1 /\ bare' \cap linked = {}
           /\ \A n \in Nodes : /\ node'[n].children = node[n].children
                               /\ node'[n].next = node[n].next
           /\ \A n \in linked : node'[n].parent = node[n].parent
<1>a. /\ newNode \in Int /\ newNode >= 1 /\ TreeShape /\ linked \subseteq Nodes
      /\ node \in [Nodes -> NodeType]
    BY PlaceTypes DEF IInv, TreeInv, AllTyped, TypeOK, NodeType
<1>b. bare \subseteq 1 .. newNode - 1 /\ bare \cap linked = {}
    BY <1>a DEF TreeShape
<1>c. newNode \notin linked
    BY <1>a DEF TreeShape
<1>1. CASE UNCHANGED <<node, newNode, linked, kids>> /\ bare' \subseteq bare
    <2>1. newNode' = newNode /\ node' = node /\ linked' = linked /\ kids' = kids
        BY <1>1
    <2>2. bare' \subseteq 1 .. newNode - 1 /\ bare' \cap linked = {}
        BY <1>1, <1>b
    <2> QED BY <2>1, <2>2, <1>a
<1>2. CASE InsertBare
    <2>1. newNode \in Nodes
        BY <1>2, <1>a DEF InsertBare, RoomForNode, Nodes
    <2>2. node[newNode].children = UNDEF /\ node[newNode].next = UNDEF
        BY <2>1, <1>c, UnlinkedIsBare
    <2>3. UNCHANGED <<linked, kids>> /\ newNode' = newNode + 1 /\ bare' = bare \cup {newNode}
          /\ node' = [node EXCEPT ![newNode] = Blank]
        BY <1>2 DEF InsertBare, history
    <2>4. \A n \in Nodes : /\ node'[n].children = node[n].children
                           /\ node'[n].next = node[n].next
        BY <2>2, <2>3, <1>a DEF Blank
    <2>5. \A n \in linked : node'[n].parent = node[n].parent
        BY <2>3, <1>a, <1>c
    <2> QED BY <2>3, <2>4, <2>5, <1>a, <1>b, <1>c
<1>3. CASE PutNode
    <2>1. call.n = newNode /\ newNode \in Nodes
        BY <1>3, PlaceTypes DEF PutNode, IInv, PlacesOK
    <2>2. node[newNode].children = UNDEF /\ node[newNode].next = UNDEF
        BY <2>1, <1>c, UnlinkedIsBare
    <2>3. UNCHANGED <<linked, kids, bare>> /\ newNode' = newNode + 1
          /\ node' = [node EXCEPT ![newNode] =
                  [Blank EXCEPT !.attrs = call.link, !.parent = call.p,
                                !.name = call.nameAt, !.value = call.valAt]]
        BY <1>3, <2>1 DEF PutNode, client
    <2>4. \A n \in Nodes : n # newNode => node'[n] = node[n]
        BY <2>3, <1>a
    <2>5. node'[newNode].children = UNDEF /\ node'[newNode].next = UNDEF
        BY <2>3, <2>1, <1>a DEF Blank
    <2>6. \A n \in linked : node'[n].parent = node[n].parent
        BY <2>4, <1>a, <1>c
    <2> QED BY <2>2, <2>3, <2>4, <2>5, <2>6, <1>a, <1>b
<1>4. CASE LinkAttr
    <2>1. UNCHANGED <<newNode, linked, kids, bare>>
          /\ (node' = node \/ node' = [node EXCEPT ![call.at].attrs = call.a])
        BY <1>4 DEF LinkAttr, client, history
    <2>2. \A n \in Nodes : /\ node'[n].children = node[n].children
                           /\ node'[n].next = node[n].next
                           /\ node'[n].parent = node[n].parent
        BY <2>1, <1>a DEF NodeType
    <2> QED BY <2>1, <2>2, <1>a, <1>b
<1>5. CASE SetParent
    <2>1. UNCHANGED <<newNode, linked, kids, bare>>
          /\ node' = [node EXCEPT ![call.n].parent = call.p]
        BY <1>5 DEF SetParent, client, history
    <2>2. call.n \notin linked
        BY <1>5 DEF SetParent, IInv, TreeInv, WalkOK
    <2>3. \A n \in Nodes : /\ node'[n].children = node[n].children
                           /\ node'[n].next = node[n].next
                           /\ n # call.n => node'[n].parent = node[n].parent
        BY <2>1, <1>a DEF NodeType
    <2> QED BY <2>1, <2>2, <2>3, <1>a, <1>b
<1>6. \/ UNCHANGED <<node, newNode, linked, kids>> /\ bare' \subseteq bare
      \/ InsertBare \/ PutNode \/ LinkAttr \/ SetParent
    <2>1. ProcessEnds /\ UNCHANGED cellvars
             => UNCHANGED <<node, newNode, linked, kids>> /\ bare' \subseteq bare
        BY DEF ProcessEnds, cellvars, history
    <2>2. PutNullDies \/ AddAttrDies \/ Crash => ProcessEnds /\ UNCHANGED cellvars
        BY DEF PutNullDies, AddAttrDies, Crash
    <2>3. FindFails \/ FindPlaces \/ FindNoValue \/ PutName \/ PutValue \/ PutNoText \/ PutAttr
             \/ LinkPrev \/ Walk => UNCHANGED <<node, newNode, linked, kids, bare>>
        BY DEF FindFails, FindPlaces, FindNoValue, PutName, PutValue, PutNoText, PutAttr,
               LinkPrev, Walk, cellvars, client, history
    <2>4. CASE Client
        <3>1. ASSUME NEW p, NEW w, NEW v, InsertNode(p, w, v)
              PROVE  UNCHANGED <<node, newNode, linked, kids, bare>>
            BY <3>1 DEF InsertNode, cellvars, history
        <3>2. ASSUME NEW w, NEW v, InsertAttr(w, v)
              PROVE  UNCHANGED <<node, newNode, linked, kids, bare>>
            BY <3>2 DEF InsertAttr, cellvars, history, client
        <3>3. ASSUME NEW p, NEW n, AddChild(p, n)
              PROVE  UNCHANGED <<node, newNode, linked, kids>> /\ bare' \subseteq bare
            BY <3>3 DEF AddChild, cellvars, history
        <3>4. ASSUME NEW n, TakeCopy(n) PROVE UNCHANGED <<node, newNode, linked, kids, bare>>
            BY <3>4 DEF TakeCopy, cellvars, history
        <3>5. AddAttrFirst \/ AddAttrNext => UNCHANGED <<node, newNode, linked, kids, bare>>
            BY DEF AddAttrFirst, AddAttrNext, cellvars, history, client
        <3>6. ASSUME NEW r, IterStart(r) \/ IterNext(r) \/ IterEnd(r)
              PROVE  UNCHANGED <<node, newNode, linked, kids, bare>>
            BY <3>6 DEF IterStart, IterNext, IterEnd, cellvars, history
        <3> QED BY <2>4, <2>1, <2>2, <3>1, <3>2, <3>3, <3>4, <3>5, <3>6 DEF Client
    <2> QED BY <2>1, <2>2, <2>3, <2>4 DEF Next, Library
<1> QED BY <1>1, <1>2, <1>3, <1>4, <1>5, <1>6

LEMMA WalkStep == IInv /\ Next => WalkOK'
<1> SUFFICES ASSUME IInv, Next PROVE WalkOK'
    OBVIOUS
<1>a. /\ newNode \in Int /\ newNode >= 1 /\ TreeShape /\ linked \subseteq Nodes /\ WalkOK
      /\ call \in CallType /\ node \in [Nodes -> NodeType] /\ UNDEF \notin Nodes
    BY PlaceTypes DEF IInv, TreeInv, AllTyped, TypeOK, NodeType, UNDEF, Nodes
<1>1. CASE pc' \notin {"child", "walk"}
    BY <1>1 DEF WalkOK
<1>2. ASSUME NEW p \in linked, NEW n \in bare, AddChild(p, n) PROVE WalkOK'
    <2>1. n \in 1 .. newNode - 1 /\ n \notin linked
        BY <1>a DEF TreeShape
    <2>2. bare' = bare \ {n} /\ pc' = "child" /\ UNCHANGED <<linked, newNode>>
        BY <1>2 DEF AddChild, cellvars, history
    <2> QED BY <1>2, <2>1, <2>2, CallsMade DEF WalkOK
<1>3. CASE PutNode
    <2>1. call.n = newNode /\ call.p \in linked /\ ~call.first
        BY <1>3 DEF PutNode, IInv, PlacesOK
    <2>2. newNode \notin linked /\ newNode \notin bare
        BY <1>a DEF TreeShape
    <2>3. pc' = "child" /\ UNCHANGED <<linked, bare, call>> /\ newNode' = newNode + 1
        BY <1>3 DEF PutNode, Goto, client
    <2> QED BY <2>1, <2>2, <2>3, <1>a DEF WalkOK
<1>4. CASE SetParent
    <2>1. pc = "child" /\ pc' = "walk" /\ UNCHANGED <<linked, bare, newNode, kids>>
        BY <1>4 DEF SetParent, client, history
    <2>2. call.n \in Nodes /\ call.p \in Nodes
        BY <2>1, PlaceTypes
    <2>3. node'[call.n].parent = call.p
        BY <1>4, <1>a, <2>2 DEF SetParent, NodeType
    <2>4. ~call.first
        BY <2>1, <1>a DEF WalkOK
    <2>5. CASE node[call.p].children = UNDEF
        <3>1. kids[call.p] = << >>
            <4>1. SUFFICES ASSUME kids[call.p] # << >> PROVE FALSE
                OBVIOUS
            <4>2. 1 \in DOMAIN kids[call.p]
                BY <4>1, <2>2, KidsAreNodes
            <4> QED BY <4>2, <2>2, <2>5, <1>a, SiblingLinks, KidsAreNodes
        <3>2. call'.p = call.p /\ call'.n = call.n /\ call'.at = call.p /\ call'.first
            BY <1>4, <2>5, <1>a DEF SetParent, CallType
        <3> QED BY <2>1, <2>3, <3>1, <3>2, <1>a DEF WalkOK
    <2>6. CASE node[call.p].children # UNDEF
        <3>1. kids[call.p] # << >> /\ node[call.p].children = kids[call.p][1]
            BY <2>2, <2>6 DEF IInv, TreeInv, TreeInFile, IsListOf
        <3>2. 1 \in DOMAIN kids[call.p]
            BY <2>2, <3>1, KidsAreNodes
        <3>3. call'.p = call.p /\ call'.n = call.n /\ call'.at = kids[call.p][1] /\ ~call'.first
            BY <1>4, <2>4, <2>6, <3>1, <1>a DEF SetParent, CallType
        <3> QED BY <2>1, <2>3, <3>2, <3>3, <1>a DEF WalkOK
    <2> QED BY <2>5, <2>6
<1>5. CASE Walk
    <2>1. pc = "walk" /\ pc' = "walk" /\ UNCHANGED <<linked, bare, newNode, kids, node>>
          /\ ~call.first /\ node[call.at].next # UNDEF
        BY <1>5 DEF Walk, AtLast, client, history, cellvars
    <2>2. call.p \in Nodes
        BY <2>1, PlaceTypes
    <2>3. PICK i \in DOMAIN kids[call.p] : call.at = kids[call.p][i]
        BY <2>1, <1>a DEF WalkOK
    <2>4. i + 1 \in DOMAIN kids[call.p] /\ node[call.at].next = kids[call.p][i + 1]
        BY <2>1, <2>2, <2>3, SiblingLinks
    <2>5. /\ call'.p = call.p /\ call'.n = call.n /\ call'.first = call.first
          /\ call'.at = kids[call.p][i + 1]
        BY <1>5, <2>4, <1>a DEF Walk, CallType
    <2> QED BY <2>1, <2>4, <2>5, <1>a DEF WalkOK
<1>6. \/ pc' \notin {"child", "walk"}
      \/ \E p \in linked, n \in bare : AddChild(p, n)
      \/ PutNode \/ SetParent \/ Walk
    BY StepKinds DEF InsertNode, InsertAttr, AddAttrFirst, AddAttrNext, FindPlaces, FindNoValue,
                     PutName, PutValue, PutNoText, PutAttr, Goto
<1> QED BY <1>1, <1>2, <1>3, <1>4, <1>5, <1>6

LEMMA TreeStep == IInv /\ Next => TreeInv'
<1> SUFFICES ASSUME IInv, Next PROVE TreeInv'
    OBVIOUS
<1>1. TreeShape' /\ TreeInFile'
    BY ShapeAfterLink, FileAfterLink, OtherStores, SameTree
<1> QED BY <1>1, WalkStep DEF TreeInv
-------------------------------------------------------------------------------
(* Copies and iterators.                                                   *)

\* A list of children keeps its beginning.
LEMMA KidsGrow ==
    ASSUME IInv, Next, NEW p \in Nodes
    PROVE  /\ Len(kids[p]) \in Nat /\ Len(kids'[p]) \in Nat
           /\ Len(kids[p]) <= Len(kids'[p])
           /\ \A i \in 1 .. Len(kids[p]) : kids'[p][i] = kids[p][i]
           /\ linked \subseteq linked'
<1>1. CASE LinkChild
    <2>1. CASE p = call.p
        BY <1>1, <2>1, KidsAppended, LinkStores
    <2>2. CASE p # call.p
        BY <1>1, <2>2, KidsAppended, LinkStores, KidsAreNodes
    <2> QED BY <2>1, <2>2
<1>2. CASE ~LinkChild
    BY <1>2, OtherStores, KidsAreNodes
<1> QED BY <1>1, <1>2

LEMMA ReadStep == IInv /\ Next => ReadInv'
<1> SUFFICES ASSUME IInv, Next PROVE ReadInv'
    OBVIOUS
<1>a. /\ CopyOK /\ \A r \in Readers : IterInv(r)
      /\ copy \in CopyType /\ iter \in [Readers -> IterType] /\ linked \subseteq Nodes
      /\ UNDEF \notin Nodes
    BY DEF IInv, ReadInv, AllTyped, TypeOK, UNDEF, Nodes
\* What is not moved stays right while children are linked.
<1>b. UNCHANGED copy => CopyOK'
    <2> SUFFICES ASSUME copy' = copy, copy.n # UNDEF
                 PROVE  /\ copy.n \in linked'
                        /\ copy.had <= Len(kids'[copy.n])
                        /\ copy.children = IF copy.had = 0 THEN UNDEF ELSE kids'[copy.n][1]
        BY DEF CopyOK
    <2>1. /\ copy.n \in linked /\ copy.n \in Nodes /\ copy.had <= Len(kids[copy.n])
          /\ copy.children = IF copy.had = 0 THEN UNDEF ELSE kids[copy.n][1]
          /\ copy.had \in Nat
        BY <1>a DEF CopyOK, CopyType
    <2>2. /\ Len(kids[copy.n]) \in Nat /\ Len(kids'[copy.n]) \in Nat
          /\ Len(kids[copy.n]) <= Len(kids'[copy.n])
          /\ \A i \in 1 .. Len(kids[copy.n]) : kids'[copy.n][i] = kids[copy.n][i]
          /\ linked \subseteq linked'
        BY <2>1, KidsGrow
    <2>3. copy.had # 0 => 1 \in 1 .. Len(kids[copy.n])
        BY <2>1, <2>2
    <2> QED BY <2>1, <2>2, <2>3
<1>c. ASSUME NEW r \in Readers, iter'[r] = iter[r] PROVE IterInv(r)'
    <2>1. IterInv(r) /\ iter[r] \in IterType
        BY <1>a
    <2>2. CASE iter[r].of = UNDEF
        BY <1>c, <2>1, <2>2 DEF IterInv
    <2>3. CASE iter[r].of # UNDEF
        <3> DEFINE of == iter[r].of
                   k  == Len(iter[r].seen)
        <3>1. /\ of \in linked /\ of \in Nodes
              /\ iter[r].had <= Len(kids[of]) /\ iter[r].had \in Nat
              /\ k <= Len(kids[of]) /\ k \in Nat
              /\ \A i \in 1 .. k : iter[r].seen[i] = kids[of][i]
              /\ iter[r].next = UNDEF => k >= iter[r].had
              /\ iter[r].next # UNDEF => k < Len(kids[of]) /\ iter[r].next = kids[of][k + 1]
            BY <1>a, <2>1, <2>3, LenProperties DEF IterInv, IterType
        <3>2. /\ Len(kids[of]) \in Nat /\ Len(kids'[of]) \in Nat
              /\ Len(kids[of]) <= Len(kids'[of])
              /\ \A i \in 1 .. Len(kids[of]) : kids'[of][i] = kids[of][i]
              /\ linked \subseteq linked'
            BY <3>1, KidsGrow
        <3>3. \A i \in 1 .. k : i \in 1 .. Len(kids[of])
            BY <3>1, <3>2
        <3>4. k < Len(kids[of]) => k + 1 \in 1 .. Len(kids[of])
            BY <3>1, <3>2
        <3>5. /\ iter[r].had <= Len(kids'[of]) /\ k <= Len(kids'[of])
              /\ k < Len(kids[of]) => k < Len(kids'[of])
            BY <3>1, <3>2
        <3>6. \A i \in 1 .. k : iter[r].seen[i] = kids'[of][i]
            BY <3>1, <3>2, <3>3
        <3>7. iter[r].next # UNDEF => k < Len(kids'[of]) /\ iter[r].next = kids'[of][k + 1]
            BY <3>1, <3>2, <3>4, <3>5
        <3> QED BY <1>c, <2>3, <3>1, <3>2, <3>5, <3>6, <3>7 DEF IterInv
    <2> QED BY <2>2, <2>3
<1>1. CASE UNCHANGED <<copy, iter>>
    BY <1>1, <1>b, <1>c DEF ReadInv
<1>2. CASE ProcessEnds
    <2>1. copy' = NoCopy /\ \A r \in Readers : iter'[r] = NoIter
        BY <1>2 DEF ProcessEnds
    <2> QED BY <2>1 DEF ReadInv, CopyOK, IterInv, NoCopy, NoIter
<1>3. ASSUME NEW n \in linked, TakeCopy(n) PROVE ReadInv'
    <2>1. n \in Nodes /\ UNCHANGED <<iter, kids, linked>>
          /\ copy' = [n |-> n, attrs |-> node[n].attrs, children |-> node[n].children,
                      had |-> Len(kids[n])]
        BY <1>3, <1>a DEF TakeCopy, history
    <2>2. node[n].children = IF Len(kids[n]) = 0 THEN UNDEF ELSE kids[n][1]
        BY <2>1, KidsAreNodes DEF IInv, TreeInv, TreeInFile, IsListOf
    <2>3. CopyOK'
        BY <2>1, <2>2, KidsAreNodes DEF CopyOK
    <2> QED BY <2>1, <2>3, <1>c DEF ReadInv
<1>4. ASSUME NEW r \in Readers, IterStart(r) PROVE ReadInv'
    <2>1. /\ copy.n # UNDEF /\ UNCHANGED <<copy, kids, linked>>
          /\ iter' = [iter EXCEPT ![r] = [of |-> copy.n, next |-> copy.children, seen |-> << >>,
                                          had |-> copy.had]]
        BY <1>4 DEF IterStart, history
    <2>2. /\ copy.n \in linked /\ copy.n \in Nodes /\ copy.had <= Len(kids[copy.n])
          /\ copy.children = IF copy.had = 0 THEN UNDEF ELSE kids[copy.n][1]
          /\ copy.had \in Nat /\ Len(kids[copy.n]) \in Nat
          /\ DOMAIN kids[copy.n] = 1 .. Len(kids[copy.n])
          /\ \A i \in DOMAIN kids[copy.n] : kids[copy.n][i] \in Nodes
        BY <1>a, <2>1, KidsAreNodes DEF CopyOK, CopyType
    <2>3. IterInv(r)'
        <3>1. iter'[r] = [of |-> copy.n, next |-> copy.children, seen |-> << >>, had |-> copy.had]
            BY <2>1, <1>a
        <3>2. copy.children = UNDEF => copy.had = 0
            BY <2>2, <1>a
        <3>3. copy.children # UNDEF => 0 < Len(kids[copy.n]) /\ copy.children = kids[copy.n][1]
            BY <2>2
        <3> QED BY <2>1, <2>2, <3>1, <3>2, <3>3 DEF IterInv
    <2>4. \A q \in Readers : q # r => iter'[q] = iter[q]
        BY <2>1, <1>a
    <2> QED BY <2>1, <2>3, <2>4, <1>b, <1>c DEF ReadInv
<1>5. ASSUME NEW r \in Readers, IterNext(r) PROVE ReadInv'
    <2> DEFINE of == iter[r].of
               k  == Len(iter[r].seen)
    <2>1. /\ iter[r].next # UNDEF /\ UNCHANGED <<copy, kids, linked>>
          /\ iter' = [iter EXCEPT ![r].seen = Append(@, iter[r].next),
                                  ![r].next = node[iter[r].next].next]
        BY <1>5 DEF IterNext, history
    <2>2. of # UNDEF
        BY <2>1, <1>a DEF IterInv, NoIter
    <2>3. /\ of \in linked /\ of \in Nodes /\ iter[r].had <= Len(kids[of])
          /\ k < Len(kids[of]) /\ k \in Nat /\ iter[r].had \in Nat
          /\ \A i \in 1 .. k : iter[r].seen[i] = kids[of][i]
          /\ iter[r].next = kids[of][k + 1]
          /\ iter[r].seen \in Seq(Nodes)
        BY <2>1, <2>2, <1>a, LenProperties DEF IterInv, IterType
    <2>4. k + 1 \in DOMAIN kids[of] /\ Len(kids[of]) \in Nat
        BY <2>3, KidsAreNodes
    <2>5. /\ node[iter[r].next].next = UNDEF <=> k + 1 = Len(kids[of])
          /\ k + 1 # Len(kids[of]) => node[iter[r].next].next = kids[of][k + 2]
        <3>1. k + 1 + 1 = k + 2
            BY <2>3
        <3>2. PICK i \in DOMAIN kids[of] : i = k + 1
            BY <2>4
        <3>3. /\ node[kids[of][i]].next = UNDEF <=> i = Len(kids[of])
              /\ i # Len(kids[of]) => node[kids[of][i]].next = kids[of][i + 1]
            BY <2>3, SiblingLinks
        <3> QED BY <2>3, <3>1, <3>2, <3>3
    <2>6. /\ iter'[r].of = of /\ iter'[r].had = iter[r].had
          /\ iter'[r].seen = Append(iter[r].seen, iter[r].next)
          /\ iter'[r].next = node[iter[r].next].next
        BY <2>1, <1>a DEF IterType
    <2>7. /\ Len(iter'[r].seen) = k + 1
          /\ \A i \in 1 .. k : iter'[r].seen[i] = iter[r].seen[i]
          /\ iter'[r].seen[k + 1] = iter[r].next
        <3>1. iter[r].next \in Nodes
            BY <2>3, <2>4, KidsAreNodes
        <3> QED BY <2>3, <2>6, <3>1, AppendProperties
    <2>8. \A i \in 1 .. k + 1 : iter'[r].seen[i] = kids[of][i]
        <3>1. \A i \in 1 .. k + 1 : i \in 1 .. k \/ i = k + 1
            BY <2>3
        <3> QED BY <2>3, <2>7, <3>1
    <2>9. IterInv(r)'
        <3>1. k + 1 <= Len(kids[of]) /\ (k + 1 # Len(kids[of]) => k + 1 < Len(kids[of]))
            BY <2>3, <2>4
        <3>2. k + 1 + 1 = k + 2
            BY <2>3
        <3> HIDE DEF of, k
        <3> QED BY <2>1, <2>2, <2>3, <2>4, <2>5, <2>6, <2>7, <2>8, <3>1, <3>2 DEF IterInv
    <2>10. \A q \in Readers : q # r => iter'[q] = iter[q]
        BY <2>1, <1>a
    <2> QED BY <2>1, <2>9, <2>10, <1>b, <1>c DEF ReadInv
<1>6. ASSUME NEW r \in Readers, IterEnd(r) PROVE ReadInv'
    <2>1. UNCHANGED copy /\ iter' = [iter EXCEPT ![r] = NoIter]
        BY <1>6 DEF IterEnd
    <2>2. IterInv(r)'
        BY <2>1, <1>a DEF IterInv, NoIter
    <2>3. \A q \in Readers : q # r => iter'[q] = iter[q]
        BY <2>1, <1>a
    <2> QED BY <2>1, <2>2, <2>3, <1>b, <1>c DEF ReadInv
<1>7. \/ UNCHANGED <<copy, iter>> \/ ProcessEnds
      \/ \E n \in linked : TakeCopy(n)
      \/ \E r \in Readers : IterStart(r) \/ IterNext(r) \/ IterEnd(r)
    <2>1. CASE Library
        BY <2>1 DEF Library, FindFails, FindPlaces, FindNoValue, PutName, PutValue, PutNoText,
                    PutNullDies, PutNode, PutAttr, LinkPrev, LinkAttr, SetParent, Walk,
                    LinkChild, client
    <2>2. CASE Client
        BY <2>2 DEF Client, InsertNode, InsertAttr, InsertBare, AddChild, AddAttrFirst,
                    AddAttrNext, AddAttrDies, client
    <2>3. CASE Crash
        BY <2>3 DEF Crash
    <2> QED BY <2>1, <2>2, <2>3 DEF Next
<1> QED BY <1>1, <1>2, <1>3, <1>4, <1>5, <1>6, <1>7
-------------------------------------------------------------------------------
(* The lists of attributes.                                                *)

\* Links may be cut, and one may be made to an attribute nothing refers to, from
\* an object or from an attribute before it.
LEMMA OneLink ==
    ASSUME IInv, newAttr' \in Int, newAttr' >= newAttr,
           NEW a \in Opt(Attrs), a = UNDEF \/ Unreferred(a), a < newAttr',
           NEW m, NEW c, m = UNDEF \/ c = UNDEF, c \in Attrs => c < a,
           \A n \in Nodes : \/ node'[n].attrs = node[n].attrs
                            \/ node'[n].attrs = UNDEF
                            \/ n = m /\ node'[n].attrs = a,
           \A b \in Attrs : \/ attr'[b].next = attr[b].next
                            \/ attr'[b].next = UNDEF
                            \/ b = c /\ attr'[b].next = a
    PROVE  /\ LinksOK'
           /\ \A x \in Attrs : x # a /\ Unreferred(x) => Unreferred(x)'
<1>a. /\ LinksOK /\ newAttr \in Int /\ newAttr >= 1
      /\ \A n \in Nodes : node[n].attrs \in Opt(Attrs)
      /\ \A b \in Attrs : attr[b].next \in Opt(Attrs)
    BY PlaceTypes DEF IInv, AttrInv, AllTyped, TypeOK
<1>b. Opt(Attrs) \subseteq Int /\ UNDEF \notin Attrs /\ UNDEF < newAttr /\ UNDEF \notin Nodes
      /\ UNDEF \in Int
    BY <1>a, TreeAssumptions DEF Opt, Attrs, Nodes, UNDEF
<1>1. \A n \in Nodes : node'[n].attrs < newAttr'
    BY <1>a, <1>b DEF LinksOK
<1>2. \A b \in Attrs : attr'[b].next < newAttr'
    BY <1>a, <1>b DEF LinksOK
<1>3. \A b \in Attrs : attr'[b].next = UNDEF \/ attr'[b].next > b
    <2> SUFFICES ASSUME NEW b \in Attrs, attr'[b].next # UNDEF PROVE attr'[b].next > b
        OBVIOUS
    <2>1. CASE attr'[b].next = attr[b].next
        BY <2>1, <1>a DEF LinksOK
    <2>2. CASE b = c /\ attr'[b].next = a
        BY <2>2, <1>b DEF Attrs
    <2> QED BY <2>1, <2>2
<1>4. ASSUME NEW n \in Nodes, NEW k \in Nodes, node'[n].attrs # UNDEF, node'[n].attrs = node'[k].attrs
      PROVE  n = k
    <2>1. CASE node'[n].attrs = node[n].attrs /\ node'[k].attrs = node[k].attrs
        BY <2>1, <1>4, <1>a DEF LinksOK
    <2>2. CASE n = m /\ node'[n].attrs = a
        BY <2>2, <1>4 DEF Unreferred
    <2>3. CASE k = m /\ node'[k].attrs = a
        BY <2>3, <1>4 DEF Unreferred
    <2> QED BY <2>1, <2>2, <2>3, <1>4
<1>5. ASSUME NEW b \in Attrs, NEW k \in Attrs, attr'[b].next # UNDEF, attr'[b].next = attr'[k].next
      PROVE  b = k
    <2>1. CASE attr'[b].next = attr[b].next /\ attr'[k].next = attr[k].next
        BY <2>1, <1>5, <1>a DEF LinksOK
    <2>2. CASE b = c /\ attr'[b].next = a
        BY <2>2, <1>5 DEF Unreferred
    <2>3. CASE k = c /\ attr'[k].next = a
        BY <2>3, <1>5 DEF Unreferred
    <2> QED BY <2>1, <2>2, <2>3, <1>5
<1>6. ASSUME NEW n \in Nodes, NEW b \in Attrs, node'[n].attrs # UNDEF, node'[n].attrs = attr'[b].next
      PROVE  FALSE
    <2>1. CASE node'[n].attrs = node[n].attrs /\ attr'[b].next = attr[b].next
        BY <2>1, <1>6, <1>a DEF LinksOK
    <2>2. CASE n = m /\ node'[n].attrs = a
        BY <2>2, <1>6, <1>b DEF Unreferred
    <2>3. CASE b = c /\ attr'[b].next = a
        BY <2>3, <1>6, <1>b DEF Unreferred
    <2> QED BY <2>1, <2>2, <2>3, <1>6
<1>7. ASSUME NEW x \in Attrs, x # a, Unreferred(x) PROVE Unreferred(x)'
    BY <1>7, <1>b DEF Unreferred
<1> QED BY <1>1, <1>2, <1>3, <1>4, <1>5, <1>6, <1>7 DEF LinksOK

\* What links a step that makes none may cut: a cell that is inserted has none.
LEMMA LinksKept ==
    ASSUME IInv, Next, ~LinkPrev, ~LinkAttr, ~PutNode
    PROVE  /\ newAttr' \in Int /\ newAttr' >= newAttr
           /\ \A n \in Nodes : node'[n].attrs = node[n].attrs \/ node'[n].attrs = UNDEF
           /\ \A b \in Attrs : attr'[b].next = attr[b].next \/ attr'[b].next = UNDEF
<1>a. /\ newAttr \in Int
      /\ node \in [Nodes -> NodeType] /\ attr \in [Attrs -> AttrType]
    BY PlaceTypes DEF IInv, AllTyped, TypeOK, NodeType, AttrType
<1>1. CASE UNCHANGED <<node, attr, newAttr>>
    BY <1>1, <1>a
<1>2. CASE InsertBare
    <2>1. node' = [node EXCEPT ![newNode] = Blank] /\ UNCHANGED <<attr, newAttr>>
        BY <1>2 DEF InsertBare
    <2> QED BY <2>1, <1>a DEF Blank
<1>3. CASE PutAttr
    <2>1. /\ UNCHANGED node /\ newAttr' = newAttr + 1
          /\ attr' = [attr EXCEPT ![call.a] =
                        IF call.op = "attr"
                        THEN [key |-> call.nameAt, value |-> call.valAt, next |-> UNDEF]
                        ELSE [BlankAttr EXCEPT !.key = ELSEWHERE]]
        BY <1>3 DEF PutAttr
    <2>2. (IF call.op = "attr"
           THEN [key |-> call.nameAt, value |-> call.valAt, next |-> UNDEF]
           ELSE [BlankAttr EXCEPT !.key = ELSEWHERE]).next = UNDEF
        BY DEF BlankAttr
    <2>3. ASSUME NEW b \in Attrs PROVE attr'[b].next = attr[b].next \/ attr'[b].next = UNDEF
        BY <2>1, <2>2, <1>a
    <2> QED BY <2>1, <2>3, <1>a
<1>4. CASE SetParent
    <2>1. node' = [node EXCEPT ![call.n].parent = call.p] /\ UNCHANGED <<attr, newAttr>>
        BY <1>4 DEF SetParent
    <2> QED BY <2>1, <1>a DEF NodeType
<1>5. CASE LinkChild
    <2>1. UNCHANGED <<attr, newAttr>>
        BY <1>5 DEF LinkChild
    <2> QED BY <1>5, <2>1, <1>a, LinkStores
<1>6. UNCHANGED <<node, attr, newAttr>> \/ InsertBare \/ PutAttr \/ SetParent \/ LinkChild
    <2>1. CASE Library
        BY <2>1 DEF Library, FindFails, FindPlaces, FindNoValue, PutName, PutValue, PutNoText,
                    PutNullDies, Walk, cellvars
    <2>2. CASE Client
        BY <2>2 DEF Client, InsertNode, InsertAttr, AddChild, TakeCopy, AddAttrFirst,
                    AddAttrNext, AddAttrDies, IterStart, IterNext, IterEnd, cellvars
    <2>3. CASE Crash
        BY <2>3 DEF Crash, cellvars
    <2> QED BY <2>1, <2>2, <2>3 DEF Next
<1> QED BY <1>1, <1>2, <1>3, <1>4, <1>5, <1>6

LEMMA LinksStep ==
    ASSUME IInv, Next
    PROVE  /\ LinksOK' /\ newAttr' \in Int /\ newAttr' >= newAttr
           /\ \A x \in Attrs : Unreferred(x) =>
                 \/ Unreferred(x)'
                 \/ LinkPrev /\ call.link # UNDEF /\ x = call.a
                 \/ LinkAttr /\ x = call.a
                 \/ PutNode /\ x = call.link
<1>a. /\ newAttr \in Int /\ newAttr >= 1 /\ ChainOK /\ PlacesOK
      /\ node \in [Nodes -> NodeType] /\ attr \in [Attrs -> AttrType]
      /\ \A S : UNDEF \in Opt(S) /\ S \subseteq Opt(S)
      /\ UNDEF < newAttr /\ UNDEF \notin Attrs /\ UNDEF \notin Nodes
    BY PlaceTypes DEF IInv, AllTyped, TypeOK, NodeType, AttrType, AttrInv, Opt, UNDEF, Attrs, Nodes
<1>1. CASE ~LinkPrev /\ ~LinkAttr /\ ~PutNode
    <2>1. /\ newAttr' \in Int /\ newAttr' >= newAttr
          /\ \A n \in Nodes : node'[n].attrs = node[n].attrs \/ node'[n].attrs = UNDEF
          /\ \A b \in Attrs : attr'[b].next = attr[b].next \/ attr'[b].next = UNDEF
        BY <1>1, LinksKept
    <2>2. UNDEF \in Opt(Attrs) /\ UNDEF < newAttr'
        BY <2>1, <1>a DEF UNDEF
    <2> QED BY <2>1, <2>2, <1>a, OneLink
<1>2. CASE LinkPrev
    <2>1. pc = "attr" /\ call.op = "attr" /\ UNCHANGED <<node, newAttr>>
        BY <1>2 DEF LinkPrev
    <2>2. call.a \in Attrs /\ Unreferred(call.a) /\ call.a < newAttr
        BY <2>1, <1>a DEF PlacesOK, ChainOK
    <2>3. call.link = chain.last /\ call.link < call.a
        BY <2>1, <1>a DEF ChainOK
    <2>4. CASE call.link = UNDEF
        <3>1. attr' = attr
            BY <1>2, <2>4 DEF LinkPrev
        <3>2. UNDEF \in Opt(Attrs)
            BY <1>a
        <3> QED BY <2>1, <3>1, <3>2, <1>a, OneLink
    <2>5. CASE call.link # UNDEF
        <3>1. attr' = [attr EXCEPT ![call.link].next = call.a]
            BY <1>2, <2>5 DEF LinkPrev
        <3>2. \A b \in Attrs : \/ attr'[b].next = attr[b].next
                               \/ b = call.link /\ attr'[b].next = call.a
            BY <3>1, <1>a DEF AttrType
        <3>3. call.a \in Opt(Attrs) /\ call.a < newAttr' /\ newAttr' \in Int /\ newAttr' >= newAttr
            BY <2>1, <2>2, <1>a
        <3>4. LinksOK' /\ \A x \in Attrs : x # call.a /\ Unreferred(x) => Unreferred(x)'
            BY <2>1, <2>2, <2>3, <3>2, <3>3, OneLink
        <3> QED BY <1>2, <2>5, <3>3, <3>4
    <2> QED BY <2>4, <2>5
<1>3. CASE LinkAttr
    <2>1. pc = "attr" /\ call.op = "add" /\ UNCHANGED newAttr
        BY <1>3 DEF LinkAttr
    <2>2. call.a \in Attrs /\ Unreferred(call.a) /\ call.a < newAttr
        BY <2>1, <1>a DEF PlacesOK, ChainOK
    <2>3. call.a \in Opt(Attrs) /\ call.a < newAttr' /\ newAttr' \in Int /\ newAttr' >= newAttr
        BY <2>1, <2>2, <1>a
    <2>4. CASE call.first
        <3>1. node' = [node EXCEPT ![call.at].attrs = call.a] /\ attr' = attr
            BY <1>3, <2>4 DEF LinkAttr
        <3>2. \A n \in Nodes : \/ node'[n].attrs = node[n].attrs
                               \/ n = call.at /\ node'[n].attrs = call.a
            BY <3>1, <1>a DEF NodeType
        <3>3. LinksOK' /\ \A x \in Attrs : x # call.a /\ Unreferred(x) => Unreferred(x)'
            BY <2>2, <2>3, <3>1, <3>2, <1>a, OneLink
        <3> QED BY <1>3, <2>3, <3>3
    <2>5. CASE ~call.first
        <3>1. attr' = [attr EXCEPT ![call.at].next = call.a] /\ node' = node
            BY <1>3, <2>5 DEF LinkAttr
        <3>2. \A b \in Attrs : \/ attr'[b].next = attr[b].next
                               \/ b = call.at /\ attr'[b].next = call.a
            BY <3>1, <1>a DEF AttrType
        <3>3. call.at < call.a
            BY <2>1, <2>5, <1>a DEF ChainOK
        <3>4. LinksOK' /\ \A x \in Attrs : x # call.a /\ Unreferred(x) => Unreferred(x)'
            BY <2>2, <2>3, <3>1, <3>2, <3>3, <1>a, OneLink
        <3> QED BY <1>3, <2>3, <3>4
    <2> QED BY <2>4, <2>5
<1>4. CASE PutNode
    <2>1. /\ pc = "cell" /\ call.op = "node" /\ UNCHANGED <<attr, newAttr>>
          /\ node' = [node EXCEPT ![call.n] =
                  [Blank EXCEPT !.attrs = call.link, !.parent = call.p,
                                !.name = call.nameAt, !.value = call.valAt]]
        BY <1>4 DEF PutNode
    <2>2. call.link \in Opt(Attrs) /\ call.link < newAttr /\ (call.link = UNDEF \/ Unreferred(call.link))
        BY <2>1, <1>a DEF ChainOK, IInv, AllTyped, CallType
    <2>3. \A n \in Nodes : \/ node'[n].attrs = node[n].attrs
                           \/ n = call.n /\ node'[n].attrs = call.link
        <3>1. [Blank EXCEPT !.attrs = call.link, !.parent = call.p,
                            !.name = call.nameAt, !.value = call.valAt].attrs = call.link
            BY DEF Blank
        <3> QED BY <2>1, <3>1, <1>a
    <2>4. call.link < newAttr' /\ newAttr' \in Int /\ newAttr' >= newAttr
        BY <2>1, <2>2, <1>a
    <2>5. LinksOK' /\ \A x \in Attrs : x # call.link /\ Unreferred(x) => Unreferred(x)'
        BY <2>1, <2>2, <2>3, <2>4, <1>a, OneLink
    <2> QED BY <1>4, <2>4, <2>5
<1> QED BY <1>1, <1>2, <1>3, <1>4

\* The first attribute for the next node stays unreferred, and a copy knows of no
\* attribute that does not exist.
LEMMA HeldStep ==
    ASSUME IInv, Next
    PROVE  /\ copy'.attrs < newAttr'
           /\ (chain'.first = UNDEF) = (chain'.last = UNDEF)
           /\ chain'.first < newAttr' /\ chain'.last < newAttr'
           /\ chain'.first # UNDEF => Unreferred(chain.first)'
<1>a. /\ newAttr \in Int /\ newAttr >= 1 /\ ChainOK /\ PlacesOK /\ LabelsOK /\ LinksOK
      /\ chain.first \in Opt(Attrs) /\ chain.last \in Opt(Attrs) /\ copy.attrs \in Opt(Attrs)
      /\ Opt(Attrs) \subseteq Int /\ UNDEF \in Int /\ UNDEF < newAttr
      /\ Opt(Attrs) = Attrs \cup {UNDEF} /\ linked \subseteq Nodes
    BY PlaceTypes DEF IInv, AllTyped, TypeOK, AttrInv, CopyType, Opt, UNDEF, Attrs
<1>b. newAttr' \in Int /\ newAttr' >= newAttr
    BY LinksStep
<1>c. ASSUME chain' = chain
      PROVE  /\ (chain'.first = UNDEF) = (chain'.last = UNDEF)
             /\ chain'.first < newAttr' /\ chain'.last < newAttr'
             /\ chain'.first # UNDEF => Unreferred(chain.first)'
    <2>1. chain.first < newAttr /\ chain.last < newAttr /\ (chain.first = UNDEF) = (chain.last = UNDEF)
        BY <1>a DEF ChainOK
    <2>2. ASSUME chain.first # UNDEF PROVE Unreferred(chain.first)'
        <3>1. chain.first \in Attrs /\ Unreferred(chain.first)
            BY <2>2, <1>a DEF ChainOK
        <3>2. LinkPrev \/ LinkAttr => chain.first # call.a
            BY <1>a DEF LinkPrev, LinkAttr, ChainOK
        <3>3. PutNode => chain.first = UNDEF
            BY <1>a DEF PutNode, ChainOK
        <3>4. \E x \in Attrs : x = chain.first
            BY <3>1
        <3>5. Unreferred(chain.first)'
              \/ (LinkPrev /\ chain.first = call.a) \/ (LinkAttr /\ chain.first = call.a) \/ PutNode
            <4>1. PICK x \in Attrs : x = chain.first
                BY <3>1
            <4>2. Unreferred(x)' \/ (LinkPrev /\ x = call.a) \/ (LinkAttr /\ x = call.a) \/ PutNode
                BY <3>1, <4>1, LinksStep
            <4> QED BY <1>c, <4>1, <4>2 DEF Unreferred
        <3> QED BY <2>2, <3>2, <3>3, <3>5
    <2> QED BY <1>a, <1>b, <1>c, <2>1, <2>2
<1>d. copy' = copy => copy'.attrs < newAttr'
    BY <1>a, <1>b DEF ChainOK
<1>1. CASE UNCHANGED <<copy, chain>>
    BY <1>1, <1>c, <1>d
<1>2. CASE ProcessEnds
    BY <1>2, <1>a, <1>b DEF ProcessEnds, NoChain, NoCopy
<1>3. ASSUME NEW n \in linked, TakeCopy(n)
      PROVE  chain' = chain /\ copy'.attrs < newAttr'
    <2>1. node[n].attrs < newAttr
        BY <1>a DEF LinksOK
    <2> QED BY <1>3, <2>1 DEF TakeCopy, cellvars
<1>4. ASSUME NEW p, NEW w, NEW v, InsertNode(p, w, v)
      PROVE  chain' = NoChain /\ copy' = copy
    BY <1>4 DEF InsertNode
<1>5. CASE LinkPrev
    <2>1. /\ pc = "attr" /\ call.op = "attr" /\ UNCHANGED <<copy, newAttr>>
          /\ chain' = [first |-> IF chain.first = UNDEF THEN call.a ELSE chain.first,
                       last  |-> call.a]
        BY <1>5 DEF LinkPrev
    <2>2. /\ call.a \in Attrs /\ call.a = newAttr - 1 /\ Unreferred(call.a)
          /\ call.link = chain.last /\ (chain.first = UNDEF) = (chain.last = UNDEF)
          /\ chain.first < call.a
        BY <2>1, <1>a DEF PlacesOK, ChainOK
    <2>3. call.a # UNDEF /\ call.a < newAttr'
        BY <2>1, <2>2, <1>a DEF Attrs, UNDEF
    <2>4. CASE chain.first = UNDEF
        <3>1. attr' = attr /\ node' = node
            BY <1>5, <2>2, <2>4 DEF LinkPrev
        <3> QED BY <2>1, <2>2, <2>3, <2>4, <3>1, <1>d DEF Unreferred
    <2>5. CASE chain.first # UNDEF
        <3>1. PICK x \in Attrs : x = chain.first
            BY <2>5, <1>a
        <3>2. Unreferred(x) /\ x # call.a
            BY <2>5, <3>1, <1>a, <2>2 DEF ChainOK
        <3>3. ~LinkAttr /\ ~PutNode
            BY <2>1 DEF LinkAttr, PutNode
        <3>4. Unreferred(x)'
            BY <3>2, <3>3, LinksStep
        <3>5. chain'.first = x /\ chain'.last = call.a /\ x # UNDEF /\ x < newAttr'
            BY <2>1, <2>5, <3>1, <1>a DEF ChainOK
        <3> QED BY <2>1, <2>3, <3>4, <3>5, <1>d DEF Unreferred
    <2> QED BY <2>4, <2>5
<1>6. \/ UNCHANGED <<copy, chain>> \/ ProcessEnds \/ LinkPrev
      \/ \E n \in linked : TakeCopy(n)
      \/ \E p, w, v : InsertNode(p, w, v)
    <2>1. CASE Library
        BY <2>1 DEF Library, FindFails, FindPlaces, FindNoValue, PutName, PutValue, PutNoText,
                    PutNullDies, PutNode, PutAttr, LinkAttr, SetParent, Walk, LinkChild, client
    <2>2. CASE Client
        BY <2>2 DEF Client, InsertAttr, InsertBare, AddChild, AddAttrFirst,
                    AddAttrNext, AddAttrDies, IterStart, IterNext, IterEnd, client
    <2>3. CASE Crash
        BY <2>3 DEF Crash
    <2> QED BY <2>1, <2>2, <2>3 DEF Next
<1> QED BY <1>1, <1>2, <1>3, <1>4, <1>5, <1>6, <1>a, <1>b, <1>c, <1>d DEF NoChain

LEMMA ChainStep == IInv /\ Next => ChainOK'
<1> SUFFICES ASSUME IInv, Next PROVE ChainOK'
    OBVIOUS
<1>a. /\ newAttr \in Int /\ newAttr >= 1 /\ ChainOK /\ PlacesOK /\ LabelsOK /\ LinksOK
      /\ chain.first \in Opt(Attrs) /\ chain.last \in Opt(Attrs) /\ copy.attrs \in Opt(Attrs)
      /\ call \in CallType /\ copy \in CopyType
      /\ UNDEF \in Int /\ UNDEF < newAttr /\ Opt(Attrs) = Attrs \cup {UNDEF}
      /\ UNDEF \notin Attrs /\ Attrs \subseteq Int
    BY PlaceTypes DEF IInv, AllTyped, TypeOK, AttrInv, CopyType, Opt, UNDEF, Attrs
<1>b. newAttr' \in Int /\ newAttr' >= newAttr
    BY LinksStep
<1>1. CASE pc' = "idle" /\ call' = NoCall
    BY <1>1, <1>a, <1>b, HeldStep DEF ChainOK, NoCall
<1>2. ASSUME NEW p \in linked, NEW w \in Words, NEW v \in ValueChoices, InsertNode(p, w, v)
      PROVE  ChainOK'
    <2>1. /\ call'.op = "node" /\ call'.link = chain.first /\ pc' = "find"
          /\ chain' = NoChain /\ UNCHANGED <<node, attr, newAttr>>
        BY <1>2, CallsMade DEF InsertNode, cellvars
    <2>2. call'.link # UNDEF => Unreferred(call.link)'
        BY <2>1, <1>a DEF ChainOK, Unreferred
    <2>3. call'.link < newAttr'
        BY <2>1, <1>a DEF ChainOK
    <2> QED BY <2>1, <2>2, <2>3, HeldStep DEF ChainOK, NoChain
<1>3. ASSUME NEW w \in Words, NEW v \in ValueChoices, InsertAttr(w, v) PROVE ChainOK'
    <2>1. call'.op = "attr" /\ call'.link = chain.last /\ pc' = "find" /\ UNCHANGED <<chain, newAttr>>
        BY <1>3, CallsMade DEF InsertAttr, cellvars, client
    <2> QED BY <2>1, <1>a, HeldStep DEF ChainOK
<1>4. ASSUME NEW p \in linked, NEW n \in bare, AddChild(p, n) PROVE ChainOK'
    <2>1. call'.op = "child" /\ call'.link = UNDEF /\ pc' = "child"
        BY <1>4 DEF AddChild, NoCall
    <2> QED BY <2>1, <1>a, <1>b, HeldStep DEF ChainOK
<1>5. CASE AddAttrFirst \/ AddAttrNext
    <2>1. call'.link = UNDEF /\ pc' = "find" /\ newAttr' = newAttr
        BY <1>5 DEF AddAttrFirst, AddAttrNext, NoCall, cellvars
    <2>2. call'.op = "add"
        BY <1>5, CallsMade
    <2>3. IF call'.first THEN call'.at \in Nodes ELSE call'.at \in Attrs /\ call'.at < newAttr
        <3>1. CASE AddAttrFirst
            <4>1. call'.first /\ call'.at = copy.n /\ copy.n \in Nodes
                BY <3>1, <1>a, CallsMade DEF AddAttrFirst, CopyType, Opt
            <4> QED BY <4>1
        <3>2. CASE AddAttrNext
            <4>1. ~call'.first /\ call'.at = copy.attrs /\ copy.attrs \in Attrs
                BY <3>2, <1>a, CallsMade DEF AddAttrNext
            <4> QED BY <4>1, <1>a DEF ChainOK
        <3> QED BY <1>5, <3>1, <3>2
    <2> QED BY <2>1, <2>2, <2>3, <1>a, <1>b, HeldStep DEF ChainOK
<1>6. CASE FindPlaces \/ FindNoValue
    <2>1. /\ pc = "find" /\ pc' \in {"name", "cell"}
          /\ UNCHANGED <<node, attr, newAttr, chain, copy>>
        BY <1>6 DEF FindPlaces, FindNoValue, cellvars, client
    <2>2. /\ call'.op = call.op /\ call'.link = call.link
          /\ call'.at = call.at /\ call'.first = call.first
        BY <1>6, PlacesFound
    <2> QED BY <2>1, <2>2, <1>a DEF ChainOK, Unreferred
<1>7. CASE PutName \/ PutValue \/ PutNoText
    <2>1. /\ pc \in {"name", "value"} /\ pc' \in {"value", "cell"}
          /\ UNCHANGED <<node, attr, newAttr, chain, copy, call>>
        BY <1>7 DEF PutName, PutValue, PutNoText, Goto, cellvars, client
    <2> QED BY <2>1, <1>a DEF ChainOK, Unreferred
<1>8. CASE PutNode
    <2>1. /\ pc = "cell" /\ pc' = "child" /\ call.op = "node" /\ UNCHANGED <<newAttr, call>>
        BY <1>8 DEF PutNode, Goto
    <2> QED BY <2>1, <1>a, HeldStep DEF ChainOK
<1>9. CASE PutAttr
    <2>1. /\ pc = "cell" /\ pc' = "attr" /\ call.op \in {"attr", "add"}
          /\ UNCHANGED <<node, chain, copy, call>> /\ newAttr' = newAttr + 1
        BY <1>9 DEF PutAttr, Goto, client
    <2>2. call.a = newAttr
        BY <2>1, <1>a DEF PlacesOK
    <2>3. /\ \A n \in Nodes : node'[n].attrs # newAttr
          /\ \A b \in Attrs : attr'[b].next # newAttr
        <3>1. ~LinkPrev /\ ~LinkAttr /\ ~PutNode
            BY <2>1 DEF LinkPrev, LinkAttr, PutNode
        <3>2. /\ \A n \in Nodes : node[n].attrs < newAttr
              /\ \A b \in Attrs : attr[b].next < newAttr
            BY <1>a DEF LinksOK
        <3>3. /\ \A n \in Nodes : node'[n].attrs = node[n].attrs \/ node'[n].attrs = UNDEF
              /\ \A b \in Attrs : attr'[b].next = attr[b].next \/ attr'[b].next = UNDEF
            BY <3>1, LinksKept
        <3>4. ~(newAttr < newAttr)
            BY <1>a
        <3> QED BY <3>2, <3>3, <3>4, <1>a
    <2>4. call.op = "attr" => call.link = chain.last
        BY <1>a DEF ChainOK
    <2>5. /\ chain.first < newAttr /\ chain.last < newAttr /\ call.link < newAttr
          /\ call.link \in Int
        BY <1>a DEF ChainOK, CallType
    <2>6. call.op = "add" =>
             IF call.first THEN call.at \in Nodes ELSE call.at \in Attrs /\ call.at < newAttr
        BY <1>a DEF ChainOK
    <2>7. call.link < newAttr'
        BY <2>1, <2>5, <1>a
    <2>8. call.at < newAttr /\ call.at \in Attrs => call.at < newAttr'
        <3>1. call.at \in Attrs => call.at \in Int
            BY <1>a
        <3> QED BY <2>1, <3>1, <1>a
    <2> QED BY <2>1, <2>2, <2>3, <2>4, <2>5, <2>6, <2>7, <2>8, HeldStep DEF ChainOK, Unreferred
<1>10. CASE SetParent \/ Walk
    <2>1. /\ pc \in {"child", "walk"} /\ pc' = "walk" /\ call'.op = call.op
          /\ call'.link = call.link /\ UNCHANGED newAttr
        BY <1>10, <1>a DEF SetParent, Walk, CallType, cellvars
    <2>2. call'.op \in {"node", "child"}
        BY <2>1, <1>a DEF LabelsOK
    <2>3. call'.link < newAttr'
        BY <2>1, <1>a DEF ChainOK
    <2> QED BY <2>1, <2>2, <2>3, HeldStep DEF ChainOK
<1> QED BY StepKinds, <1>1, <1>2, <1>3, <1>4, <1>5, <1>6, <1>7, <1>8, <1>9, <1>10

LEMMA AttrStep == IInv /\ Next => AttrInv'
BY LinksStep, ChainStep DEF AttrInv
-------------------------------------------------------------------------------
(* The strings.                                                            *)

\* No step but PutNode gives a node its name and value, and none takes them away.
LEMMA NamesKept ==
    ASSUME IInv, Next, ~PutNode
    PROVE  /\ given' = given /\ newNode' \in Int /\ newNode' >= newNode
           /\ \A n \in Nodes : given[n] # NotGiven =>
                 node'[n].name = node[n].name /\ node'[n].value = node[n].value
<1>a. newNode \in Int /\ node \in [Nodes -> NodeType]
    BY PlaceTypes DEF IInv, AllTyped, TypeOK, NodeType
<1>1. CASE UNCHANGED <<node, newNode, given>>
    BY <1>1, <1>a
<1>2. CASE InsertBare
    <2>1. node' = [node EXCEPT ![newNode] = Blank] /\ given' = given /\ newNode' = newNode + 1
        BY <1>2 DEF InsertBare, history
    <2>2. \A n \in Nodes : given[n] # NotGiven => n # newNode
        BY <1>a DEF IInv, TextInv, Nodes
    <2>3. \A n \in Nodes : n # newNode => node'[n] = node[n]
        BY <2>1, <1>a
    <2> QED BY <2>1, <2>2, <2>3, <1>a
<1>3. CASE SetParent
    <2>1. node' = [node EXCEPT ![call.n].parent = call.p] /\ UNCHANGED <<newNode, given>>
        BY <1>3 DEF SetParent, history
    <2> QED BY <2>1, <1>a DEF NodeType
<1>4. CASE LinkAttr
    <2>1. /\ node' = node \/ node' = [node EXCEPT ![call.at].attrs = call.a]
          /\ UNCHANGED <<newNode, given>>
        BY <1>4 DEF LinkAttr, history
    <2> QED BY <2>1, <1>a DEF NodeType
<1>5. CASE LinkChild
    <2>1. UNCHANGED <<newNode, given>>
        BY <1>5 DEF LinkChild
    <2> QED BY <1>5, <2>1, <1>a, LinkStores
<1>6. \/ UNCHANGED <<node, newNode, given>>
      \/ InsertBare \/ SetParent \/ LinkAttr \/ LinkChild
    <2>1. CASE Library
        BY <2>1 DEF Library, FindFails, FindPlaces, FindNoValue, PutName, PutValue, PutNoText,
                    PutNullDies, PutAttr, LinkPrev, Walk, ProcessEnds, cellvars, history
    <2>2. CASE Client
        BY <2>2 DEF Client, InsertNode, InsertAttr, AddChild, TakeCopy, AddAttrFirst, AddAttrNext,
                    AddAttrDies, IterStart, IterNext, IterEnd, ProcessEnds, cellvars, history
    <2>3. CASE Crash
        BY <2>3 DEF Crash, ProcessEnds, cellvars, history
    <2> QED BY <2>1, <2>2, <2>3 DEF Next
<1> QED BY <1>1, <1>2, <1>3, <1>4, <1>5, <1>6

\* Strings are inserted behind those of the nodes that have theirs.
LEMMA TextsKept ==
    ASSUME IInv, Next
    PROVE  /\ newText' \in Int /\ newText' >= newText
           /\ \A i \in Texts : /\ i < newText
                               /\ pc = "value" => i < call.nameAt
                               => text'[i] = text[i]
<1>a. newText \in Int /\ text \in [Texts -> Words \cup {NoWord}] /\ PlacesOK /\ LabelsOK
    BY PlaceTypes DEF IInv, AllTyped, TypeOK
<1>1. CASE UNCHANGED <<text, newText>>
    BY <1>1, <1>a
<1>2. CASE PutName
    <2>1. text' = [text EXCEPT ![newText] = call.word] /\ newText' = newText + 1
        BY <1>2, <1>a DEF PutName, PutText, PlacesOK
    <2>2. \A i \in Texts : i < newText => i # newText
        BY <1>a DEF Texts
    <2> QED BY <2>1, <2>2, <1>a
<1>3. CASE PutValue
    <2>1. text' = [text EXCEPT ![call.valAt] = call.val] /\ newText' = newText + 1
          /\ pc = "value" /\ call.valAt \in Texts
        BY <1>3 DEF PutValue, PutText
    <2>2. call.valAt = call.nameAt
        <3>1. call.valAt \in {UNDEF, ELSEWHERE, call.nameAt}
            BY <2>1, <1>a DEF PlacesOK, LabelsOK
        <3> QED BY <2>1, <3>1, TreeAssumptions DEF Texts, UNDEF, ELSEWHERE
    <2>3. \A i \in Texts : i < call.valAt => i # call.valAt
        BY DEF Texts
    <2> QED BY <2>1, <2>2, <2>3, <1>a
<1>4. UNCHANGED <<text, newText>> \/ PutName \/ PutValue
    <2>1. CASE Library
        BY <2>1 DEF Library, FindFails, FindPlaces, FindNoValue, PutNoText, PutNullDies, PutNode,
                    PutAttr, LinkPrev, LinkAttr, SetParent, Walk, LinkChild, cellvars
    <2>2. CASE Client
        BY <2>2 DEF Client, InsertNode, InsertAttr, InsertBare, AddChild, TakeCopy, AddAttrFirst,
                    AddAttrNext, AddAttrDies, IterStart, IterNext, IterEnd, cellvars
    <2>3. CASE Crash
        BY <2>3 DEF Crash, cellvars
    <2> QED BY <2>1, <2>2, <2>3 DEF Next
<1> QED BY <1>1, <1>2, <1>3, <1>4

LEMMA TextStep == IInv /\ Next => TextInv'
<1> SUFFICES ASSUME IInv, Next PROVE TextInv'
    OBVIOUS
<1>a. /\ newNode \in Int /\ newText \in Int /\ newText >= 1 /\ TextInv /\ PlacesOK /\ LabelsOK
      /\ text \in [Texts -> Words \cup {NoWord}] /\ node \in [Nodes -> NodeType]
      /\ given \in [Nodes -> [word : Words \cup {NoWord}, val : Words \cup {NoValue, OtherValue}]]
      /\ call \in CallType
    BY PlaceTypes DEF IInv, AllTyped, TypeOK, NodeType
<1>b. /\ newText' \in Int /\ newText' >= newText
      /\ \A i \in Texts : /\ i < newText
                          /\ pc = "value" => i < call.nameAt
                          => text'[i] = text[i]
    BY TextsKept
\* A node that had its string keeps it.
<1>c. ASSUME NEW n \in Nodes, given[n] # NotGiven, given'[n] = given[n],
             node'[n].name = node[n].name, node'[n].value = node[n].value,
             newNode' \in Int, newNode' >= newNode
      PROVE  /\ n < newNode' /\ TextOf(n)' \in Texts /\ TextOf(n)' < newText'
             /\ text'[TextOf(n)'] = WordOf(given'[n])
             /\ TextOf(n)' < newText
    <2>1. /\ n < newNode /\ TextOf(n) \in Texts /\ TextOf(n) < newText
          /\ pc = "value" => TextOf(n) < call.nameAt
          /\ text[TextOf(n)] = WordOf(given[n])
        BY <1>a, <1>c DEF TextInv
    <2>2. TextOf(n)' = TextOf(n)
        BY <1>c DEF TextOf
    <2>3. text'[TextOf(n)] = text[TextOf(n)]
        BY <2>1, <1>b
    <2>4. n \in Int /\ TextOf(n) \in Int
        BY <2>1 DEF Nodes, Texts
    <2> QED BY <1>a, <1>b, <1>c, <2>1, <2>2, <2>3, <2>4
<1>1. CASE ~PutNode
    <2>1. /\ given' = given /\ newNode' \in Int /\ newNode' >= newNode
          /\ \A n \in Nodes : given[n] # NotGiven =>
                 node'[n].name = node[n].name /\ node'[n].value = node[n].value
        BY <1>1, NamesKept
    <2>2. \A n \in Nodes : given'[n] # NotGiven =>
             /\ n < newNode' /\ TextOf(n)' \in Texts /\ TextOf(n)' < newText'
             /\ text'[TextOf(n)'] = WordOf(given'[n])
             /\ TextOf(n)' < newText
        BY <2>1, <1>c
    <2>3. CASE PutName
        <3>1. /\ pc = "name" /\ pc' = "value" /\ call' = call
              /\ text' = [text EXCEPT ![call.nameAt] = call.word]
            BY <2>3 DEF PutName, PutText, Goto
        <3>2. call.nameAt = newText
            BY <3>1, <1>a DEF PlacesOK
        <3>3. call.op = "node" => call.nameAt \in Texts
            BY <3>1, <1>a DEF PlacesOK
        <3> QED BY <2>2, <3>1, <3>2, <3>3, <1>a DEF TextInv
    <2>4. CASE PutValue
        <3>1. /\ pc = "value" /\ pc' = "cell" /\ call' = call /\ newText' = newText + 1
              /\ text' = [text EXCEPT ![call.valAt] = call.val] /\ call.valAt \in Texts
            BY <2>4 DEF PutValue, PutText, Goto
        <3>2. call.valAt = call.nameAt
            <4>1. call.valAt \in {UNDEF, ELSEWHERE, call.nameAt}
                BY <3>1, <1>a DEF PlacesOK, LabelsOK
            <4> QED BY <3>1, <4>1, TreeAssumptions DEF Texts, UNDEF, ELSEWHERE
        <3>3. call.op \in {"node", "attr"} /\ call.val \in Words /\ call.nameAt = newText - 1
            BY <3>1, <3>2, <1>a DEF PlacesOK, LabelsOK
        <3>4. call.nameAt < newText'
            BY <3>1, <3>3, <1>a
        <3>5. text'[call.nameAt] = WordOf([word |-> call.word, val |-> call.val])
            BY <3>1, <3>2, <3>3, <1>a DEF WordOf
        <3> QED BY <2>2, <3>1, <3>4, <3>5 DEF TextInv
    <2>5. CASE PutNoText
        <3>1. /\ pc = "value" /\ pc' = "cell" /\ call.valAt \notin Texts
              /\ UNCHANGED <<call, text, newText>>
            BY <2>5 DEF PutNoText, Goto, cellvars
        <3>2. call.op = "node" => call.val \notin Words /\ text[call.nameAt] = call.word
            BY <3>1, <1>a DEF PlacesOK, TextInv
        <3>3. call.nameAt = newText - 1
            BY <3>1, <1>a DEF PlacesOK
        <3> QED BY <2>2, <3>1, <3>2, <3>3, <1>a DEF TextInv, WordOf
    <2>6. CASE pc' \notin {"value", "cell"} \/ (pc' # "value" /\ call'.op # "node")
        BY <2>2, <2>6 DEF TextInv
    <2>7. PutName \/ PutValue \/ PutNoText
          \/ pc' \notin {"value", "cell"} \/ (pc' # "value" /\ call'.op # "node")
        <3>1. FindPlaces => pc' = "name" \/ (pc' = "cell" /\ call'.op = "add")
            BY PlacesFound DEF FindPlaces
        <3> QED BY <3>1, <1>1, StepKinds
                DEF InsertNode, InsertAttr, AddChild, AddAttrFirst, AddAttrNext, FindNoValue,
                    PutAttr, SetParent, Walk, Goto
    <2> QED BY <2>3, <2>4, <2>5, <2>6, <2>7
<1>2. CASE PutNode
    <2>1. /\ pc = "cell" /\ call.op = "node" /\ pc' = "child" /\ call' = call
          /\ newNode' = newNode + 1 /\ UNCHANGED <<text, newText>>
          /\ given' = [given EXCEPT ![call.n] = [word |-> call.word, val |-> call.val]]
          /\ node' = [node EXCEPT ![call.n] =
                  [Blank EXCEPT !.attrs = call.link, !.parent = call.p,
                                !.name = call.nameAt, !.value = call.valAt]]
        BY <1>2 DEF PutNode, Goto
    <2>2. call.n \in Nodes /\ call.n = newNode /\ call.nameAt \in Texts
          /\ (call.val \in Words => call.valAt = call.nameAt)
        BY <2>1, <1>a, PlaceTypes DEF PlacesOK
    <2>3. call.nameAt < newText
          /\ text[call.nameAt] = WordOf([word |-> call.word, val |-> call.val])
        BY <2>1, <1>a DEF TextInv
    <2>4. node'[call.n].name = call.nameAt /\ node'[call.n].value = call.valAt
        BY <2>1, <2>2, <1>a DEF Blank
    <2>5. given'[call.n] = [word |-> call.word, val |-> call.val]
        BY <2>1, <2>2, <1>a
    <2>6. TextOf(call.n)' = call.nameAt
        BY <2>1, <2>2, <2>4, <2>5 DEF TextOf
    <2>7. ASSUME NEW n \in Nodes, given'[n] # NotGiven
          PROVE  /\ n < newNode' /\ TextOf(n)' \in Texts /\ TextOf(n)' < newText'
                 /\ text'[TextOf(n)'] = WordOf(given'[n])
        <3>1. CASE n = call.n
            <4>1. TextOf(n)' = call.nameAt
                BY <3>1, <2>1, <2>6 DEF TextOf
            <4> QED BY <3>1, <4>1, <2>1, <2>2, <2>3, <2>5, <1>a
        <3>2. CASE n # call.n
            <4>1. given'[n] = given[n] /\ node'[n] = node[n]
                BY <3>2, <2>1, <1>a
            <4>2. newNode' \in Int /\ newNode' >= newNode
                BY <2>1, <1>a
            <4> QED BY <4>1, <4>2, <2>7, <1>c
        <3> QED BY <3>1, <3>2
    <2> QED BY <2>1, <2>7 DEF TextInv
<1> QED BY <1>1, <1>2
-------------------------------------------------------------------------------
(* The invariant holds.                                                    *)

LEMMA StutterIInv == IInv /\ UNCHANGED vars => IInv'
<1> SUFFICES ASSUME IInv, UNCHANGED vars PROVE IInv'
    OBVIOUS
<1> USE DEF vars, cellvars, client, history
<1>1. AllTyped'
    BY DEF IInv, AllTyped, TypeOK
<1>2. LabelsOK' /\ PlacesOK'
    BY DEF IInv, LabelsOK, PlacesOK
<1>3. TreeInv'
    BY DEF IInv, TreeInv, TreeShape, TreeInFile, WalkOK, IsListOf
<1>4. ReadInv'
    BY DEF IInv, ReadInv, CopyOK, IterInv
<1>5. AttrInv'
    BY DEF IInv, AttrInv, LinksOK, ChainOK, Unreferred
<1>6. TextInv'
    BY DEF IInv, TextInv, TextOf
<1> QED BY <1>1, <1>2, <1>3, <1>4, <1>5, <1>6 DEF IInv

LEMMA NextIInv == IInv /\ [Next]_vars => IInv'
BY TypedStep, LabelsStep, PlacesStep, TreeStep, ReadStep, AttrStep, TextStep, StutterIInv DEF IInv

LEMMA InductiveInv == Spec => []IInv
BY InitIInv, NextIInv, PTL DEF Spec

\* The variables keep their types, at every label and after every death of the
\* process (TypeOK).
THEOREM TypesHold == Spec => []TypeOK
<1>1. IInv => TypeOK
    BY DEF IInv, AllTyped
<1> QED BY <1>1, InductiveInv, PTL
-------------------------------------------------------------------------------
(* The tree in the file.                                                   *)

\* A list of children is no longer than there are nodes.
LEMMA KidsFit ==
    ASSUME IInv, NEW p \in Nodes
    PROVE  Len(kids[p]) <= MaxNodes /\ kids[p] \in NodeLists
<1> DEFINE k == Len(kids[p])
<1>1. k \in Nat /\ DOMAIN kids[p] = 1 .. k /\ MaxNodes \in Nat
      /\ kids[p] \in Seq(Nodes)
    BY KidsAreNodes, TreeAssumptions
<1>2. \A i \in 1 .. k : kids[p][i] \in 1 .. MaxNodes
    <2>1. \A i \in 1 .. k : kids[p][i] \in Nodes /\ kids[p][i] # ROOT
        BY <1>1, KidsAreNodes DEF IInv, TreeInv, TreeShape
    <2> QED BY <2>1 DEF Nodes, ROOT
<1>3. \A i, j \in 1 .. k : kids[p][i] = kids[p][j] => i = j
    BY <1>1 DEF IInv, TreeInv, TreeShape
<1>4. kids[p] \in [1 .. k -> 1 .. MaxNodes]
    BY <1>1, <1>2, LenProperties
<1>5. k <= MaxNodes
    <2> SUFFICES ASSUME MaxNodes < k PROVE FALSE
        BY <1>1
    <2>1. /\ IsFiniteSet(1 .. k) /\ Cardinality(1 .. k) = k
          /\ IsFiniteSet(1 .. MaxNodes) /\ Cardinality(1 .. MaxNodes) = MaxNodes
        BY <1>1, FS_Interval
    <2>2. \E x, y \in 1 .. k : x # y /\ kids[p][x] = kids[p][y]
        <3> HIDE DEF k
        <3> QED BY <2>1, <1>4, FS_PigeonHole
    <2> QED BY <2>2, <1>3
<1>6. kids[p] \in [1 .. k -> Nodes] /\ k \in 0 .. MaxNodes
    BY <1>1, <1>5, LenProperties
<1> QED BY <1>5, <1>6 DEF NodeLists

\* Each node of the tree has its one place in the lists.
LEMMA OnePlace ==
    ASSUME IInv, NEW n \in linked \ {ROOT}
    PROVE  Cardinality({pi \in linked \X (1 .. MaxNodes) :
                          pi[2] \in DOMAIN kids[pi[1]] /\ kids[pi[1]][pi[2]] = n}) = 1
<1> DEFINE S == {pi \in linked \X (1 .. MaxNodes) :
                   pi[2] \in DOMAIN kids[pi[1]] /\ kids[pi[1]][pi[2]] = n}
<1>1. TreeShape /\ linked \subseteq Nodes
    BY DEF IInv, TreeInv, AllTyped, TypeOK
<1>2. PICK p \in Nodes : \E i \in DOMAIN kids[p] : kids[p][i] = n
    BY <1>1 DEF TreeShape
<1>3. PICK i \in DOMAIN kids[p] : kids[p][i] = n
    BY <1>2
<1>4. p \in linked
    BY <1>1, <1>3 DEF TreeShape
<1>5. i \in 1 .. MaxNodes
    BY <1>3, KidsFit, KidsAreNodes, TreeAssumptions
<1>6. <<p, i>> \in S
    BY <1>3, <1>4, <1>5
<1>7. ASSUME NEW pi \in S PROVE pi = <<p, i>>
    <2>1. pi[1] \in Nodes /\ pi[2] \in DOMAIN kids[pi[1]] /\ kids[pi[1]][pi[2]] = n
          /\ pi = <<pi[1], pi[2]>>
        BY <1>1
    <2>2. pi[1] = p /\ pi[2] = i
        BY <2>1, <1>1, <1>3 DEF TreeShape
    <2> QED BY <2>1, <2>2
<1>8. S = {<<p, i>>}
    BY <1>6, <1>7
<1> QED BY <1>8, FS_Singleton

\* At every moment, and so after every death of the process, the file holds the
\* tree of the calls that have linked their node, and no other (TreeIsKids).
THEOREM FileHoldsTree == Spec => []TreeIsKids
<1>1. ASSUME IInv PROVE TreeIsKids
    <2>1. linked \subseteq Nodes
        BY <1>1 DEF IInv, AllTyped, TypeOK
    <2> QED BY <1>1, <2>1, OnePlace DEF TreeIsKids, IInv, TreeInv, TreeInFile
<1> QED BY <1>1, InductiveInv, PTL

\* No step stores over a link of the tree, or the parent of a node in it (LinksStay).
THEOREM LinksAreKept == Spec => LinksStay
<1>1. ASSUME IInv, [Next]_vars
      PROVE  \A n \in linked :
                /\ node[n].children # UNDEF => node'[n].children = node[n].children
                /\ node[n].next # UNDEF => node'[n].next = node[n].next
                /\ node'[n].parent = node[n].parent
    <2>1. linked \subseteq Nodes
        BY <1>1 DEF IInv, AllTyped, TypeOK
    <2>2. CASE LinkChild
        BY <1>1, <2>1, <2>2, LinkStores
    <2>3. CASE Next /\ ~LinkChild
        BY <1>1, <2>1, <2>3, OtherStores
    <2>4. CASE UNCHANGED vars
        BY <2>4 DEF vars, cellvars
    <2> QED BY <1>1, <2>2, <2>3, <2>4
<1> QED BY <1>1, InductiveInv, PTL DEF Spec, LinksStay

\* An iterator over children returns them in order and without a gap, those that
\* were there when its object was copied at least (ReadersInOrder).
THEOREM ReadersAreRight == Spec => []ReadersInOrder
<1>1. ASSUME IInv PROVE ReadersInOrder
    <2> SUFFICES ASSUME NEW r \in Readers, iter[r] # NoIter
                 PROVE  /\ Len(iter[r].seen) <= Len(kids[iter[r].of])
                        /\ \A i \in DOMAIN iter[r].seen : iter[r].seen[i] = kids[iter[r].of][i]
                        /\ iter[r].next = UNDEF => Len(iter[r].seen) >= iter[r].had
        BY DEF ReadersInOrder
    <2>1. IterInv(r) /\ iter[r].of # UNDEF /\ iter[r].seen \in Seq(Nodes)
        BY <1>1 DEF IInv, ReadInv, IterInv, AllTyped, IterType
    <2>2. DOMAIN iter[r].seen = 1 .. Len(iter[r].seen)
        BY <2>1, LenProperties
    <2> QED BY <2>1, <2>2 DEF IterInv
<1> QED BY <1>1, InductiveInv, PTL

\* A node of the tree keeps the name and the value it was inserted with (TextsStay).
THEOREM TextsAreKept == Spec => []TextsStay
<1>1. ASSUME IInv PROVE TextsStay
    <2>1. linked \subseteq Nodes /\ TextInv
        BY <1>1 DEF IInv, AllTyped, TypeOK
    <2> QED BY <2>1 DEF TextsStay, Named, TextInv, TextOf, WordOf
<1> QED BY <1>1, InductiveInv, PTL

\* Of a set with at most one element.
LEMMA AtMostOne ==
    ASSUME NEW S, \A x, y \in S : x = y
    PROVE  Cardinality(S) = IF S = {} THEN 0 ELSE 1
<1>1. CASE S = {}
    BY <1>1, FS_EmptySet
<1>2. CASE S # {}
    <2>1. PICK x \in S : TRUE
        BY <1>2
    <2>2. S = {x}
        BY <2>1
    <2> QED BY <1>2, <2>2, FS_Singleton
<1> QED BY <1>1, <1>2

\* Lists of attributes end and share no attribute, whatever copies are given to
\* cell_add_attribute (AttrLists).
THEOREM AttrListsAreRight == Spec => []AttrLists
<1>1. ASSUME IInv PROVE AttrLists
    <2> SUFFICES ASSUME NEW a \in Attrs
                 PROVE  /\ attr[a].next # UNDEF => attr[a].next > a
                        /\ Cardinality({n \in Nodes : node[n].attrs = a})
                             + Cardinality({b \in Attrs : attr[b].next = a}) <= 1
        BY DEF AttrLists
    <2> DEFINE N == {n \in Nodes : node[n].attrs = a}
               B == {b \in Attrs : attr[b].next = a}
    <2>1. LinksOK /\ a # UNDEF
        BY <1>1 DEF IInv, AttrInv, Attrs, UNDEF
    <2>2. /\ \A x, y \in N : x = y
          /\ \A x, y \in B : x = y
          /\ N = {} \/ B = {}
        BY <2>1 DEF LinksOK
    <2>3. Cardinality(N) = IF N = {} THEN 0 ELSE 1
        BY <2>2, AtMostOne
    <2>4. Cardinality(B) = IF B = {} THEN 0 ELSE 1
        BY <2>2, AtMostOne
    <2>5. Cardinality(N) + Cardinality(B) <= 1
        BY <2>2, <2>3, <2>4
    <2> QED BY <2>1, <2>5 DEF LinksOK
<1> QED BY <1>1, InductiveInv, PTL
-------------------------------------------------------------------------------
(* NodeTree implements Tree.                                               *)

\* Two lists along the same links agree as far as the first one goes.  Along the
\* links, because a place where they do not would have a first one.
LEMMA SameSiblings ==
    ASSUME NEW p, NEW s \in Seq(Nodes), NEW t \in Seq(Nodes), IsListOf(s, p), IsListOf(t, p)
    PROVE  \A i \in 1 .. Len(s) : i \in 1 .. Len(t) /\ s[i] = t[i]
<1>a. /\ Len(s) \in Nat /\ DOMAIN s = 1 .. Len(s) /\ \A i \in 1 .. Len(s) : s[i] \in Nodes
      /\ Len(t) \in Nat /\ DOMAIN t = 1 .. Len(t)
      /\ UNDEF \notin Nodes
    <2>1. \A i \in 1 .. Len(s) : s[i] \in Nodes
        BY ElementOfSeq
    <2> QED BY <2>1, LenProperties DEF UNDEF, Nodes
<1> DEFINE Bad == {i \in 1 .. Len(s) : ~(i \in 1 .. Len(t) /\ s[i] = t[i])}
<1> SUFFICES ASSUME Bad # {} PROVE FALSE
    OBVIOUS
<1>1. PICK x \in Bad : \A y \in Bad : ~(<<y, x>> \in OpToRel(<, Nat))
    <2>1. Bad \subseteq Nat
        BY <1>a
    <2> HIDE DEF Bad
    <2> QED BY <2>1, NatLessThanWellFounded, WFMin
<1>2. x \in 1 .. Len(s) /\ x \in Nat
    BY <1>a
<1>3. ASSUME NEW y \in 1 .. Len(s), y < x PROVE y \in 1 .. Len(t) /\ s[y] = t[y]
    <2>1. y \in Nat
        BY <1>a
    <2>2. <<y, x>> \in OpToRel(<, Nat)
        BY <1>2, <1>3, <2>1 DEF OpToRel
    <2> QED BY <1>1, <2>2
<1>4. CASE x = 1
    <2>1. s # << >> /\ IsListOf(s, p)
        BY <1>2, <1>4, <1>a
    <2>2. node[p].children = s[1] /\ s[1] \in Nodes
        BY <1>2, <1>4, <1>a, <2>1 DEF IsListOf
    <2>3. t # << >> /\ node[p].children = t[1]
        BY <2>2, <1>a DEF IsListOf
    <2>4. 1 \in 1 .. Len(t)
        BY <2>3, <1>a
    <2> QED BY <1>4, <2>2, <2>3, <2>4
<1>5. CASE x # 1
    <2>1. PICK y \in 1 .. Len(s) : x = y + 1
        <3>1. x - 1 \in 1 .. Len(s) /\ x = (x - 1) + 1
            BY <1>2, <1>5, <1>a
        <3> QED BY <3>1
    <2>2. y \in Nat /\ y < x /\ y # Len(s) /\ y + 1 \in 1 .. Len(s)
        <3>1. y \in Nat /\ x <= Len(s) /\ Len(s) \in Nat
            BY <1>2, <1>a
        <3> HIDE DEF Bad
        <3> QED BY <1>2, <2>1, <3>1
    <2>3. y \in 1 .. Len(t) /\ s[y] = t[y]
        BY <1>3, <2>2
    <2>4. node[s[y]].next = s[y + 1] /\ s[y + 1] \in Nodes
        BY <2>2, <1>a DEF IsListOf
    <2>5. y # Len(t) /\ node[t[y]].next = t[y + 1]
        BY <2>3, <2>4, <1>a DEF IsListOf
    <2>6. y + 1 \in 1 .. Len(t)
        <3>1. Len(t) \in Nat /\ y <= Len(t)
            BY <2>3, <1>a
        <3> QED BY <2>2, <2>5, <3>1
    <2> QED BY <2>1, <2>3, <2>4, <2>5, <2>6
<1> QED BY <1>4, <1>5

\* So the links tell one list.
LEMMA OneList ==
    ASSUME NEW p, NEW s \in Seq(Nodes), NEW t \in Seq(Nodes), IsListOf(s, p), IsListOf(t, p)
    PROVE  s = t
<1>1. /\ \A i \in 1 .. Len(s) : i \in 1 .. Len(t) /\ s[i] = t[i]
      /\ \A i \in 1 .. Len(t) : i \in 1 .. Len(s)
    BY SameSiblings
<1>2. Len(s) \in Nat /\ Len(t) \in Nat
    BY LenProperties
<1>3. Len(s) = Len(t)
    <2>1. Len(s) # 0 => Len(s) \in 1 .. Len(s)
        BY <1>2
    <2>2. Len(t) # 0 => Len(t) \in 1 .. Len(t)
        BY <1>2
    <2> QED BY <1>1, <1>2, <2>1, <2>2
<1> QED BY <1>1, <1>3, SeqEqual

\* What a reader of the file finds is what was linked.
LEMMA FileIsKids ==
    ASSUME IInv
    PROVE  KidsInFile = kids
<1>1. ASSUME NEW p \in Nodes PROVE ListInFile(p) = kids[p]
    <2>1. IsListOf(kids[p], p) /\ kids[p] \in NodeLists /\ kids[p] \in Seq(Nodes)
        BY KidsFit, KidsAreNodes DEF IInv, TreeInv, TreeInFile
    <2>2. NodeLists \subseteq Seq(Nodes)
        BY DEF NodeLists
    <2>3. ListInFile(p) \in NodeLists /\ IsListOf(ListInFile(p), p)
        BY <2>1 DEF ListInFile
    <2> QED BY <2>1, <2>2, <2>3, OneList
<1>2. kids = [p \in Nodes |-> kids[p]]
    BY DEF IInv, AllTyped
<1> QED BY <1>1, <1>2 DEF KidsInFile

\* The objects of the tree are those that were linked.
LEMMA InTreeIsLinked ==
    ASSUME IInv
    PROVE  FileTree!InTree(kids) = linked
<1>1. TreeShape /\ linked \subseteq Nodes
    BY DEF IInv, TreeInv, AllTyped, TypeOK
<1>2. ASSUME NEW n \in FileTree!InTree(kids) PROVE n \in linked
    BY <1>1 DEF FileTree!InTree, FileTree!ToSet, TreeShape
<1>3. ASSUME NEW n \in linked PROVE n \in FileTree!InTree(kids)
    <2>1. CASE n = ROOT
        BY <2>1 DEF FileTree!InTree
    <2>2. CASE n # ROOT
        <3>1. PICK p \in Nodes : \E i \in DOMAIN kids[p] : kids[p][i] = n
            BY <1>1, <2>2 DEF TreeShape
        <3>2. n \in FileTree!ToSet(kids[p])
            BY <3>1 DEF FileTree!ToSet
        <3> QED BY <3>2 DEF FileTree!InTree
    <2> QED BY <2>1, <2>2
<1> QED BY <1>2, <1>3

\* Read from the file alone, the tree grows by one object at a time at the end of a
\* list: cells_add_child is atomic, to a reader and to a crash, although it stores
\* twice and walks in between (ImplementsTree).
THEOREM FileImplementsTree == Spec => ImplementsTree
<1>1. ASSUME Init PROVE FileTree!TreeInit
    <2>1. KidsInFile = kids
        BY <1>1, InitIInv, FileIsKids
    <2> QED BY <1>1, <2>1 DEF Init, FileTree!TreeInit
<1>a. IInv => KidsInFile = kids
    BY FileIsKids
<1>b. IInv' => (KidsInFile = kids)'
    BY <1>a, PTL
<1>2. ASSUME IInv, [Next]_vars PROVE [FileTree!TreeNext]_KidsInFile
    <2>1. KidsInFile = kids
        BY <1>2, FileIsKids
    <2>2. KidsInFile' = kids'
        <3>1. IInv'
            BY <1>2, NextIInv
        <3> QED BY <3>1, <1>b
    <2>3. CASE LinkChild
        <3>1. /\ call.p \in linked /\ call.n \in Nodes \ linked
              /\ kids' = [kids EXCEPT ![call.p] = Append(kids[call.p], call.n)]
            BY <1>2, <2>3, LinkStores
        <3>2. FileTree!InTree(kids) = linked
            BY <1>2, InTreeIsLinked
        <3> QED BY <2>1, <2>2, <3>1, <3>2 DEF FileTree!TreeNext, FileTree!Link
    <2>4. CASE Next /\ ~LinkChild
        BY <1>2, <2>1, <2>2, <2>4, OtherStores
    <2>5. CASE UNCHANGED vars
        BY <2>1, <2>2, <2>5 DEF vars, history
    <2> QED BY <1>2, <2>3, <2>4, <2>5
<1> QED BY <1>1, <1>2, InductiveInv, PTL DEF Spec, ImplementsTree, FileTree!TreeSpec
===============================================================================
