--------------------------- MODULE QueryResultsProofs ---------------------------
(***************************************************************************)
(* Proof that a query returns what it means, for every tree, however it    *)
(* grows, and every query of levels that work.                             *)
(*                                                                         *)
(* The objects the levels stand on are a way into the tree.  It divides    *)
(* the ways the query means: those it has passed were returned, and in     *)
(* order; those of the tree the query was applied to that were not         *)
(* returned are ahead.  A step of an iterator moves the place where they   *)
(* are divided past one object; a level that is pushed goes to the first   *)
(* way ahead, and one that is popped has none ahead.                       *)
(***************************************************************************)
EXTENDS QueryProofs

\* Lists: no object twice; T begins with S; x is earlier in T than y.
Distinct(T) == \A i, j \in DOMAIN T : T[i] = T[j] => i = j
Begins(S, T) == \A i \in DOMAIN S : i \in DOMAIN T /\ T[i] = S[i]
Earlier(T, x, y) == \E a, b \in DOMAIN T : a < b /\ T[a] = x /\ T[b] = y

\* Of an iterator over T that stands on x, or has not begun: it has y ahead; it
\* goes on to y; it has ended, for good if the list was S and has grown to T.
Left(T, x, y) == IF x = None THEN y \in ToSet(T) ELSE Earlier(T, x, y)
Follows(T, x, y) ==
    IF x = None THEN T # << >> /\ T[1] = y
    ELSE \E a \in DOMAIN T : T[a] = x /\ a + 1 \in DOMAIN T /\ T[a + 1] = y
Ended(S, T, x) ==
    IF x = None THEN S = << >> ELSE \E a \in DOMAIN T : T[a] = x /\ Len(S) <= a

\* Trees: no object is a child twice; L has what K has, in the same places.
Ordered(K) == \A p, r \in Nodes : \A i \in DOMAIN K[p], j \in DOMAIN K[r] :
                  K[p][i] = K[r][j] => p = r /\ i = j
Grown(K, L) == \A p \in Nodes : Begins(K[p], L[p])

\* Of query q on tree K, with the objects o that the levels stand on: the list
\* level h walks through; the ways that are passed and those that are ahead.
\* done: the object the top level stands on has been dealt with.
Here(K, q, o, h) == IF h = 1 THEN <<Root>> ELSE Targets(K, q[h - 1], o[h - 1])

Agree(o, w, h) == \A j \in 1 .. h : w[j] = o[j]

Passed(K, q, o, done, w) ==
    \/ \E h \in DOMAIN o : Agree(o, w, h - 1) /\ Earlier(Here(K, q, o, h), w[h], o[h])
    \/ done /\ Agree(o, w, Len(o))

Ahead(K, q, o, done, w) ==
    \/ \E h \in DOMAIN o : Agree(o, w, h - 1) /\ Left(Here(K, q, o, h), o[h], w[h])
    \/ ~done /\ Agree(o, w, Len(o))

\* Every level stands on an object of its list, and goes on from there to m.
Standing(S, K, q, o, m) ==
    /\ Len(o) <= Len(q) + 1
    /\ \A h \in DOMAIN o :
          /\ h # Len(o) => o[h] # None
          /\ o[h] # None => o[h] \in ToSet(Here(K, q, o, h))
          /\ m[h] # None => Follows(Here(K, q, o, h), o[h], m[h])
          /\ m[h] = None => Ended(Here(S, q, o, h), Here(K, q, o, h), o[h])

\* What was returned from K, which was S when the query began.
Sound(K, q, o, done, R) ==
    \A i \in DOMAIN R : R[i] \in Ways(K, q) /\ Passed(K, q, o, done, R[i])
InOrder(K, q, R) ==
    \A i, j \in DOMAIN R : i < j => Before(K, q, R[i], R[j])
Complete(S, K, q, o, done, R) ==
    \A w \in Ways(S, q) : w \in ToSet(R) \/ Ahead(K, q, o, done, w)

\* The levels from the bottom of the stack: where each stands and what is next.
LevelAt(st, h) == st[Len(st) + 1 - h]
On(l, cp) == IF l.it.cur = NoCopy THEN None ELSE cp[l.it.cur].n
Coming(l, cp) ==
    IF l.it.kind # "items" THEN l.it.next
    ELSE IF l.it.items = << >> THEN None ELSE cp[Head(l.it.items)].n
Ons(st, cp) == [h \in 1 .. Len(st) |-> On(LevelAt(st, h), cp)]
Comings(st, cp) == [h \in 1 .. Len(st) |-> Coming(LevelAt(st, h), cp)]

\* Level h has the levels of the query that follow it, and the iterator the level
\* before it calls for.
Single == {"T_CONDITION", "T_PARENT"}
LevelOK(l, q, h) ==
    /\ l.step = SubSeq(q, h, Len(q))
    /\ \/ l.it.kind = "items" /\ Len(l.it.items) <= 1 /\ (h = 1 \/ q[h - 1].op \in Single)
       \/ l.it.kind = "children" /\ h # 1 /\ q[h - 1].op = "T_IMM_CHILDREN"
Shaped(st, q) == \A h \in 1 .. Len(st) : LevelOK(LevelAt(st, h), q, h)

\* What a copy knows of the first child was true when the query began or is now.
CopiesKnow(S, K, cp) ==
    \A c \in DOMAIN cp :
        /\ cp[c].first = None => S[cp[c].n] = << >>
        /\ cp[c].first # None => K[cp[c].n] # << >> /\ K[cp[c].n][1] = cp[c].first

Grows ==
    /\ Ordered(kids) /\ Grown(start, kids)
    /\ CopiesKnow(start, kids, copies)
    /\ pc = "none" => returned = << >>

Walks ==
    /\ pc # "wild"
    /\ pc = "over" => stack = << >>
    /\ Shaped(stack, query)
    /\ Standing(start, kids, query, Ons(stack, copies), Comings(stack, copies))
    /\ Sound(kids, query, Ons(stack, copies), pc # "handle", returned)
    /\ InOrder(kids, query, returned)
    /\ Complete(start, kids, query, Ons(stack, copies), pc # "handle", returned)

RInv == IInv /\ Grows /\ (query \in Regular /\ pc # "none" => Walks)
-------------------------------------------------------------------------------
(* Lists.                                                                  *)

LEMMA Places ==
    ASSUME NEW S, NEW s \in Seq(S)
    PROVE  /\ Len(s) \in Nat /\ DOMAIN s = 1 .. Len(s) /\ DOMAIN s \subseteq Nat
           /\ \A i \in DOMAIN s : s[i] \in S
           /\ s # << >> => 1 \in DOMAIN s /\ Len(s) >= 1
           /\ s = << >> => DOMAIN s = {}
OBVIOUS

\* A list that begins with another one is not shorter.
LEMMA BeginsLonger ==
    ASSUME NEW Z, NEW S \in Seq(Z), NEW T \in Seq(Z), Begins(S, T)
    PROVE  Len(S) <= Len(T)
<1>1. /\ Len(S) \in Nat /\ DOMAIN S = 1 .. Len(S)
      /\ Len(T) \in Nat /\ DOMAIN T = 1 .. Len(T)
    BY Places
<1>2. CASE Len(S) = 0
    BY <1>1, <1>2
<1>3. CASE Len(S) # 0
    <2>1. Len(S) \in DOMAIN S
        BY <1>1, <1>3
    <2>2. Len(S) \in DOMAIN T
        BY <2>1 DEF Begins
    <2> QED BY <1>1, <2>2
<1> QED BY <1>2, <1>3

\* An iterator that goes on to y has that behind it which was behind it or which it
\* stood on, and ahead of it what was ahead but y.
LEMMA FollowsEarlier ==
    ASSUME NEW T \in Seq(Nodes), Distinct(T), NEW x \in Nodes \cup {None}, NEW y,
           NEW z \in Nodes, Follows(T, x, y), z = x \/ Earlier(T, z, x)
    PROVE  Earlier(T, z, y)
<1>1. DOMAIN T \subseteq Nat /\ \A i \in DOMAIN T : T[i] \in Nodes
    BY Places
<1>2. x # None
    BY <1>1, TreeConstants DEF Earlier
<1>3. PICK a \in DOMAIN T : T[a] = x /\ a + 1 \in DOMAIN T /\ T[a + 1] = y
    BY <1>2 DEF Follows
<1>4. CASE z = x
    BY <1>1, <1>3, <1>4 DEF Earlier
<1>5. CASE Earlier(T, z, x)
    <2>1. PICK i, j \in DOMAIN T : i < j /\ T[i] = z /\ T[j] = x
        BY <1>5 DEF Earlier
    <2>2. j = a
        BY <1>3, <2>1 DEF Distinct
    <2>3. i < a + 1
        BY <1>1, <2>1, <2>2
    <2> QED BY <1>3, <2>1, <2>3 DEF Earlier
<1> QED BY <1>4, <1>5

LEMMA FollowsLeft ==
    ASSUME NEW T \in Seq(Nodes), Distinct(T), NEW x \in Nodes \cup {None}, NEW y \in Nodes,
           NEW z, Follows(T, x, y), Left(T, x, z)
    PROVE  z = y \/ Left(T, y, z)
<1>1. /\ DOMAIN T \subseteq Nat /\ DOMAIN T = 1 .. Len(T) /\ Len(T) \in Nat
      /\ T # << >> => 1 \in DOMAIN T
    BY Places
<1>2. y # None
    BY TreeConstants
<1>3. CASE x = None
    <2>1. PICK b \in DOMAIN T : T[b] = z
        BY <1>3 DEF Left, ToSet
    <2>2. 1 \in DOMAIN T /\ T[1] = y
        BY <1>1, <1>3 DEF Follows
    <2>3. b = 1 \/ 1 < b
        BY <1>1, <2>1
    <2> QED BY <1>2, <2>1, <2>2, <2>3 DEF Left, Earlier
<1>4. CASE x # None
    <2>1. PICK a \in DOMAIN T : T[a] = x /\ a + 1 \in DOMAIN T /\ T[a + 1] = y
        BY <1>4 DEF Follows
    <2>2. PICK i, j \in DOMAIN T : i < j /\ T[i] = x /\ T[j] = z
        BY <1>4 DEF Left, Earlier
    <2>3. i = a
        BY <2>1, <2>2 DEF Distinct
    <2>4. j = a + 1 \/ a + 1 < j
        BY <1>1, <2>1, <2>2, <2>3
    <2> QED BY <1>2, <2>1, <2>2, <2>4 DEF Left, Earlier
<1> QED BY <1>3, <1>4

\* ... it goes on to an object of the list.
LEMMA FollowsIn ==
    ASSUME NEW T \in Seq(Nodes), NEW x, NEW y, Follows(T, x, y)
    PROVE  y \in ToSet(T) /\ y \in Nodes
BY Places DEF Follows, ToSet

\* An iterator that has ended has nothing ahead that was there when it began.
LEMMA EndedLeft ==
    ASSUME NEW S \in Seq(Nodes), NEW T \in Seq(Nodes), Distinct(T), Begins(S, T),
           NEW x, NEW z \in ToSet(S), Ended(S, T, x)
    PROVE  ~Left(T, x, z)
<1>1. /\ DOMAIN T \subseteq Nat /\ DOMAIN S = 1 .. Len(S) /\ Len(S) \in Nat
      /\ S # << >>
    BY Places DEF ToSet
<1>2. PICK c \in DOMAIN S : S[c] = z
    BY DEF ToSet
<1>3. c \in DOMAIN T /\ T[c] = z
    BY <1>2 DEF Begins
<1>4. x # None
    BY <1>1 DEF Ended
<1>5. PICK a \in DOMAIN T : T[a] = x /\ Len(S) <= a
    BY <1>4 DEF Ended
<1> SUFFICES ASSUME Earlier(T, x, z) PROVE FALSE
    BY <1>4 DEF Left
<1>6. PICK i, j \in DOMAIN T : i < j /\ T[i] = x /\ T[j] = z
    BY DEF Earlier
<1>7. i = a /\ j = c
    BY <1>3, <1>5, <1>6 DEF Distinct
<1> QED BY <1>1, <1>2, <1>5, <1>6, <1>7

\* What is so of a list stays so when it grows.
LEMMA Growing ==
    ASSUME NEW T \in Seq(Nodes), NEW U \in Seq(Nodes), Begins(T, U)
    PROVE  /\ \A x, y : Earlier(T, x, y) => Earlier(U, x, y)
           /\ \A x, y : Left(T, x, y) => Left(U, x, y)
           /\ \A x, y : Follows(T, x, y) => Follows(U, x, y)
           /\ \A S, x : Ended(S, T, x) => Ended(S, U, x)
           /\ ToSet(T) \subseteq ToSet(U)
<1>1. \A x, y : Earlier(T, x, y) => Earlier(U, x, y)
    BY DEF Earlier, Begins
<1>2. ToSet(T) \subseteq ToSet(U)
    BY DEF Begins, ToSet
<1>3. \A x, y : Left(T, x, y) => Left(U, x, y)
    BY <1>1, <1>2 DEF Left
<1>4. T # << >> => U # << >> /\ U[1] = T[1]
    BY Places DEF Begins
<1>5. \A x, y : Follows(T, x, y) => Follows(U, x, y)
    BY <1>4 DEF Follows, Begins
<1>6. \A S, x : Ended(S, T, x) => Ended(S, U, x)
    BY DEF Ended, Begins
<1> QED BY <1>1, <1>2, <1>3, <1>5, <1>6
-------------------------------------------------------------------------------
(* Trees.                                                                  *)

\* The children of an object are in one list, at one place.
LEMMA ParentIs ==
    ASSUME NEW K \in [Nodes -> Seq(Nodes)], Ordered(K), NEW p \in Nodes, NEW i \in DOMAIN K[p]
    PROVE  ParentOf(K, K[p][i]) = p
<1> DEFINE n == K[p][i]
<1>1. n \in ToSet(K[p])
    BY DEF ToSet
<1>2. \A r \in Nodes : n \in ToSet(K[r]) => r = p
    BY DEF ToSet, Ordered
<1> QED BY <1>1, <1>2 DEF ParentOf

\* After a child comes the next one, or it is the last.
LEMMA NextIs ==
    ASSUME NEW K \in [Nodes -> Seq(Nodes)], Ordered(K), NEW p \in Nodes, NEW i \in DOMAIN K[p]
    PROVE  IF i = Len(K[p]) THEN NextOf(K, K[p][i]) = None
           ELSE i + 1 \in DOMAIN K[p] /\ NextOf(K, K[p][i]) = K[p][i + 1]
<1> DEFINE n == K[p][i]
           here == CHOOSE j \in DOMAIN K[p] : K[p][j] = n
<1>1. ParentOf(K, n) = p
    BY ParentIs
<1>2. here = i
    BY DEF Ordered
<1>3. /\ Len(K[p]) \in Nat /\ DOMAIN K[p] = 1 .. Len(K[p])
    BY Places
<1>4. p # None
    BY TreeConstants
<1>5. n = Last(K[p]) <=> i = Len(K[p])
    BY <1>3 DEF Last, Ordered
<1>6. NextOf(K, n) = IF n = Last(K[p]) THEN None ELSE K[p][here + 1]
    BY <1>1, <1>4 DEF NextOf
<1> HIDE DEF here, n
<1>7. i # Len(K[p]) => i + 1 \in DOMAIN K[p]
    BY <1>3
<1> QED BY <1>2, <1>5, <1>6, <1>7 DEF n


LEMMA Links ==
    ASSUME NEW K \in [Nodes -> Seq(Nodes)], Ordered(K), NEW p \in InTree(K),
           NEW n \in Nodes \ InTree(K)
    PROVE  LET L == [K EXCEPT ![p] = Append(@, n)]
           IN  L \in [Nodes -> Seq(Nodes)] /\ Ordered(L) /\ Grown(K, L)
<1> DEFINE L == [K EXCEPT ![p] = Append(@, n)]
<1>1. p \in Nodes
    BY TreeConstants DEF InTree, ToSet
<1>2. \A r \in Nodes : \A i \in DOMAIN K[r] : K[r][i] # n
    BY DEF InTree, ToSet
<1>3. \A r \in Nodes : K[r] \in Seq(Nodes) /\ L[r] = IF r = p THEN Append(K[r], n) ELSE K[r]
    BY <1>1
<1>4. /\ Append(K[p], n) \in Seq(Nodes) /\ Len(K[p]) \in Nat
      /\ DOMAIN K[p] = 1 .. Len(K[p]) /\ DOMAIN Append(K[p], n) = 1 .. Len(K[p]) + 1
      /\ Append(K[p], n)[Len(K[p]) + 1] = n
      /\ \A i \in 1 .. Len(K[p]) : Append(K[p], n)[i] = K[p][i]
    BY <1>1, <1>3, Lengthened
<1>5. L \in [Nodes -> Seq(Nodes)]
    BY <1>1, <1>3, <1>4
<1> HIDE DEF L
<1>6. ASSUME NEW r \in Nodes, NEW i \in DOMAIN L[r]
      PROVE  \/ i \in DOMAIN K[r] /\ L[r][i] = K[r][i]
             \/ r = p /\ i = Len(K[p]) + 1 /\ L[r][i] = n
    <2>1. CASE r # p
        BY <1>3, <2>1
    <2>2. CASE r = p
        <3>1. L[r] = Append(K[p], n)
            BY <1>3, <2>2
        <3>2. i \in 1 .. Len(K[p]) \/ i = Len(K[p]) + 1
            BY <1>4, <3>1
        <3> QED BY <1>4, <2>2, <3>1, <3>2
    <2> QED BY <2>1, <2>2
<1>7. Ordered(L)
    <2> SUFFICES ASSUME NEW r \in Nodes, NEW t \in Nodes,
                        NEW i \in DOMAIN L[r], NEW j \in DOMAIN L[t], L[r][i] = L[t][j]
                 PROVE  r = t /\ i = j
        BY DEF Ordered
    <2>1. CASE L[r][i] = n
        <3>1. r = p /\ i = Len(K[p]) + 1
            BY <1>2, <1>6, <2>1
        <3>2. t = p /\ j = Len(K[p]) + 1
            BY <1>2, <1>6, <2>1
        <3> QED BY <3>1, <3>2
    <2>2. CASE L[r][i] # n
        <3>1. i \in DOMAIN K[r] /\ L[r][i] = K[r][i]
            BY <1>6, <2>2
        <3>2. j \in DOMAIN K[t] /\ L[t][j] = K[t][j]
            BY <1>6, <2>2
        <3>3. K[r][i] = K[t][j]
            BY <3>1, <3>2
        <3> QED BY <3>1, <3>2, <3>3 DEF Ordered
    <2> QED BY <2>1, <2>2
<1>8. Grown(K, L)
    <2>1. ASSUME NEW r \in Nodes, NEW i \in DOMAIN K[r]
          PROVE  i \in DOMAIN L[r] /\ L[r][i] = K[r][i]
        <3>1. CASE r # p
            BY <1>3, <3>1
        <3>2. CASE r = p
            <4>1. L[r] = Append(K[p], n) /\ i \in 1 .. Len(K[p])
                BY <1>3, <1>4, <3>2
            <4>2. i \in 1 .. Len(K[p]) + 1
                BY <1>4, <4>1
            <4> QED BY <1>4, <3>2, <4>1, <4>2
        <3> QED BY <3>1, <3>2
    <2> QED BY <2>1 DEF Grown, Begins
<1> QED BY <1>5, <1>7, <1>8 DEF L

LEMMA GrownAgain ==
    ASSUME NEW J, NEW K, NEW L, Grown(J, K), Grown(K, L)
    PROVE  Grown(J, L)
BY DEF Grown, Begins

LEMMA GrownSame ==
    ASSUME NEW K
    PROVE  Grown(K, K)
BY DEF Grown, Begins

LEMMA OrderedBefore ==
    ASSUME NEW K, NEW L, Grown(K, L), Ordered(L)
    PROVE  Ordered(K)
<1> SUFFICES ASSUME NEW p \in Nodes, NEW r \in Nodes,
                    NEW i \in DOMAIN K[p], NEW j \in DOMAIN K[r], K[p][i] = K[r][j]
             PROVE  p = r /\ i = j
    BY DEF Ordered
<1>1. i \in DOMAIN L[p] /\ L[p][i] = K[p][i] /\ j \in DOMAIN L[r] /\ L[r][j] = K[r][j]
    BY DEF Grown, Begins
<1> QED BY <1>1 DEF Ordered

\* A parent stays the parent.
LEMMA ParentStays ==
    ASSUME NEW K \in [Nodes -> Seq(Nodes)], NEW L \in [Nodes -> Seq(Nodes)],
           Ordered(L), Grown(K, L), NEW n \in Nodes, ParentOf(K, n) # None
    PROVE  ParentOf(L, n) = ParentOf(K, n)
<1>1. PICK p \in Nodes : n \in ToSet(K[p])
    BY DEF ParentOf
<1>2. PICK i \in DOMAIN K[p] : K[p][i] = n
    BY <1>1 DEF ToSet
<1>3. i \in DOMAIN L[p] /\ L[p][i] = n
    BY <1>2 DEF Grown, Begins
<1>4. ParentOf(K, n) = p
    BY <1>2, ParentIs, OrderedBefore
<1>5. ParentOf(L, n) = p
    BY <1>3, ParentIs
<1> QED BY <1>4, <1>5
-------------------------------------------------------------------------------
(* What a query means.                                                     *)

Handled == {"T_CONDITION", "T_IMM_CHILDREN", "T_PARENT"}

LEMMA RegularLevels ==
    ASSUME NEW q \in Regular
    PROVE  /\ q \in Seq(Levels) /\ Len(q) \in Nat /\ DOMAIN q = 1 .. Len(q)
           /\ \A i \in DOMAIN q :
                 /\ q[i] \in Levels /\ q[i].op \in Handled
                 /\ q[i].op = "T_CONDITION" =>
                       \A n \in Nodes : Verdicts(n, q[i].cond) \in {{"true"}, {"false"}}
<1>1. q \in Seq(Levels)
    BY QueryAssumptions DEF Regular
<1> QED BY <1>1, Places DEF Regular, Handled

\* The objects a level leads to are a list of objects, each once, and one at most
\* if the level is no iterator over children.
LEMMA TargetsAre ==
    ASSUME NEW K \in [Nodes -> Seq(Nodes)], Ordered(K), NEW level, level.op \in Handled,
           NEW n \in Nodes
    PROVE  /\ Targets(K, level, n) \in Seq(Nodes) /\ Distinct(Targets(K, level, n))
           /\ level.op \in Single => Len(Targets(K, level, n)) <= 1
<1>1. << >> \in Seq(Nodes) /\ Distinct(<< >>) /\ Len(<< >>) <= 1
    BY DEF Distinct
<1>2. \A x \in Nodes : <<x>> \in Seq(Nodes) /\ Distinct(<<x>>) /\ Len(<<x>>) <= 1
    BY DEF Distinct
<1>3. CASE level.op = "T_CONDITION"
    BY <1>1, <1>2, <1>3 DEF Targets
<1>4. CASE level.op = "T_IMM_CHILDREN"
    <2>1. Targets(K, level, n) = K[n]
        BY <1>4 DEF Targets
    <2> QED BY <1>4, <2>1 DEF Distinct, Ordered, Single
<1>5. CASE level.op = "T_PARENT"
    <2>1. Targets(K, level, n) = IF ParentOf(K, n) = None THEN << >> ELSE <<ParentOf(K, n)>>
        BY <1>5 DEF Targets
    <2>2. ParentOf(K, n) # None => ParentOf(K, n) \in Nodes
        BY LinksAreNodes
    <2> QED BY <1>1, <1>2, <2>1, <2>2
<1> QED BY <1>3, <1>4, <1>5 DEF Handled

LEMMA TargetsGrow ==
    ASSUME NEW K \in [Nodes -> Seq(Nodes)], NEW L \in [Nodes -> Seq(Nodes)],
           Ordered(L), Grown(K, L), NEW level, level.op \in Handled, NEW n \in Nodes
    PROVE  Begins(Targets(K, level, n), Targets(L, level, n))
<1>1. CASE level.op = "T_CONDITION"
    BY <1>1 DEF Targets, Begins
<1>2. CASE level.op = "T_IMM_CHILDREN"
    BY <1>2 DEF Targets, Grown
<1>3. CASE level.op = "T_PARENT"
    <2>1. CASE ParentOf(K, n) = None
        BY <1>3, <2>1 DEF Targets, Begins
    <2>2. CASE ParentOf(K, n) # None
        BY <1>3, <2>2, ParentStays DEF Targets, Begins
    <2> QED BY <2>1, <2>2
<1> QED BY <1>1, <1>2, <1>3 DEF Handled

\* Level h, whose level below stands on an object.
IsLevel(q, o, h) == h = 1 \/ (h - 1 \in DOMAIN q /\ o[h - 1] \in Nodes)

LEMMA HereIs ==
    ASSUME NEW q \in Regular, NEW K \in [Nodes -> Seq(Nodes)], Ordered(K), NEW o, NEW h,
           IsLevel(q, o, h)
    PROVE  /\ Here(K, q, o, h) \in Seq(Nodes) /\ Distinct(Here(K, q, o, h))
           /\ (h = 1 \/ q[h - 1].op \in Single) => Len(Here(K, q, o, h)) <= 1
<1>1. CASE h = 1
    <2>1. <<Root>> \in Seq(Nodes) /\ Distinct(<<Root>>) /\ Len(<<Root>>) <= 1
        BY TreeConstants DEF Distinct
    <2> QED BY <1>1, <2>1 DEF Here
<1>2. CASE h # 1
    BY <1>2, RegularLevels, TargetsAre DEF Here, IsLevel
<1> QED BY <1>1, <1>2

LEMMA HereGrows ==
    ASSUME NEW q \in Regular, NEW K \in [Nodes -> Seq(Nodes)], NEW L \in [Nodes -> Seq(Nodes)],
           Ordered(L), Grown(K, L), NEW o, NEW h, IsLevel(q, o, h)
    PROVE  Begins(Here(K, q, o, h), Here(L, q, o, h))
<1>1. CASE h = 1
    BY <1>1 DEF Here, Begins
<1>2. CASE h # 1
    BY <1>2, RegularLevels, TargetsGrow DEF Here, IsLevel
<1> QED BY <1>1, <1>2
-------------------------------------------------------------------------------
(* How a step divides the ways that are passed from those ahead.           *)

Objects == Nodes \cup {None}
WaysOf(q) == [1 .. Len(q) + 1 -> Nodes]

\* Levels below level h, of l of them.
LEMMA LevelsBelow ==
    ASSUME NEW l \in Nat, NEW h \in 1 .. l
    PROVE  /\ \A j \in 1 .. h - 1 : j \in 1 .. l /\ j # l
           /\ h # 1 => h - 1 \in 1 .. h - 1 /\ h - 1 \in 1 .. l - 1 /\ h - 1 # l /\ (h - 1) + 1 = h
           /\ (h = l \/ h \in 1 .. l - 1)
OBVIOUS

LEMMA LevelsOfQuery ==
    ASSUME NEW l \in Nat, NEW k \in Nat, l <= k + 1, NEW h \in 1 .. l
    PROVE  h \in 1 .. k + 1 /\ (h # 1 => h - 1 \in 1 .. k /\ h - 1 \in 1 .. l /\ h - 1 # l)
OBVIOUS

LEMMA HereLocal ==
    ASSUME NEW K, NEW q, NEW o, NEW p, NEW h, h # 1 => o[h - 1] = p[h - 1]
    PROVE  Here(K, q, o, h) = Here(K, q, p, h)
BY DEF Here

\* The levels of a stack have lists to walk through.
LEMMA LevelsAre ==
    ASSUME NEW q \in Regular, NEW S, NEW K, NEW o \in Seq(Objects), NEW m, Standing(S, K, q, o, m)
    PROVE  /\ \A h \in DOMAIN o : IsLevel(q, o, h)
           /\ o # << >> /\ Len(o) <= Len(q) /\ o[Len(o)] # None => IsLevel(q, o, Len(o) + 1)
<1>1. /\ Len(o) \in Nat /\ DOMAIN o = 1 .. Len(o) /\ Len(q) \in Nat /\ DOMAIN q = 1 .. Len(q)
      /\ Len(o) <= Len(q) + 1 /\ (o # << >> => Len(o) >= 1)
      /\ \A h \in DOMAIN o : o[h] \in Objects /\ (h # Len(o) => o[h] # None)
    BY RegularLevels, Places DEF Standing
<1>2. ASSUME NEW h \in DOMAIN o, h # 1
      PROVE  h - 1 \in DOMAIN q /\ h - 1 \in DOMAIN o /\ h - 1 # Len(o)
    <2>1. /\ h \in 1 .. Len(o) /\ Len(o) \in Nat /\ Len(q) \in Nat
          /\ Len(o) <= Len(q) + 1
        BY <1>1
    <2>2. h - 1 \in 1 .. Len(q) /\ h - 1 \in 1 .. Len(o) /\ h - 1 # Len(o)
        BY <1>2, <2>1, LevelsOfQuery
    <2> QED BY <1>1, <2>2
<1>3. \A h \in DOMAIN o : IsLevel(q, o, h)
    <2>1. ASSUME NEW h \in DOMAIN o, h # 1 PROVE o[h - 1] \in Nodes
        <3>1. o[h - 1] \in Nodes \cup {None} /\ o[h - 1] # None
            BY <1>1, <1>2, <2>1 DEF Objects
        <3> QED BY <3>1
    <2>2. ASSUME NEW h \in DOMAIN o PROVE IsLevel(q, o, h)
        <3>1. CASE h = 1
            BY <3>1 DEF IsLevel
        <3>2. CASE h # 1
            <4>1. h - 1 \in DOMAIN q /\ o[h - 1] \in Nodes
                BY <1>2, <2>1, <3>2
            <4> QED BY <4>1 DEF IsLevel
        <3> QED BY <3>1, <3>2
    <2> QED BY <2>2
<1>4. ASSUME o # << >>, Len(o) <= Len(q), o[Len(o)] # None
      PROVE  IsLevel(q, o, Len(o) + 1)
    <2>1. Len(o) \in DOMAIN o /\ Len(o) \in DOMAIN q /\ Len(o) + 1 - 1 = Len(o)
        BY <1>1, <1>4
    <2>2. o[Len(o)] \in Nodes
        BY <1>1, <1>4, <2>1 DEF Objects
    <2> QED BY <2>1, <2>2 DEF IsLevel
<1> QED BY <1>3, <1>4

\* A way of the query goes on to an object the level leads to.
LEMMA WayIn ==
    ASSUME NEW q \in Regular, NEW K, NEW w \in Ways(K, q), NEW o,
           NEW h \in 1 .. Len(q) + 1, Agree(o, w, h - 1)
    PROVE  w[h] \in ToSet(Here(K, q, o, h))
<1>1. Len(q) \in Nat /\ DOMAIN q = 1 .. Len(q)
    BY RegularLevels
<1>2. CASE h = 1
    BY <1>2 DEF Ways, Here, ToSet
<1>3. CASE h # 1
    <2>1. h - 1 \in DOMAIN q /\ h - 1 \in 1 .. h - 1 /\ (h - 1) + 1 = h
        BY <1>1, <1>3
    <2>2. w[h - 1] = o[h - 1]
        BY <2>1 DEF Agree
    <2>3. w[h] \in ToSet(Targets(K, q[h - 1], w[h - 1]))
        BY <2>1 DEF Ways
    <2> QED BY <1>3, <2>2, <2>3 DEF Here
<1> QED BY <1>2, <1>3

\* The iterator on top goes on to an object.
LEMMA AdvanceDivides ==
    ASSUME NEW q \in Regular, NEW K \in [Nodes -> Seq(Nodes)], Ordered(K),
           NEW o \in Seq(Objects), NEW p \in Seq(Objects), o # << >>, Len(p) = Len(o),
           Len(o) <= Len(q) + 1, IsLevel(q, o, Len(o)),
           \A h \in DOMAIN o : h # Len(o) => p[h] = o[h], p[Len(o)] \in Nodes,
           Follows(Here(K, q, o, Len(o)), o[Len(o)], p[Len(o)]),
           NEW w \in WaysOf(q)
    PROVE  /\ Passed(K, q, o, TRUE, w) => Passed(K, q, p, FALSE, w)
           /\ Ahead(K, q, o, TRUE, w) => Ahead(K, q, p, FALSE, w)
<1> DEFINE l == Len(o)
           T == Here(K, q, o, l)
<1>1. /\ l \in Nat /\ l >= 1 /\ DOMAIN o = 1 .. l /\ DOMAIN p = 1 .. l /\ l \in DOMAIN o
      /\ o[l] \in Nodes \cup {None} /\ Len(q) \in Nat
    BY RegularLevels, Places DEF Objects
<1>2. T \in Seq(Nodes) /\ Distinct(T)
    BY HereIs
<1>3. \A h \in 1 .. l : \A j \in 1 .. h - 1 : j \in DOMAIN o /\ j # l
    BY <1>1, LevelsBelow
<1>4. \A h \in 1 .. l : Agree(o, w, h - 1) <=> Agree(p, w, h - 1)
    BY <1>3 DEF Agree
<1>5. ASSUME NEW h \in 1 .. l PROVE Here(K, q, o, h) = Here(K, q, p, h)
    <2>1. h # 1 => h - 1 \in 1 .. h - 1
        BY <1>1, LevelsBelow
    <2>2. h # 1 => o[h - 1] = p[h - 1]
        BY <1>3, <2>1
    <2> QED BY <2>2, HereLocal
<1>6. w[l] \in Nodes
    <2>1. l \in 1 .. Len(q) + 1
        BY <1>1
    <2> QED BY <2>1 DEF WaysOf
<1>7. Agree(o, w, l) => w[l] = o[l] /\ Agree(o, w, l - 1)
    BY <1>1 DEF Agree
<1>8. w[l] = p[l] /\ Agree(p, w, l - 1) => Agree(p, w, l)
    <2>1. \A j \in 1 .. l : j = l \/ j \in 1 .. l - 1
        BY <1>1, LevelsBelow
    <2> QED BY <2>1 DEF Agree
<1> HIDE DEF T
<1>9. ASSUME Passed(K, q, o, TRUE, w) PROVE Passed(K, q, p, FALSE, w)
    <2>1. CASE \E h \in DOMAIN o : Agree(o, w, h - 1) /\ Earlier(Here(K, q, o, h), w[h], o[h])
        <3>1. PICK h \in 1 .. l : Agree(o, w, h - 1) /\ Earlier(Here(K, q, o, h), w[h], o[h])
            BY <1>1, <2>1
        <3>2. CASE h # l
            BY <1>1, <1>4, <1>5, <3>1, <3>2 DEF Passed
        <3>3. CASE h = l
            <4>1. Earlier(T, w[l], p[l])
                BY <1>1, <1>2, <1>6, <3>1, <3>3, FollowsEarlier DEF T
            <4> QED BY <1>1, <1>4, <1>5, <3>1, <3>3, <4>1 DEF Passed, T
        <3> QED BY <3>2, <3>3
    <2>2. CASE Agree(o, w, l)
        <3>1. Earlier(T, w[l], p[l])
            BY <1>1, <1>2, <1>6, <1>7, <2>2, FollowsEarlier DEF T
        <3> QED BY <1>1, <1>4, <1>5, <1>7, <2>2, <3>1 DEF Passed, T
    <2> QED BY <1>9, <2>1, <2>2 DEF Passed
<1>10. ASSUME Ahead(K, q, o, TRUE, w) PROVE Ahead(K, q, p, FALSE, w)
    <2>1. PICK h \in 1 .. l : Agree(o, w, h - 1) /\ Left(Here(K, q, o, h), o[h], w[h])
        BY <1>1, <1>10 DEF Ahead
    <2>2. CASE h # l
        BY <1>1, <1>4, <1>5, <2>1, <2>2 DEF Ahead
    <2>3. CASE h = l
        <3>1. w[l] = p[l] \/ Left(T, p[l], w[l])
            BY <1>1, <1>2, <2>1, <2>3, FollowsLeft DEF T
        <3>2. CASE w[l] = p[l]
            BY <1>1, <1>4, <1>8, <2>1, <2>3, <3>2 DEF Ahead
        <3>3. CASE Left(T, p[l], w[l])
            BY <1>1, <1>4, <1>5, <2>1, <2>3, <3>3 DEF Ahead, T
        <3> QED BY <3>1, <3>2, <3>3
    <2> QED BY <2>2, <2>3
<1> QED BY <1>9, <1>10

\* The iterator on top has ended and is taken away.
LEMMA PopDivides ==
    ASSUME NEW q \in Regular, NEW K \in [Nodes -> Seq(Nodes)], Ordered(K),
           NEW S \in [Nodes -> Seq(Nodes)], Grown(S, K),
           NEW o \in Seq(Objects), NEW p \in Seq(Objects), o # << >>, Len(p) = Len(o) - 1,
           Len(o) <= Len(q) + 1, IsLevel(q, o, Len(o)),
           \A h \in DOMAIN p : p[h] = o[h],
           Ended(Here(S, q, o, Len(o)), Here(K, q, o, Len(o)), o[Len(o)]),
           NEW w \in WaysOf(q)
    PROVE  /\ Passed(K, q, o, TRUE, w) => Passed(K, q, p, TRUE, w)
           /\ w \in Ways(S, q) /\ Ahead(K, q, o, TRUE, w) => Ahead(K, q, p, TRUE, w)
<1> DEFINE l == Len(o)
           T == Here(K, q, o, l)
<1>1. /\ l \in Nat /\ l >= 1 /\ DOMAIN o = 1 .. l /\ DOMAIN p = 1 .. l - 1 /\ l \in DOMAIN o
      /\ Len(q) \in Nat /\ Len(p) = l - 1
    BY RegularLevels, Places
<1>2. T \in Seq(Nodes) /\ Distinct(T)
    BY HereIs
<1>3. /\ Here(S, q, o, l) \in Seq(Nodes) /\ Begins(Here(S, q, o, l), T)
    BY OrderedBefore, HereIs, HereGrows
<1>4. ASSUME NEW h \in 1 .. l, h # l
      PROVE  /\ h \in 1 .. l - 1 /\ p[h] = o[h] /\ Here(K, q, o, h) = Here(K, q, p, h)
             /\ Agree(o, w, h - 1) => Agree(p, w, h - 1)
    <2>1. h \in 1 .. l - 1
        BY <1>1, <1>4, LevelsBelow
    <2>2. \A j \in 1 .. h - 1 : j \in 1 .. l - 1
        BY <1>1, <2>1, LevelsBelow
    <2>3. h # 1 => h - 1 \in 1 .. l - 1
        BY <1>1, <2>1, <2>2, LevelsBelow
    <2>4. Here(K, q, o, h) = Here(K, q, p, h)
        BY <1>1, <2>3, HereLocal
    <2> QED BY <1>1, <2>1, <2>2, <2>4 DEF Agree
<1>5. Agree(o, w, l - 1) => Agree(p, w, Len(p))
    BY <1>1 DEF Agree
<1>6. Agree(o, w, l) => Agree(o, w, l - 1)
    BY <1>1 DEF Agree
<1> HIDE DEF T
<1>7. ASSUME Passed(K, q, o, TRUE, w) PROVE Passed(K, q, p, TRUE, w)
    <2>1. CASE \E h \in DOMAIN o : Agree(o, w, h - 1) /\ Earlier(Here(K, q, o, h), w[h], o[h])
        <3>1. PICK h \in 1 .. l : Agree(o, w, h - 1) /\ Earlier(Here(K, q, o, h), w[h], o[h])
            BY <1>1, <2>1
        <3>2. CASE h # l
            BY <1>1, <1>4, <3>1, <3>2 DEF Passed
        <3>3. CASE h = l
            BY <1>5, <3>1, <3>3 DEF Passed
        <3> QED BY <3>2, <3>3
    <2>2. CASE Agree(o, w, l)
        BY <1>5, <1>6, <2>2 DEF Passed
    <2> QED BY <1>7, <2>1, <2>2 DEF Passed
<1>8. ASSUME w \in Ways(S, q), Ahead(K, q, o, TRUE, w) PROVE Ahead(K, q, p, TRUE, w)
    <2>1. PICK h \in 1 .. l : Agree(o, w, h - 1) /\ Left(Here(K, q, o, h), o[h], w[h])
        BY <1>1, <1>8 DEF Ahead
    <2>2. CASE h # l
        BY <1>1, <1>4, <2>1, <2>2 DEF Ahead
    <2>3. CASE h = l
        <3>1. l \in 1 .. Len(q) + 1
            BY <1>1
        <3>2. w[l] \in ToSet(Here(S, q, o, l))
            BY <1>8, <2>1, <2>3, <3>1, WayIn
        <3>3. ~Left(T, o[l], w[l])
            BY <1>2, <1>3, <3>2, EndedLeft DEF T
        <3> QED BY <2>1, <2>3, <3>3 DEF T
    <2> QED BY <2>2, <2>3
<1> QED BY <1>7, <1>8

\* A level is pushed that has not begun.
LEMMA PushDivides ==
    ASSUME NEW q \in Regular, NEW K \in [Nodes -> Seq(Nodes)], Ordered(K),
           NEW S \in [Nodes -> Seq(Nodes)], Grown(S, K),
           NEW o \in Seq(Objects), NEW p \in Seq(Objects), Len(p) = Len(o) + 1,
           Len(p) <= Len(q) + 1, IsLevel(q, o, Len(p)),
           \A h \in DOMAIN o : p[h] = o[h], p[Len(p)] = None,
           NEW w \in WaysOf(q)
    PROVE  /\ Passed(K, q, o, FALSE, w) => Passed(K, q, p, TRUE, w)
           /\ w \in Ways(S, q) /\ Ahead(K, q, o, FALSE, w) => Ahead(K, q, p, TRUE, w)
<1> DEFINE l == Len(o)
<1>1. /\ l \in Nat /\ DOMAIN o = 1 .. l /\ DOMAIN p = 1 .. l + 1 /\ Len(p) = l + 1
      /\ Len(q) \in Nat /\ (l + 1) - 1 = l /\ l + 1 \in 1 .. l + 1
    BY RegularLevels, Places
<1>2. ASSUME NEW h \in 1 .. l + 1
      PROVE  /\ h - 1 = 0 \/ h - 1 \in 1 .. l
             /\ Here(K, q, o, h) = Here(K, q, p, h)
             /\ Agree(o, w, h - 1) => Agree(p, w, h - 1)
    <2>1. h - 1 = 0 \/ h - 1 \in 1 .. l
        BY <1>1
    <2>2. \A j \in 1 .. h - 1 : j \in 1 .. l
        BY <1>1, <2>1
    <2>3. h # 1 => h - 1 \in 1 .. l
        BY <1>1
    <2> QED BY <1>1, <2>1, <2>2, <2>3, HereLocal DEF Agree
<1>3. \A h \in 1 .. l : h \in 1 .. l + 1 /\ p[h] = o[h]
    BY <1>1
<1>4. Passed(K, q, o, FALSE, w) => Passed(K, q, p, TRUE, w)
    BY <1>1, <1>2, <1>3 DEF Passed
<1>5. ASSUME w \in Ways(S, q), Ahead(K, q, o, FALSE, w) PROVE Ahead(K, q, p, TRUE, w)
    <2>1. CASE \E h \in DOMAIN o : Agree(o, w, h - 1) /\ Left(Here(K, q, o, h), o[h], w[h])
        BY <1>1, <1>2, <1>3, <2>1 DEF Ahead
    <2>2. CASE Agree(o, w, l)
        <3>1. l + 1 \in 1 .. Len(q) + 1
            BY <1>1
        <3>2. w[l + 1] \in ToSet(Here(S, q, o, l + 1))
            BY <1>1, <1>5, <2>2, <3>1, WayIn
        <3>3. w[l + 1] \in ToSet(Here(K, q, o, l + 1))
            <4>1. /\ Here(S, q, o, l + 1) \in Seq(Nodes) /\ Here(K, q, o, l + 1) \in Seq(Nodes)
                  /\ Begins(Here(S, q, o, l + 1), Here(K, q, o, l + 1))
                BY <1>1, OrderedBefore, HereIs, HereGrows
            <4> QED BY <3>2, <4>1, Growing
        <3>4. Left(Here(K, q, p, l + 1), p[l + 1], w[l + 1])
            BY <1>1, <1>2, <3>3 DEF Left
        <3>5. Agree(p, w, (l + 1) - 1)
            BY <1>1, <1>2, <2>2
        <3> QED BY <1>1, <3>4, <3>5 DEF Ahead
    <2> QED BY <1>5, <2>1, <2>2 DEF Ahead
<1> QED BY <1>4, <1>5

\* Nothing follows from the object in hand, and the level goes on.
LEMMA SkipDivides ==
    ASSUME NEW q \in Regular, NEW K, NEW S, NEW o, Len(o) + 1 \in 1 .. Len(q) + 1,
           Len(o) \in Nat, Here(S, q, o, Len(o) + 1) = << >>, NEW w
    PROVE  /\ Passed(K, q, o, FALSE, w) => Passed(K, q, o, TRUE, w)
           /\ w \in Ways(S, q) /\ Ahead(K, q, o, FALSE, w) => Ahead(K, q, o, TRUE, w)
<1>1. Passed(K, q, o, FALSE, w) => Passed(K, q, o, TRUE, w)
    BY DEF Passed
<1>2. ASSUME w \in Ways(S, q), Agree(o, w, Len(o)) PROVE FALSE
    <2>1. (Len(o) + 1) - 1 = Len(o)
        OBVIOUS
    <2>2. w[Len(o) + 1] \in ToSet(<< >>)
        BY <1>2, <2>1, WayIn
    <2> QED BY <2>2 DEF ToSet
<1> QED BY <1>1, <1>2 DEF Ahead

\* No level follows: the objects the levels stand on are a way of the query, it
\* comes after all that are passed, and it is passed.
LEMMA ReturnDivides ==
    ASSUME NEW q \in Regular, NEW K \in [Nodes -> Seq(Nodes)], Ordered(K),
           NEW S, NEW o \in Seq(Objects), NEW m, Standing(S, K, q, o, m),
           Len(o) = Len(q) + 1, o[Len(o)] # None
    PROVE  /\ o \in Ways(K, q) /\ Passed(K, q, o, TRUE, o)
           /\ \A w \in WaysOf(q) :
                 /\ Passed(K, q, o, FALSE, w) => Passed(K, q, o, TRUE, w) /\ Before(K, q, w, o)
                 /\ Ahead(K, q, o, FALSE, w) => w = o \/ Ahead(K, q, o, TRUE, w)
<1>1. /\ Len(q) \in Nat /\ DOMAIN q = 1 .. Len(q) /\ DOMAIN o = 1 .. Len(q) + 1
      /\ \A h \in DOMAIN o : o[h] \in Nodes
    BY RegularLevels, Places DEF Standing, Objects
<1>2. o \in WaysOf(q)
    BY <1>1 DEF WaysOf
<1>3. ASSUME NEW i \in DOMAIN q
      PROVE  /\ i + 1 \in DOMAIN o /\ i + 1 # 1 /\ (i + 1) - 1 = i /\ i \in 1 .. i
             /\ Here(K, q, o, i + 1) = Targets(K, q[i], o[i])
    BY <1>1 DEF Here
<1>4. o \in Ways(K, q)
    <2>1. \A h \in DOMAIN o : o[h] \in ToSet(Here(K, q, o, h))
        BY <1>1, TreeConstants DEF Standing
    <2>2. 1 \in DOMAIN o
        BY <1>1
    <2>3. o[1] = Root
        <3>1. o[1] \in ToSet(<<Root>>)
            BY <2>1, <2>2 DEF Here
        <3> QED BY <3>1 DEF ToSet
    <2>4. \A i \in DOMAIN q : o[i + 1] \in ToSet(Targets(K, q[i], o[i]))
        BY <1>3, <2>1
    <2> QED BY <1>2, <2>3, <2>4 DEF Ways, WaysOf
<1>5. Passed(K, q, o, TRUE, o)
    BY DEF Passed, Agree
<1>6. ASSUME NEW w \in WaysOf(q), Passed(K, q, o, FALSE, w)
      PROVE  Passed(K, q, o, TRUE, w) /\ Before(K, q, w, o)
    <2>1. PICK h \in DOMAIN o : Agree(o, w, h - 1) /\ Earlier(Here(K, q, o, h), w[h], o[h])
        BY <1>6 DEF Passed
    <2>2. h # 1
        BY <2>1 DEF Here, Earlier
    <2> DEFINE i == h - 1
    <2>3. i \in DOMAIN q /\ i + 1 = h /\ i \in 1 .. i
        BY <1>1, <2>2
    <2> HIDE DEF i
    <2>4. \A j \in 1 .. i : w[j] = o[j]
        BY <2>1 DEF Agree, i
    <2>5. Earlier(Targets(K, q[i], w[i]), w[i + 1], o[i + 1])
        BY <1>3, <2>1, <2>3, <2>4
    <2> QED BY <1>6, <2>3, <2>4, <2>5 DEF Passed, Before, Earlier
<1>7. ASSUME NEW w \in WaysOf(q), Ahead(K, q, o, FALSE, w), ~Ahead(K, q, o, TRUE, w)
      PROVE  w = o
    <2>1. Agree(o, w, Len(o))
        BY <1>7 DEF Ahead
    <2> QED BY <1>1, <1>2, <2>1 DEF Agree, WaysOf
<1> QED BY <1>4, <1>5, <1>6, <1>7

\* An object is linked.
LEMMA GrowDivides ==
    ASSUME NEW q \in Regular, NEW S, NEW K \in [Nodes -> Seq(Nodes)],
           NEW L \in [Nodes -> Seq(Nodes)], Ordered(L), Grown(K, L),
           NEW o \in Seq(Objects), NEW m, Standing(S, K, q, o, m)
    PROVE  /\ Standing(S, L, q, o, m)
           /\ \A w, done : /\ Passed(K, q, o, done, w) => Passed(L, q, o, done, w)
                           /\ Ahead(K, q, o, done, w) => Ahead(L, q, o, done, w)
<1>1. \A h \in DOMAIN o : IsLevel(q, o, h)
    BY LevelsAre
<1>2. ASSUME NEW h \in DOMAIN o
      PROVE  /\ Here(K, q, o, h) \in Seq(Nodes) /\ Here(L, q, o, h) \in Seq(Nodes)
             /\ Begins(Here(K, q, o, h), Here(L, q, o, h))
    BY <1>1, OrderedBefore, HereIs, HereGrows
<1>3. ASSUME NEW h \in DOMAIN o
      PROVE  /\ \A x, y : Earlier(Here(K, q, o, h), x, y) => Earlier(Here(L, q, o, h), x, y)
             /\ \A x, y : Left(Here(K, q, o, h), x, y) => Left(Here(L, q, o, h), x, y)
             /\ \A x, y : Follows(Here(K, q, o, h), x, y) => Follows(Here(L, q, o, h), x, y)
             /\ \A T, x : Ended(T, Here(K, q, o, h), x) => Ended(T, Here(L, q, o, h), x)
             /\ ToSet(Here(K, q, o, h)) \subseteq ToSet(Here(L, q, o, h))
    BY <1>2, Growing
<1>4. Standing(S, L, q, o, m)
    BY <1>3 DEF Standing
<1>5. \A w, done : Passed(K, q, o, done, w) => Passed(L, q, o, done, w)
    BY <1>3 DEF Passed
<1>6. \A w, done : Ahead(K, q, o, done, w) => Ahead(L, q, o, done, w)
    BY <1>3 DEF Ahead
<1> QED BY <1>4, <1>5, <1>6

LEMMA WaysGrow ==
    ASSUME NEW q \in Regular, NEW K \in [Nodes -> Seq(Nodes)],
           NEW L \in [Nodes -> Seq(Nodes)], Ordered(L), Grown(K, L)
    PROVE  /\ Ways(K, q) \subseteq Ways(L, q)
           /\ \A v, w \in Ways(K, q) : Before(K, q, v, w) => Before(L, q, v, w)
<1>1. DOMAIN q = 1 .. Len(q) /\ Len(q) \in Nat /\ \A i \in DOMAIN q : q[i].op \in Handled
    BY RegularLevels
<1>2. ASSUME NEW v \in Ways(K, q), NEW i \in DOMAIN q
      PROVE  /\ Targets(K, q[i], v[i]) \in Seq(Nodes) /\ Targets(L, q[i], v[i]) \in Seq(Nodes)
             /\ Begins(Targets(K, q[i], v[i]), Targets(L, q[i], v[i]))
    <2>1. i \in 1 .. Len(q) + 1
        BY <1>1
    <2>2. v[i] \in Nodes
        BY <2>1 DEF Ways
    <2> QED BY <1>1, <2>2, OrderedBefore, TargetsAre, TargetsGrow
<1>3. ASSUME NEW v \in Ways(K, q)
      PROVE  v \in Ways(L, q)
    <2>1. ASSUME NEW i \in DOMAIN q
          PROVE  v[i + 1] \in ToSet(Targets(L, q[i], v[i]))
        <3>1. v[i + 1] \in ToSet(Targets(K, q[i], v[i]))
            BY DEF Ways
        <3> QED BY <1>2, <3>1, Growing
    <2> QED BY <2>1 DEF Ways
<1>4. ASSUME NEW v \in Ways(K, q), NEW w \in Ways(K, q), Before(K, q, v, w)
      PROVE  Before(L, q, v, w)
    <2>1. PICK i \in DOMAIN q :
             /\ \A j \in 1 .. i : v[j] = w[j]
             /\ Earlier(Targets(K, q[i], v[i]), v[i + 1], w[i + 1])
        BY <1>4 DEF Before, Earlier
    <2>2. Earlier(Targets(L, q[i], v[i]), v[i + 1], w[i + 1])
        BY <1>2, <2>1, Growing
    <2> QED BY <2>1, <2>2 DEF Before, Earlier
<1> QED BY <1>3, <1>4

\* ... and what that says about the result.
LEMMA Redivided ==
    ASSUME NEW q, NEW S, NEW K, NEW o, NEW done, NEW p, NEW still, NEW R,
           Sound(K, q, o, done, R), Complete(S, K, q, o, done, R),
           \A w \in WaysOf(q) :
               /\ Passed(K, q, o, done, w) => Passed(K, q, p, still, w)
               /\ w \in Ways(S, q) /\ Ahead(K, q, o, done, w) => Ahead(K, q, p, still, w)
    PROVE  Sound(K, q, p, still, R) /\ Complete(S, K, q, p, still, R)
<1>1. \A J : Ways(J, q) \subseteq WaysOf(q)
    BY DEF Ways, WaysOf
<1>2. Sound(K, q, p, still, R)
    BY <1>1 DEF Sound
<1>3. Complete(S, K, q, p, still, R)
    BY <1>1 DEF Complete
<1> QED BY <1>2, <1>3
-------------------------------------------------------------------------------
(* The levels of the stack.                                                *)

LEMMA FromBottom ==
    ASSUME NEW n \in Nat, NEW h \in 1 .. n
    PROVE  n + 1 - h \in 1 .. n /\ (n + 1 - h = 1 <=> h = n)
OBVIOUS

LEMMA LevelsOf ==
    ASSUME NEW st, NEW cp, NEW q, StackTyped(st, cp, q), cp \in Seq(CopyType)
    PROVE  /\ Len(st) \in Nat /\ (st # << >> => Len(st) \in 1 .. Len(st) /\ LevelAt(st, Len(st)) = st[1])
           /\ Ons(st, cp) \in Seq(Objects) /\ Len(Ons(st, cp)) = Len(st)
           /\ DOMAIN Ons(st, cp) = 1 .. Len(st)
           /\ \A h \in 1 .. Len(st) :
                 /\ Ons(st, cp)[h] = On(LevelAt(st, h), cp)
                 /\ Comings(st, cp)[h] = Coming(LevelAt(st, h), cp)
                 /\ LevelAt(st, h) \in LevelType
                 /\ LevelAt(st, h).it.cur \in {NoCopy} \cup DOMAIN cp
                 /\ h # Len(st) => Ons(st, cp)[h] # None
                 /\ \A k \in DOMAIN LevelAt(st, h).it.items :
                       LevelAt(st, h).it.items[k] \in DOMAIN cp
<1>1. /\ st \in Seq(LevelType) /\ Len(st) \in Nat /\ DOMAIN st = 1 .. Len(st)
      /\ \A i \in DOMAIN st : st[i] \in LevelType
    BY Places DEF StackTyped
<1>2. st # << >> => Len(st) \in 1 .. Len(st) /\ LevelAt(st, Len(st)) = st[1]
    <2>1. Len(st) + 1 - Len(st) = 1 /\ (st # << >> => Len(st) \in 1 .. Len(st))
        BY <1>1
    <2> QED BY <2>1 DEF LevelAt
<1>3. ASSUME NEW h \in 1 .. Len(st)
      PROVE  /\ LevelAt(st, h) \in LevelType
             /\ LevelAt(st, h).it.cur \in {NoCopy} \cup DOMAIN cp
             /\ h # Len(st) => LevelAt(st, h).it.cur # NoCopy
             /\ \A k \in DOMAIN LevelAt(st, h).it.items : LevelAt(st, h).it.items[k] \in DOMAIN cp
    <2>1. Len(st) + 1 - h \in DOMAIN st /\ (Len(st) + 1 - h = 1 <=> h = Len(st))
        BY <1>1, FromBottom
    <2> QED BY <1>1, <2>1 DEF LevelAt, StackTyped
<1>4. \A c \in DOMAIN cp : cp[c].n \in Nodes
    <2>1. \A c \in DOMAIN cp : cp[c] \in CopyType
        BY Places
    <2> QED BY <2>1 DEF CopyType
<1>5. ASSUME NEW h \in 1 .. Len(st)
      PROVE  On(LevelAt(st, h), cp) \in Objects /\ (h # Len(st) => On(LevelAt(st, h), cp) # None)
    BY <1>3, <1>4, TreeConstants DEF On, Objects
<1>6. Ons(st, cp) \in [1 .. Len(st) -> Objects]
    BY <1>5 DEF Ons
<1>7. Ons(st, cp) \in Seq(Objects) /\ Len(Ons(st, cp)) = Len(st)
    BY <1>1, <1>6, SeqDef, LenProperties
<1> QED BY <1>1, <1>2, <1>3, <1>5, <1>6, <1>7 DEF Ons, Comings

LEMMA PushedLevels ==
    ASSUME NEW st \in Seq(LevelType), NEW l \in LevelType
    PROVE  /\ Len(<<l>> \o st) = Len(st) + 1 /\ LevelAt(<<l>> \o st, Len(st) + 1) = l
           /\ \A h \in 1 .. Len(st) : LevelAt(<<l>> \o st, h) = LevelAt(st, h)
<1> DEFINE new == <<l>> \o st
<1>1. /\ Len(st) \in Nat /\ new \in Seq(LevelType) /\ DOMAIN new = 1 .. Len(st) + 1
      /\ new[1] = l /\ \A i \in 1 .. Len(st) : new[i + 1] = st[i]
    BY Pushed, Places
<1>2. Len(new) = Len(st) + 1
    BY <1>1, Places
<1> HIDE DEF new
<1>3. LevelAt(new, Len(st) + 1) = l
    BY <1>1, <1>2 DEF LevelAt
<1>4. ASSUME NEW h \in 1 .. Len(st) PROVE LevelAt(new, h) = LevelAt(st, h)
    <2>1. Len(st) + 1 - h \in 1 .. Len(st) /\ Len(new) + 1 - h = (Len(st) + 1 - h) + 1
        BY <1>1, <1>2
    <2> QED BY <1>1, <2>1 DEF LevelAt
<1> QED BY <1>2, <1>3, <1>4 DEF new

LEMMA PoppedLevels ==
    ASSUME NEW st \in Seq(LevelType), st # << >>
    PROVE  /\ Len(Tail(st)) = Len(st) - 1
           /\ \A h \in 1 .. Len(st) - 1 : LevelAt(Tail(st), h) = LevelAt(st, h)
<1>1. /\ Len(st) \in Nat /\ Len(st) >= 1 /\ Len(Tail(st)) = Len(st) - 1
      /\ \A i \in 1 .. Len(st) - 1 : Tail(st)[i] = st[i + 1]
    BY Popped, Places, HeadTailProperties
<1>2. ASSUME NEW h \in 1 .. Len(st) - 1 PROVE LevelAt(Tail(st), h) = LevelAt(st, h)
    <2>1. /\ Len(Tail(st)) + 1 - h \in 1 .. Len(st) - 1
          /\ (Len(Tail(st)) + 1 - h) + 1 = Len(st) + 1 - h
        BY <1>1
    <2> QED BY <1>1, <2>1 DEF LevelAt
<1> QED BY <1>1, <1>2

LEMMA MovedLevels ==
    ASSUME NEW st \in Seq(LevelType), NEW new \in Seq(LevelType), DOMAIN new = DOMAIN st,
           st # << >>, \A i \in DOMAIN st : i # 1 => new[i] = st[i]
    PROVE  /\ Len(new) = Len(st) /\ LevelAt(new, Len(st)) = new[1]
           /\ \A h \in 1 .. Len(st) : h # Len(st) => LevelAt(new, h) = LevelAt(st, h)
<1>1. /\ Len(st) \in Nat /\ Len(new) \in Nat /\ DOMAIN st = 1 .. Len(st) /\ DOMAIN new = 1 .. Len(new)
    BY Places
<1>2. Len(new) = Len(st)
    BY <1>1, SameLength
<1>3. Len(st) + 1 - Len(st) = 1
    BY <1>1
<1>4. ASSUME NEW h \in 1 .. Len(st), h # Len(st) PROVE LevelAt(new, h) = LevelAt(st, h)
    <2>1. Len(st) + 1 - h \in DOMAIN st /\ Len(st) + 1 - h # 1
        BY <1>1, <1>4, FromBottom
    <2> QED BY <1>2, <2>1 DEF LevelAt
<1> QED BY <1>2, <1>3, <1>4 DEF LevelAt

\* Copies are made and freed; what they know stays.
Keeps(cp, new) ==
    /\ DOMAIN cp \subseteq DOMAIN new
    /\ \A c \in DOMAIN cp : new[c].n = cp[c].n /\ new[c].first = cp[c].first

LEMMA KeptLevel ==
    ASSUME NEW l \in LevelType, NEW cp, NEW new, Keeps(cp, new),
           l.it.cur \in {NoCopy} \cup DOMAIN cp,
           \A k \in DOMAIN l.it.items : l.it.items[k] \in DOMAIN cp
    PROVE  On(l, new) = On(l, cp) /\ Coming(l, new) = Coming(l, cp)
<1>1. On(l, new) = On(l, cp)
    BY DEF On, Keeps
<1>2. l.it.items \in Seq(Nat)
    BY DEF LevelType, IterType
<1>3. l.it.items # << >> => Head(l.it.items) \in DOMAIN cp
    BY <1>2, Popped
<1>4. Coming(l, new) = Coming(l, cp)
    BY <1>3 DEF Coming, Keeps
<1> QED BY <1>1, <1>4

LEMMA FreedKeeps ==
    ASSUME copies \in Seq(CopyType), NEW c \in {NoCopy} \cup DOMAIN copies
    PROVE  Keeps(copies, Freed(c))
<1>1. /\ DOMAIN Freed(c) = DOMAIN copies
      /\ \A k \in DOMAIN copies : k # c => Freed(c)[k] = copies[k]
    BY FreedCopies
<1>2. c \in DOMAIN copies => Freed(c)[c].n = copies[c].n /\ Freed(c)[c].first = copies[c].first
    <2>1. NoCopy \notin DOMAIN copies /\ \A k \in DOMAIN copies : copies[k] \in CopyType
        BY Places DEF NoCopy
    <2> QED BY <2>1 DEF Freed, CopyType
<1> QED BY <1>1, <1>2 DEF Keeps

\* A copy that is made of an object knows the first child of now.
LEMMA MadeKeeps ==
    ASSUME NEW cp \in Seq(CopyType), NEW c \in CopyType, Keeps(copies, cp)
    PROVE  Keeps(copies, Append(cp, c)) /\ Append(cp, c)[Len(cp) + 1] = c
<1>1. /\ DOMAIN cp = 1 .. Len(cp) /\ DOMAIN Append(cp, c) = 1 .. Len(cp) + 1 /\ Len(cp) \in Nat
      /\ Append(cp, c)[Len(cp) + 1] = c /\ \A i \in 1 .. Len(cp) : Append(cp, c)[i] = cp[i]
    BY Lengthened
<1>2. DOMAIN cp \subseteq DOMAIN Append(cp, c) /\ \A i \in DOMAIN cp : Append(cp, c)[i] = cp[i]
    BY <1>1
<1> QED BY <1>1, <1>2 DEF Keeps

IsCopy(c) == \E n \in Nodes, by \in {"client", "iterator", "nobody"} : c = CopyOf(n, by)

LEMMA KnownCopies ==
    ASSUME NEW S, NEW cp, NEW new, CopiesKnow(S, kids, cp), Keeps(cp, new),
           Grown(S, kids), kids \in [Nodes -> Seq(Nodes)], S \in [Nodes -> Seq(Nodes)],
           \A c \in DOMAIN new : c \in DOMAIN cp \/ IsCopy(new[c])
    PROVE  CopiesKnow(S, kids, new)
<1> SUFFICES ASSUME NEW c \in DOMAIN new
             PROVE  /\ new[c].first = None => S[new[c].n] = << >>
                    /\ new[c].first # None =>
                          kids[new[c].n] # << >> /\ kids[new[c].n][1] = new[c].first
    BY DEF CopiesKnow
<1>1. CASE c \in DOMAIN cp
    BY <1>1 DEF CopiesKnow, Keeps
<1>2. CASE IsCopy(new[c])
    <2>1. PICK n \in Nodes : \E by \in {"client", "iterator", "nobody"} : new[c] = CopyOf(n, by)
        BY <1>2 DEF IsCopy
    <2>2. new[c].n = n /\ new[c].first = FirstOf(kids, n)
        BY <2>1 DEF CopyOf
    <2>3. kids[n] \in Seq(Nodes) /\ S[n] \in Seq(Nodes) /\ Begins(S[n], kids[n])
        BY DEF Grown
    <2>4. CASE kids[n] = << >>
        <3>1. S[n] = << >>
            BY <2>3, <2>4, Places DEF Begins
        <3>2. FirstOf(kids, n) = None
            BY <2>4 DEF FirstOf
        <3> QED BY <2>2, <3>1, <3>2
    <2>5. CASE kids[n] # << >>
        <3>1. FirstOf(kids, n) = kids[n][1] /\ kids[n][1] \in Nodes
            BY <2>3, <2>5, Popped DEF FirstOf
        <3> QED BY <2>2, <2>5, <3>1, TreeConstants
    <2> QED BY <2>4, <2>5
<1> QED BY <1>1, <1>2
-------------------------------------------------------------------------------
(* Where the levels stand, after a step.                                   *)

\* The first l levels stand where they stood.
Unmoved(l, o, m, p, r) == \A h \in 1 .. l : p[h] = o[h] /\ r[h] = m[h]

LEMMA StandingMoves ==
    ASSUME NEW S, NEW K, NEW q, NEW o \in Seq(Objects), NEW p \in Seq(Objects), NEW m, NEW r,
           Standing(S, K, q, o, m), o # << >>, Len(p) = Len(o),
           Unmoved(Len(o) - 1, o, m, p, r),
           p[Len(o)] \in ToSet(Here(K, q, o, Len(o))),
           r[Len(o)] # None => Follows(Here(K, q, o, Len(o)), p[Len(o)], r[Len(o)]),
           r[Len(o)] = None =>
               Ended(Here(S, q, o, Len(o)), Here(K, q, o, Len(o)), p[Len(o)])
    PROVE  Standing(S, K, q, p, r)
<1>1. /\ Len(o) \in Nat /\ DOMAIN o = 1 .. Len(o) /\ DOMAIN p = 1 .. Len(o)
      /\ \A h \in 1 .. Len(o) : h = Len(o) \/ (p[h] = o[h] /\ r[h] = m[h])
    BY Places DEF Unmoved
<1>2. ASSUME NEW J, NEW h \in 1 .. Len(o) PROVE Here(J, q, p, h) = Here(J, q, o, h)
    <2>1. h # 1 => h - 1 \in 1 .. Len(o) - 1
        BY <1>1, LevelsBelow
    <2>2. h # 1 => p[h - 1] = o[h - 1]
        BY <2>1 DEF Unmoved
    <2> QED BY <2>2, HereLocal
<1> QED BY <1>1, <1>2 DEF Standing

LEMMA StandingPops ==
    ASSUME NEW S, NEW K, NEW q, NEW o \in Seq(Objects), NEW p \in Seq(Objects), NEW m, NEW r,
           Standing(S, K, q, o, m), o # << >>, Len(p) = Len(o) - 1, Len(q) \in Nat,
           Unmoved(Len(p), o, m, p, r)
    PROVE  Standing(S, K, q, p, r)
<1>1. /\ Len(o) \in Nat /\ DOMAIN o = 1 .. Len(o) /\ DOMAIN p = 1 .. Len(o) - 1
      /\ \A h \in 1 .. Len(o) - 1 : /\ h \in 1 .. Len(o) /\ h # Len(o)
                                     /\ p[h] = o[h] /\ r[h] = m[h]
    BY Places DEF Unmoved
<1>2. \A J : \A h \in 1 .. Len(o) - 1 : Here(J, q, p, h) = Here(J, q, o, h)
    <2>1. \A h \in 1 .. Len(o) - 1 : h # 1 => h - 1 \in 1 .. Len(o) - 1
        BY <1>1
    <2> QED BY <1>1, <2>1, HereLocal
<1>3. Len(p) <= Len(q) + 1
    BY <1>1 DEF Standing
<1> QED BY <1>1, <1>2, <1>3 DEF Standing

LEMMA StandingPushes ==
    ASSUME NEW S, NEW K, NEW q, NEW o \in Seq(Objects), NEW p \in Seq(Objects), NEW m, NEW r,
           Standing(S, K, q, o, m), Len(p) = Len(o) + 1, Len(p) <= Len(q) + 1,
           o # << >> => o[Len(o)] # None,
           Unmoved(Len(o), o, m, p, r),
           p[Len(p)] = None,
           r[Len(p)] # None => Follows(Here(K, q, o, Len(p)), None, r[Len(p)]),
           r[Len(p)] = None => Here(S, q, o, Len(p)) = << >>
    PROVE  Standing(S, K, q, p, r)
<1>1. /\ Len(o) \in Nat /\ DOMAIN o = 1 .. Len(o) /\ DOMAIN p = 1 .. Len(o) + 1
      /\ \A h \in 1 .. Len(o) + 1 : h = Len(o) + 1 \/ h \in 1 .. Len(o)
      /\ \A h \in 1 .. (Len(o) + 1) - 1 : h \in 1 .. Len(o)
      /\ Len(o) + 1 \in Nat
      /\ \A h \in 1 .. Len(o) : p[h] = o[h] /\ r[h] = m[h]
    BY Places DEF Unmoved
<1>2. ASSUME NEW J, NEW h \in 1 .. Len(o) + 1 PROVE Here(J, q, p, h) = Here(J, q, o, h)
    <2>1. h # 1 => h - 1 \in 1 .. (Len(o) + 1) - 1
        BY <1>1, LevelsBelow
    <2>2. h # 1 => p[h - 1] = o[h - 1]
        BY <1>1, <2>1
    <2> QED BY <2>2, HereLocal
<1>3. \A h \in DOMAIN o : o[h] # None
    <2>1. o # << >> <=> DOMAIN o # {}
        BY Places
    <2> QED BY <2>1 DEF Standing
<1>4. ASSUME NEW h \in DOMAIN p
      PROVE  /\ h # Len(p) => p[h] # None
             /\ p[h] # None => p[h] \in ToSet(Here(K, q, p, h))
             /\ r[h] # None => Follows(Here(K, q, p, h), p[h], r[h])
             /\ r[h] = None => Ended(Here(S, q, p, h), Here(K, q, p, h), p[h])
    <2>1. CASE h = Len(o) + 1
        BY <1>1, <1>2, <2>1 DEF Ended
    <2>2. CASE h \in 1 .. Len(o)
        BY <1>1, <1>2, <1>3, <2>2 DEF Standing
    <2> QED BY <1>1, <2>1, <2>2
<1> QED BY <1>4 DEF Standing
-------------------------------------------------------------------------------
(* Walks, after a step.                                                    *)

Stands == Ons(stack, copies)
Nexts  == Comings(stack, copies)

\* The parts of the invariant.
LEMMA Walking ==
    ASSUME RInv, query \in Regular, pc # "none"
    PROVE  /\ Walks /\ pc # "wild" /\ (pc = "over" => stack = << >>) /\ Shaped(stack, query)
           /\ Standing(start, kids, query, Stands, Nexts)
           /\ Sound(kids, query, Stands, pc # "handle", returned)
           /\ InOrder(kids, query, returned)
           /\ Complete(start, kids, query, Stands, pc # "handle", returned)
           /\ kids \in [Nodes -> Seq(Nodes)] /\ start \in [Nodes -> Seq(Nodes)]
           /\ Ordered(kids) /\ Grown(start, kids) /\ CopiesKnow(start, kids, copies)
           /\ StackTyped(stack, copies, query) /\ stack \in Seq(LevelType)
           /\ copies \in Seq(CopyType) /\ NoCopy \notin DOMAIN copies
           /\ Stands \in Seq(Objects) /\ Len(Stands) = Len(stack)
           /\ DOMAIN Stands = 1 .. Len(stack)
           /\ Len(stack) \in Nat /\ Len(stack) <= Len(query) + 1 /\ Len(query) \in Nat
           /\ (stack # << >> => Stands # << >> /\ Len(stack) \in 1 .. Len(stack))
           /\ (pc = "handle" => stack # << >> /\ InHand # NoCopy)
           /\ \A h \in 1 .. Len(stack) : IsLevel(query, Stands, h)
<1>1. /\ Walks /\ pc # "wild" /\ (pc = "over" => stack = << >>) /\ Shaped(stack, query)
      /\ Standing(start, kids, query, Stands, Nexts)
      /\ Sound(kids, query, Stands, pc # "handle", returned)
      /\ InOrder(kids, query, returned)
      /\ Complete(start, kids, query, Stands, pc # "handle", returned)
      /\ Ordered(kids) /\ Grown(start, kids) /\ CopiesKnow(start, kids, copies)
    BY DEF RInv, Walks, Grows, Stands, Nexts
<1>2. Typed
    BY Parts DEF RInv
<1>3. /\ kids \in [Nodes -> Seq(Nodes)] /\ start \in [Nodes -> Seq(Nodes)]
      /\ StackTyped(stack, copies, query) /\ stack \in Seq(LevelType)
      /\ copies \in Seq(CopyType) /\ NoCopy \notin DOMAIN copies
      /\ (pc = "handle" => stack # << >> /\ InHand # NoCopy)
    BY <1>2, TypedParts DEF Typed
<1>4. /\ Stands \in Seq(Objects) /\ Len(Stands) = Len(stack) /\ DOMAIN Stands = 1 .. Len(stack)
      /\ Len(stack) \in Nat /\ (stack # << >> => Len(stack) \in 1 .. Len(stack))
    BY <1>3, LevelsOf DEF Stands
<1>5. Len(stack) <= Len(query) + 1 /\ Len(query) \in Nat
    BY <1>1, <1>4, RegularLevels DEF Standing
<1>6. \A h \in 1 .. Len(stack) : IsLevel(query, Stands, h)
    BY <1>1, <1>4, LevelsAre
<1>7. stack # << >> => Stands # << >>
    BY <1>4, Places
<1> QED BY <1>1, <1>3, <1>4, <1>5, <1>6, <1>7

\* The top has the levels of the query from its own on.
LEMMA TopSteps ==
    ASSUME RInv, query \in Regular, pc # "none", stack # << >>
    PROVE  /\ LevelOK(Top, query, Len(stack)) /\ Top = LevelAt(stack, Len(stack))
           /\ Top.step = << >> => Len(stack) = Len(query) + 1
           /\ Top.step # << >> =>
                 /\ Len(stack) \in DOMAIN query /\ Head(Top.step) = query[Len(stack)]
                 /\ Tail(Top.step) = SubSeq(query, Len(stack) + 1, Len(query))
<1> DEFINE l == Len(stack)
           n == Len(query)
<1>1. /\ l \in Nat /\ n \in Nat /\ l >= 1 /\ l <= n + 1 /\ l \in 1 .. l
      /\ query \in Seq(Levels) /\ DOMAIN query = 1 .. n
      /\ StackTyped(stack, copies, query) /\ Shaped(stack, query) /\ stack \in Seq(LevelType)
      /\ copies \in Seq(CopyType)
    BY Walking, RegularLevels
<1>2. Top = LevelAt(stack, l)
    BY <1>1, TopOf, LevelsOf
<1>3. LevelOK(Top, query, l)
    BY <1>1, <1>2 DEF Shaped
<1>4. Top.step = SubSeq(query, l, n)
    BY <1>3 DEF LevelOK
<1>5. CASE l = n + 1
    <2>1. SubSeq(query, l, n) = << >>
        BY <1>1, <1>5, SubSeqEmpty
    <2> QED BY <1>2, <1>3, <1>4, <1>5, <2>1
<1>6. CASE l # n + 1
    <2>1. l \in 1 .. n
        BY <1>1, <1>6
    <2>2. /\ SubSeq(query, l, n) \in Seq(Levels) /\ Len(SubSeq(query, l, n)) = n - l + 1
          /\ \A i \in 1 .. n - l + 1 : SubSeq(query, l, n)[i] = query[l + i - 1]
        BY <1>1, <2>1, SubSeqProperties, ElementOfSeq
    <2>3. n - l + 1 >= 1 /\ l + 1 - 1 = l /\ 1 \in 1 .. n - l + 1
        BY <2>1
    <2>4. SubSeq(query, l, n) # << >> /\ Head(SubSeq(query, l, n)) = query[l]
        BY <2>2, <2>3
    <2>5. Tail(SubSeq(query, l, n)) = SubSeq(query, l + 1, n)
        <3> DEFINE s == SubSeq(query, l, n)
        <3>1. CASE l = n
            <4>1. Len(s) = 1 /\ Tail(s) = SubSeq(s, 2, Len(s)) /\ SubSeq(s, 2, 1) = << >>
                BY <1>1, <2>2, <2>4, <3>1, TailIsSubSeq, SubSeqEmpty
            <4>2. SubSeq(query, l + 1, n) = << >>
                BY <1>1, <3>1, SubSeqEmpty
            <4> QED BY <4>1, <4>2
        <3>2. CASE l # n
            <4>1. l + 1 \in 1 .. n
                BY <1>1, <2>1, <3>2, NotTheLast
            <4>2. /\ SubSeq(query, l + 1, n) \in Seq(Levels)
                  /\ Len(SubSeq(query, l + 1, n)) = n - l
                  /\ \A i \in 1 .. n - l : SubSeq(query, l + 1, n)[i] = query[l + i]
                BY <1>1, <4>1, SubSeqProperties, ElementOfSeq
            <4>3. /\ Tail(s) \in Seq(Levels) /\ Len(Tail(s)) = n - l
                  /\ \A i \in 1 .. n - l : Tail(s)[i] = query[l + i]
                BY <1>1, <2>2, <2>4, <4>1, HeadTailProperties
            <4> QED BY <4>2, <4>3, SeqEqual
        <3> QED BY <3>1, <3>2
    <2> QED BY <1>1, <1>2, <1>3, <1>4, <2>1, <2>4, <2>5
<1> QED BY <1>5, <1>6

\* The types after a step.
LEMMA TypedAfter ==
    ASSUME IInv'
    PROVE  /\ StackTyped(stack', copies', query') /\ stack' \in Seq(LevelType)
           /\ copies' \in Seq(CopyType)
<1>1. stack' \in Seq(LevelType) /\ copies' \in Seq(CopyType)
    BY DEF IInv, Typed, TypeOK
<1>2. \A i \in DOMAIN stack' :
         /\ stack'[i].step \in Suffixes(query')
         /\ stack'[i].it.cur \in {NoCopy} \cup DOMAIN copies'
         /\ i # 1 => stack'[i].it.cur # NoCopy
         /\ \A k \in DOMAIN stack'[i].it.items : stack'[i].it.items[k] \in DOMAIN copies'
    BY DEF IInv, Typed, TypeOK, IterOK, ToSet
<1> QED BY <1>1, <1>2 DEF StackTyped

\* A level that a step leaves alone stands where it stood.
LEMMA LevelStays ==
    ASSUME RInv, query \in Regular, pc # "none", IInv', Keeps(copies, copies'), query' = query,
           NEW h \in 1 .. Len(stack), h \in 1 .. Len(stack'),
           LevelAt(stack', h) = LevelAt(stack, h)
    PROVE  /\ Stands'[h] = Stands[h] /\ Nexts'[h] = Nexts[h]
           /\ LevelOK(LevelAt(stack', h), query', h)
<1>1. /\ StackTyped(stack, copies, query) /\ copies \in Seq(CopyType) /\ Shaped(stack, query)
      /\ StackTyped(stack', copies', query') /\ copies' \in Seq(CopyType)
    BY Walking, TypedAfter
<1>2. /\ Stands[h] = On(LevelAt(stack, h), copies) /\ Nexts[h] = Coming(LevelAt(stack, h), copies)
      /\ LevelAt(stack, h) \in LevelType
      /\ LevelAt(stack, h).it.cur \in {NoCopy} \cup DOMAIN copies
      /\ \A k \in DOMAIN LevelAt(stack, h).it.items : LevelAt(stack, h).it.items[k] \in DOMAIN copies
    BY <1>1, LevelsOf DEF Stands, Nexts
<1>3. Stands'[h] = On(LevelAt(stack', h), copies') /\ Nexts'[h] = Coming(LevelAt(stack', h), copies')
    BY <1>1, LevelsOf DEF Stands, Nexts
<1>4. /\ On(LevelAt(stack, h), copies') = On(LevelAt(stack, h), copies)
      /\ Coming(LevelAt(stack, h), copies') = Coming(LevelAt(stack, h), copies)
    BY <1>2, KeptLevel
<1>5. LevelOK(LevelAt(stack, h), query, h)
    BY <1>1 DEF Shaped
<1> QED BY <1>2, <1>3, <1>4, <1>5

\* ... and so does a stack.
LEMMA StackStays ==
    ASSUME RInv, query \in Regular, pc # "none", IInv', Keeps(copies, copies'),
           UNCHANGED <<query, stack>>
    PROVE  Stands' = Stands /\ Nexts' = Nexts
<1>1. \A h \in 1 .. Len(stack) : Stands'[h] = Stands[h] /\ Nexts'[h] = Nexts[h]
    BY LevelStays
<1>2. /\ DOMAIN Stands = 1 .. Len(stack) /\ DOMAIN Nexts = 1 .. Len(stack)
      /\ DOMAIN Stands' = 1 .. Len(stack) /\ DOMAIN Nexts' = 1 .. Len(stack)
    BY DEF Stands, Nexts, Ons, Comings
<1>3. /\ Stands = [h \in DOMAIN Stands |-> Stands[h]]
      /\ Nexts = [h \in DOMAIN Nexts |-> Nexts[h]]
      /\ Stands' = [h \in DOMAIN Stands' |-> Stands'[h]]
      /\ Nexts' = [h \in DOMAIN Nexts' |-> Nexts'[h]]
    BY DEF Stands, Nexts, Ons, Comings
<1> QED BY <1>1, <1>2, <1>3

\* The iterator on top goes on.
LEMMA MoveWalks ==
    ASSUME RInv, IInv', query \in Regular, pc = "move", pc' = "handle", stack # << >>,
           UNCHANGED <<kids, query, start, returned>>, Keeps(copies, copies'),
           DOMAIN stack' = DOMAIN stack, \A i \in DOMAIN stack : i # 1 => stack'[i] = stack[i],
           stack'[1].step = stack[1].step, stack'[1].it.kind = stack[1].it.kind,
           Len(stack'[1].it.items) <= 1,
           NEW y, y # None, Nexts[Len(stack)] = y, On(stack'[1], copies') = y,
           NEW z, Coming(stack'[1], copies') = z,
           z # None => Follows(Here(kids, query, Stands, Len(stack)), y, z),
           z = None => Ended(Here(start, query, Stands, Len(stack)),
                             Here(kids, query, Stands, Len(stack)), y)
    PROVE  Walks'
<1> DEFINE l == Len(stack)
           T == Here(kids, query, Stands, l)
<1>1. /\ StackTyped(stack', copies', query') /\ stack' \in Seq(LevelType)
      /\ copies' \in Seq(CopyType)
    BY TypedAfter
<1>2. /\ Stands' \in Seq(Objects) /\ Len(Stands') = Len(stack') /\ stack' # << >>
      /\ \A h \in 1 .. Len(stack') : Nexts'[h] = Coming(LevelAt(stack', h), copies')
      /\ \A h \in 1 .. Len(stack') : Stands'[h] = On(LevelAt(stack', h), copies')
    <2>1. stack' # << >>
        BY Walking, Popped
    <2> QED BY <1>1, <2>1, LevelsOf DEF Stands, Nexts
<1>3. /\ Len(stack') = l /\ LevelAt(stack', l) = stack'[1]
      /\ \A h \in 1 .. l : h # l => LevelAt(stack', h) = LevelAt(stack, h)
    BY <1>1, Walking, MovedLevels
<1>4. /\ l \in 1 .. l /\ l \in Nat /\ Len(Stands) = l /\ Stands # << >> /\ Stands \in Seq(Objects)
      /\ DOMAIN Stands = 1 .. l /\ l <= Len(query) + 1
      /\ \A h \in 1 .. l : IsLevel(query, Stands, h)
      /\ kids \in [Nodes -> Seq(Nodes)] /\ Ordered(kids) /\ Standing(start, kids, query, Stands, Nexts)
    BY Walking
<1>5. Stands'[l] = y /\ Nexts'[l] = z
    BY <1>2, <1>3, <1>4
<1>6. \A h \in 1 .. l : h # l => Stands'[h] = Stands[h] /\ Nexts'[h] = Nexts[h]
                                 /\ LevelOK(LevelAt(stack', h), query', h)
    BY <1>3, LevelStays
<1>7. T \in Seq(Nodes) /\ Distinct(T) /\ Follows(T, Stands[l], y)
    BY <1>4, HereIs DEF Standing
<1> HIDE DEF l, T
<1>8. y \in ToSet(T) /\ y \in Nodes
    BY <1>7, FollowsIn
<1>9. Standing(start, kids, query, Stands', Nexts')
    <2>1. Len(Stands') = Len(Stands) /\ Unmoved(Len(Stands) - 1, Stands, Nexts, Stands', Nexts')
        <3>1. \A h \in 1 .. l - 1 : h \in 1 .. l /\ h # l
            BY <1>4
        <3> QED BY <1>2, <1>3, <1>4, <1>6, <3>1 DEF Unmoved
    <2>2. /\ Stands'[Len(Stands)] \in ToSet(Here(kids, query, Stands, Len(Stands)))
          /\ Nexts'[Len(Stands)] # None =>
                Follows(Here(kids, query, Stands, Len(Stands)), Stands'[Len(Stands)],
                        Nexts'[Len(Stands)])
          /\ Nexts'[Len(Stands)] = None =>
                Ended(Here(start, query, Stands, Len(Stands)),
                      Here(kids, query, Stands, Len(Stands)), Stands'[Len(Stands)])
        BY <1>4, <1>5, <1>8 DEF l, T
    <2> QED BY <1>2, <1>4, <2>1, <2>2, StandingMoves
<1>10. ASSUME NEW w \in WaysOf(query)
       PROVE  /\ Passed(kids, query, Stands, TRUE, w) => Passed(kids, query, Stands', FALSE, w)
              /\ Ahead(kids, query, Stands, TRUE, w) => Ahead(kids, query, Stands', FALSE, w)
    <2>1. /\ Len(Stands') = Len(Stands) /\ Len(Stands) <= Len(query) + 1
          /\ IsLevel(query, Stands, Len(Stands))
          /\ \A h \in DOMAIN Stands : h # Len(Stands) => Stands'[h] = Stands[h]
        BY <1>2, <1>3, <1>4, <1>6
    <2>2. /\ Stands'[Len(Stands)] \in Nodes
          /\ Follows(Here(kids, query, Stands, Len(Stands)), Stands[Len(Stands)],
                     Stands'[Len(Stands)])
        BY <1>4, <1>5, <1>7, <1>8 DEF T
    <2> QED BY <1>2, <1>4, <2>1, <2>2, AdvanceDivides
<1>11. /\ Sound(kids, query, Stands', FALSE, returned)
       /\ Complete(start, kids, query, Stands', FALSE, returned)
    <2>1. /\ Sound(kids, query, Stands, TRUE, returned)
          /\ Complete(start, kids, query, Stands, TRUE, returned)
        BY Walking
    <2> QED BY <1>10, <2>1, Redivided
<1>12. Shaped(stack', query')
    <2>1. LevelOK(stack[1], query, l)
        BY <1>3, <1>4, Walking, TopSteps, TopOf DEF l
    <2>2. LevelOK(stack'[1], query', l)
        BY <2>1 DEF LevelOK
    <2> QED BY <1>3, <1>6, <2>2 DEF Shaped
<1> QED BY <1>9, <1>11, <1>12, Walking DEF Walks, Stands, Nexts

\* The iterator on top has ended and is popped.
LEMMA PopWalks ==
    ASSUME RInv, IInv', query \in Regular, pc = "move", pc' = "move", stack # << >>,
           UNCHANGED <<kids, query, start, returned>>, Keeps(copies, copies'),
           stack' = Tail(stack), Nexts[Len(stack)] = None
    PROVE  Walks'
<1> DEFINE l == Len(stack)
<1>1. /\ StackTyped(stack', copies', query') /\ copies' \in Seq(CopyType)
    BY TypedAfter
<1>2. Stands' \in Seq(Objects) /\ Len(Stands') = Len(stack') /\ DOMAIN Stands' = 1 .. Len(stack')
    BY <1>1, LevelsOf DEF Stands, Nexts
<1>3. /\ Len(stack') = l - 1 /\ \A h \in 1 .. l - 1 : LevelAt(stack', h) = LevelAt(stack, h)
    BY Walking, PoppedLevels
<1>4. /\ l \in 1 .. l /\ l \in Nat /\ Len(Stands) = l /\ Stands # << >> /\ Stands \in Seq(Objects)
      /\ l <= Len(query) + 1 /\ Len(query) \in Nat
      /\ \A h \in 1 .. l : IsLevel(query, Stands, h)
      /\ kids \in [Nodes -> Seq(Nodes)] /\ Ordered(kids) /\ Standing(start, kids, query, Stands, Nexts)
      /\ start \in [Nodes -> Seq(Nodes)] /\ Grown(start, kids)
      /\ DOMAIN Stands = 1 .. l
    BY Walking
<1>5. ASSUME NEW h \in 1 .. l - 1
      PROVE  Stands'[h] = Stands[h] /\ Nexts'[h] = Nexts[h] /\ LevelOK(LevelAt(stack', h), query', h)
    <2>1. h \in 1 .. l /\ h \in 1 .. Len(stack')
        BY <1>3, <1>4
    <2> QED BY <1>3, <2>1, LevelStays
<1>6. Ended(Here(start, query, Stands, l), Here(kids, query, Stands, l), Stands[l])
    BY <1>4 DEF Standing
<1> HIDE DEF l
<1>7. Standing(start, kids, query, Stands', Nexts')
    <2>1. Len(Stands') = Len(Stands) - 1 /\ Unmoved(Len(Stands'), Stands, Nexts, Stands', Nexts')
        BY <1>2, <1>3, <1>4, <1>5 DEF Unmoved
    <2> QED BY <1>2, <1>4, <2>1, StandingPops
<1>8. ASSUME NEW w \in WaysOf(query)
      PROVE  /\ Passed(kids, query, Stands, TRUE, w) => Passed(kids, query, Stands', TRUE, w)
             /\ w \in Ways(start, query) /\ Ahead(kids, query, Stands, TRUE, w)
                => Ahead(kids, query, Stands', TRUE, w)
    <2>1. /\ Len(Stands') = Len(Stands) - 1 /\ Len(Stands) <= Len(query) + 1
          /\ IsLevel(query, Stands, Len(Stands))
          /\ \A h \in DOMAIN Stands' : Stands'[h] = Stands[h]
          /\ Ended(Here(start, query, Stands, Len(Stands)),
                   Here(kids, query, Stands, Len(Stands)), Stands[Len(Stands)])
        BY <1>2, <1>3, <1>4, <1>5, <1>6
    <2> QED BY <1>2, <1>4, <2>1, PopDivides
<1>9. /\ Sound(kids, query, Stands', TRUE, returned)
      /\ Complete(start, kids, query, Stands', TRUE, returned)
    <2>1. /\ Sound(kids, query, Stands, TRUE, returned)
          /\ Complete(start, kids, query, Stands, TRUE, returned)
        BY Walking
    <2> QED BY <1>8, <2>1, Redivided
<1>10. Shaped(stack', query')
    BY <1>3, <1>5 DEF Shaped
<1> QED BY <1>7, <1>9, <1>10, Walking DEF Walks, Stands, Nexts

\* An iterator is pushed for the object in hand.
LEMMA PushWalks ==
    ASSUME RInv, IInv', query \in Regular, pc = "handle", pc' = "move", Top.step # << >>,
           UNCHANGED <<kids, query, start, returned>>, Keeps(copies, copies'),
           NEW l \in LevelType, stack' = <<l>> \o stack, l.step = Tail(Top.step),
           l.it.cur = NoCopy,
           \/ l.it.kind = "items" /\ Len(l.it.items) <= 1 /\ query[Len(stack)].op \in Single
           \/ l.it.kind = "children" /\ query[Len(stack)].op = "T_IMM_CHILDREN",
           NEW z, Coming(l, copies') = z,
           z # None => Follows(Here(kids, query, Stands, Len(stack) + 1), None, z),
           z = None => Here(start, query, Stands, Len(stack) + 1) = << >>
    PROVE  Walks'
<1> DEFINE n == Len(stack)
<1>1. /\ StackTyped(stack', copies', query') /\ copies' \in Seq(CopyType)
    BY TypedAfter
<1>2. /\ Stands' \in Seq(Objects) /\ Len(Stands') = Len(stack')
      /\ \A h \in 1 .. Len(stack') : Nexts'[h] = Coming(LevelAt(stack', h), copies')
      /\ \A h \in 1 .. Len(stack') : Stands'[h] = On(LevelAt(stack', h), copies')
    <2>1. Stands' \in Seq(Objects) /\ Len(Stands') = Len(stack')
        BY <1>1, LevelsOf DEF Stands
    <2>2. ASSUME NEW h \in 1 .. Len(stack')
          PROVE  /\ Nexts'[h] = Coming(LevelAt(stack', h), copies')
                 /\ Stands'[h] = On(LevelAt(stack', h), copies')
        BY DEF Stands, Nexts, Ons, Comings
    <2> QED BY <2>1, <2>2
<1>3. /\ Len(stack') = n + 1 /\ LevelAt(stack', n + 1) = l
      /\ \A h \in 1 .. n : LevelAt(stack', h) = LevelAt(stack, h)
    BY Walking, PushedLevels
<1>4. /\ n \in 1 .. n /\ n \in Nat /\ Len(Stands) = n /\ Stands # << >> /\ Stands \in Seq(Objects)
      /\ Len(query) \in Nat /\ stack # << >> /\ DOMAIN Stands = 1 .. n
      /\ kids \in [Nodes -> Seq(Nodes)] /\ Ordered(kids) /\ Standing(start, kids, query, Stands, Nexts)
      /\ start \in [Nodes -> Seq(Nodes)] /\ Grown(start, kids)
    BY Walking
<1>5. /\ n \in DOMAIN query /\ l.step = SubSeq(query, n + 1, Len(query))
    BY <1>4, TopSteps
<1>6. n + 1 <= Len(query) + 1 /\ n + 1 \in 1 .. n + 1 /\ (n + 1) - 1 = n /\ n + 1 # 1
    <2>1. DOMAIN query = 1 .. Len(query)
        BY RegularLevels
    <2> QED BY <1>4, <1>5, <2>1
<1>7. Stands[n] # None
    <2>1. /\ StackTyped(stack, copies, query) /\ copies \in Seq(CopyType) /\ InHand # NoCopy
          /\ Top = LevelAt(stack, n)
        BY <1>4, Walking, TopSteps
    <2>2. Stands[n] = On(Top, copies)
        BY <1>4, <2>1, LevelsOf DEF Stands
    <2>3. InHand \in DOMAIN copies /\ InHand = Top.it.cur
        BY <1>4, <2>1, TopOf DEF InHand
    <2>4. copies[InHand] \in CopyType
        BY <2>1, <2>3, Places
    <2> QED BY <2>1, <2>2, <2>3, <2>4, TreeConstants DEF On, CopyType
<1>8. Stands'[n + 1] = None /\ Nexts'[n + 1] = z
    BY <1>2, <1>3, <1>6 DEF On
<1>9. ASSUME NEW h \in 1 .. n
      PROVE  Stands'[h] = Stands[h] /\ Nexts'[h] = Nexts[h] /\ LevelOK(LevelAt(stack', h), query', h)
    <2>1. h \in 1 .. Len(stack')
        BY <1>3, <1>4
    <2> QED BY <1>3, <2>1, LevelStays
<1>10. IsLevel(query, Stands, n + 1)
    BY <1>4, <1>5, <1>6, <1>7 DEF IsLevel, Objects
<1> HIDE DEF n
<1>11. Standing(start, kids, query, Stands', Nexts')
    <2>1. /\ Len(Stands') = Len(Stands) + 1 /\ Len(Stands') <= Len(query) + 1
          /\ Stands[Len(Stands)] # None /\ Stands'[Len(Stands')] = None
          /\ Unmoved(Len(Stands), Stands, Nexts, Stands', Nexts')
        BY <1>2, <1>3, <1>4, <1>6, <1>7, <1>8, <1>9 DEF Unmoved
    <2>2. /\ Nexts'[Len(Stands')] # None =>
                Follows(Here(kids, query, Stands, Len(Stands')), None, Nexts'[Len(Stands')])
          /\ Nexts'[Len(Stands')] = None => Here(start, query, Stands, Len(Stands')) = << >>
        BY <1>2, <1>3, <1>8 DEF n
    <2> QED BY <1>2, <1>4, <2>1, <2>2, StandingPushes
<1>12. ASSUME NEW w \in WaysOf(query)
       PROVE  /\ Passed(kids, query, Stands, FALSE, w) => Passed(kids, query, Stands', TRUE, w)
              /\ w \in Ways(start, query) /\ Ahead(kids, query, Stands, FALSE, w)
                 => Ahead(kids, query, Stands', TRUE, w)
    <2>1. /\ Len(Stands') = Len(Stands) + 1 /\ Len(Stands') <= Len(query) + 1
          /\ IsLevel(query, Stands, Len(Stands')) /\ Stands'[Len(Stands')] = None
          /\ \A h \in DOMAIN Stands : Stands'[h] = Stands[h]
        BY <1>2, <1>3, <1>4, <1>6, <1>8, <1>9, <1>10
    <2> QED BY <1>2, <1>4, <2>1, PushDivides
<1>13. /\ Sound(kids, query, Stands', TRUE, returned)
       /\ Complete(start, kids, query, Stands', TRUE, returned)
    <2>1. /\ Sound(kids, query, Stands, FALSE, returned)
          /\ Complete(start, kids, query, Stands, FALSE, returned)
        BY Walking
    <2> QED BY <1>12, <2>1, Redivided
<1>14. Shaped(stack', query')
    <2>1. LevelOK(l, query', n + 1)
        BY <1>5, <1>6 DEF LevelOK, n
    <2>2. \A h \in 1 .. n + 1 : h \in 1 .. n \/ h = n + 1
        BY <1>4
    <2> QED BY <1>3, <1>9, <2>1, <2>2 DEF Shaped
<1> QED BY <1>11, <1>13, <1>14, Walking DEF Walks, Stands, Nexts
-------------------------------------------------------------------------------
(* One lemma for each action: what grows, and the walk.                    *)

Walked == Grows /\ (query \in Regular /\ pc # "none" => Walks)

\* Copies are made and freed.
LEMMA CopiesGrow ==
    ASSUME RInv, UNCHANGED <<kids, start, returned>>, pc # "none", pc' # "none",
           Keeps(copies, copies'),
           \A c \in DOMAIN copies' : c \in DOMAIN copies \/ IsCopy(copies'[c])
    PROVE  Grows'
<1>1. kids \in [Nodes -> Seq(Nodes)] /\ start \in [Nodes -> Seq(Nodes)]
    BY Parts, TypedParts DEF RInv
<1>2. Ordered(kids) /\ Grown(start, kids) /\ CopiesKnow(start, kids, copies)
    BY DEF RInv, Grows
<1>3. CopiesKnow(start, kids, copies')
    BY <1>1, <1>2, KnownCopies
<1> QED BY <1>2, <1>3 DEF Grows

LEMMA ReadCopies ==
    ASSUME RInv, UNCHANGED <<kids, start, returned>>, pc' # "none",
           AtOp("T_CONDITION"), ReadCells
    PROVE  Grows' /\ Keeps(copies, copies')
<1>1. pc # "none"
    BY DEF AtOp
<1>2. /\ Object \in Nodes /\ Longer(copies, copies')
      /\ \A c \in DOMAIN copies' : c \in DOMAIN copies \/ copies'[c] = CopyOf(Object, "nobody")
    BY ReadCellsLonger DEF RInv
<1>3. Keeps(copies, copies')
    BY <1>2 DEF Longer, Keeps
<1>4. \A c \in DOMAIN copies' : c \in DOMAIN copies \/ IsCopy(copies'[c])
    BY <1>2 DEF IsCopy
<1> QED BY <1>1, <1>3, <1>4, CopiesGrow

LEMMA SameCopies ==
    ASSUME RInv, UNCHANGED <<kids, start, returned, copies>>, pc # "none", pc' # "none"
    PROVE  Grows' /\ Keeps(copies, copies')
<1>1. Keeps(copies, copies')
    BY DEF Keeps
<1> QED BY <1>1, CopiesGrow

\* The top of the stack, and what it goes on to.
LEMMA TopWalks ==
    ASSUME RInv, query \in Regular, pc # "none", stack # << >>
    PROVE  LET l == Len(stack)
               T == Here(kids, query, Stands, l)
               S == Here(start, query, Stands, l)
           IN  /\ Nexts[l] = Coming(Top, copies) /\ Stands[l] = On(Top, copies)
               /\ T \in Seq(Nodes) /\ Distinct(T) /\ S \in Seq(Nodes) /\ Begins(S, T)
               /\ Len(S) <= Len(T)
               /\ Top.it.kind = "items" => Len(T) <= 1
               /\ Nexts[l] # None => Follows(T, Stands[l], Nexts[l])
<1> DEFINE l == Len(stack)
           T == Here(kids, query, Stands, l)
           S == Here(start, query, Stands, l)
<1>1. /\ l \in 1 .. l /\ StackTyped(stack, copies, query) /\ copies \in Seq(CopyType)
      /\ kids \in [Nodes -> Seq(Nodes)] /\ Ordered(kids) /\ Grown(start, kids)
      /\ start \in [Nodes -> Seq(Nodes)] /\ IsLevel(query, Stands, l)
      /\ Standing(start, kids, query, Stands, Nexts) /\ DOMAIN Stands = 1 .. l
    BY Walking
<1>2. LevelOK(Top, query, l) /\ Top = LevelAt(stack, l)
    BY TopSteps
<1>3. Nexts[l] = Coming(Top, copies) /\ Stands[l] = On(Top, copies)
    BY <1>1, <1>2, LevelsOf DEF Stands, Nexts
<1>4. /\ T \in Seq(Nodes) /\ Distinct(T) /\ S \in Seq(Nodes) /\ Begins(S, T)
      /\ (l = 1 \/ query[l - 1].op \in Single) => Len(T) <= 1
    BY <1>1, OrderedBefore, HereIs, HereGrows
<1>5. Len(S) <= Len(T)
    BY <1>4, BeginsLonger
<1>6. Top.it.kind = "items" => l = 1 \/ query[l - 1].op \in Single
    BY <1>2 DEF LevelOK
<1>7. Nexts[l] # None => Follows(T, Stands[l], Nexts[l])
    BY <1>1 DEF Standing
<1> QED BY <1>3, <1>4, <1>5, <1>6, <1>7

LEMMA ItemNextWalks == RInv /\ IInv' /\ ItemNext => Walked'
<1> SUFFICES ASSUME RInv, IInv', ItemNext PROVE Walked'
    OBVIOUS
<1> DEFINE it == [Top.it EXCEPT !.cur = Head(Top.it.items), !.items = Tail(Top.it.items)]
<1>1. /\ pc = "move" /\ stack # << >> /\ Top.it.kind = "items" /\ Top.it.items # << >>
      /\ stack' = [stack EXCEPT ![1].it.cur = Head(Top.it.items),
                                ![1].it.items = Tail(Top.it.items)]
      /\ pc' = "handle" /\ UNCHANGED <<kids, query, start, copies, current, returned>>
    BY DEF ItemNext, AtMove, Given
<1>2. Grows' /\ Keeps(copies, copies')
    BY <1>1, SameCopies
<1> SUFFICES ASSUME query \in Regular PROVE Walks'
    BY <1>1, <1>2 DEF Walked
<1>3. StackTyped(stack, copies, query) /\ stack \in Seq(LevelType) /\ copies \in Seq(CopyType)
      /\ NoCopy \notin DOMAIN copies
    BY <1>1, Walking
<1>4. /\ Top = stack[1] /\ Top \in LevelType /\ Top.it \in IterType /\ Top.it.items \in Seq(Nat)
      /\ \A k \in DOMAIN Top.it.items : Top.it.items[k] \in DOMAIN copies
    BY <1>1, <1>3, TopOf
<1>5. /\ Head(Top.it.items) \in DOMAIN copies /\ Head(Top.it.items) \in Nat
      /\ Tail(Top.it.items) \in Seq(Nat) /\ Len(Top.it.items) \in Nat
      /\ Len(Tail(Top.it.items)) = Len(Top.it.items) - 1
    BY <1>1, <1>4, Popped, Places, HeadTailProperties
<1>6. Tail(Top.it.items) = << >>
    <2>1. Len(Top.it.items) <= 1
        BY <1>1, TopSteps DEF LevelOK
    <2> QED BY <1>5, <2>1, Places
<1>7. it \in IterType /\ stack' = WithTop(stack, it)
    BY <1>1, <1>4, <1>5 DEF LevelType, IterType, WithTop
<1>8. it.cur = Head(Top.it.items) /\ it.items = << >> /\ it.kind = "items"
    BY <1>1, <1>4, <1>6 DEF IterType
<1> HIDE DEF it
<1>9. /\ DOMAIN stack' = DOMAIN stack /\ stack'[1].it = it /\ stack'[1].step = stack[1].step
      /\ \A i \in DOMAIN stack : i # 1 => stack'[i] = stack[i]
    <2>1. stack # << >> /\ stack \in Seq(LevelType) /\ it \in IterType
        BY <1>1, <1>3, <1>7
    <2> QED BY <1>7, <2>1, TopReplaced
<1> DEFINE y == copies[Head(Top.it.items)].n
           T == Here(kids, query, Stands, Len(stack))
           S == Here(start, query, Stands, Len(stack))
<1>10. y \in Nodes /\ y # None
    <2>1. copies[Head(Top.it.items)] \in CopyType
        BY <1>3, <1>5, Places
    <2> QED BY <2>1, TreeConstants DEF CopyType
<1>11. /\ Nexts[Len(stack)] = y /\ On(stack'[1], copies') = y /\ Coming(stack'[1], copies') = None
    <2>1. Nexts[Len(stack)] = Coming(Top, copies)
        BY <1>1, TopWalks
    <2>2. Head(Top.it.items) # NoCopy
        BY <1>3, <1>5
    <2> QED BY <1>1, <1>8, <1>9, <2>1, <2>2 DEF Coming, On
<1> HIDE DEF y
<1>12. /\ T \in Seq(Nodes) /\ Len(T) <= 1 /\ Len(S) <= Len(T) /\ S \in Seq(Nodes)
       /\ Follows(T, Stands[Len(stack)], y)
    BY <1>1, <1>10, <1>11, TopWalks
<1> HIDE DEF S, T
<1>13. Ended(S, T, y)
    <2>1. PICK a \in DOMAIN T : T[a] = y
        BY <1>12, FollowsIn DEF ToSet
    <2>2. Len(S) <= a
        BY <1>12, <2>1, Places
    <2> QED BY <1>10, <2>1, <2>2 DEF Ended
<1>14. stack'[1].it.kind = stack[1].it.kind /\ Len(stack'[1].it.items) <= 1
    <2>1. stack'[1].it.kind = stack[1].it.kind
        BY <1>1, <1>4, <1>8, <1>9
    <2>2. stack'[1].it.items = << >>
        BY <1>8, <1>9
    <2> QED BY <2>1, <2>2
<1>15. Ended(Here(start, query, Stands, Len(stack)), Here(kids, query, Stands, Len(stack)), y)
    BY <1>13 DEF S, T
<1> HIDE DEF S, T
<1> QED BY <1>1, <1>2, <1>9, <1>10, <1>11, <1>14, <1>15, MoveWalks

LEMMA ChildNextWalks == RInv /\ IInv' /\ ChildNext => Walked'
<1> SUFFICES ASSUME RInv, IInv', ChildNext PROVE Walked'
    OBVIOUS
<1> DEFINE y == Top.it.next
           z == NextOf(kids, y)
           it == [Top.it EXCEPT !.cur = NewCopy, !.next = z]
           copy == CopyOf(y, "iterator")
<1>1. /\ pc = "move" /\ stack # << >> /\ Top.it.kind \in {"children", "all"} /\ y # None
      /\ copies' = Append(Freed(InHand), copy)
      /\ stack' = [stack EXCEPT ![1].it.cur = NewCopy, ![1].it.next = z]
      /\ pc' = "handle" /\ UNCHANGED <<kids, query, start, current, returned>>
    BY DEF ChildNext, AtMove, Given
<1>2. /\ StackTyped(stack, copies, query) /\ stack \in Seq(LevelType) /\ copies \in Seq(CopyType)
      /\ kids \in [Nodes -> Seq(Nodes)] /\ Len(copies) \in Nat
    BY Parts, TypedParts DEF RInv
<1>3. /\ Top = stack[1] /\ Top \in LevelType /\ Top.it \in IterType /\ y \in Nodes
      /\ InHand \in {NoCopy} \cup DOMAIN copies
    BY <1>1, <1>2, TopOf
<1>4. copy \in CopyType /\ copy.n = y
    BY <1>2, <1>3, CopyTyped DEF CopyOf
<1>5. /\ Freed(InHand) \in Seq(CopyType) /\ Len(Freed(InHand)) = Len(copies)
      /\ DOMAIN Freed(InHand) = DOMAIN copies /\ Keeps(copies, Freed(InHand))
    BY <1>2, <1>3, FreedCopies, FreedKeeps
<1>6. /\ Keeps(copies, copies') /\ copies'[NewCopy] = copy
      /\ \A c \in DOMAIN copies' : c \in DOMAIN copies \/ c = NewCopy
    <2>1. Keeps(copies, copies') /\ copies'[NewCopy] = copy
        BY <1>1, <1>4, <1>5, MadeKeeps DEF NewCopy
    <2>2. \A c \in DOMAIN copies' : c \in DOMAIN copies \/ c = NewCopy
        <3>1. /\ DOMAIN copies' = 1 .. Len(copies) + 1 /\ DOMAIN copies = 1 .. Len(copies)
            BY <1>1, <1>2, <1>4, <1>5, Lengthened, Places
        <3>2. \A c \in 1 .. Len(copies) + 1 : c \in 1 .. Len(copies) \/ c = Len(copies) + 1
            BY <1>2
        <3> QED BY <3>1, <3>2 DEF NewCopy
    <2> QED BY <2>1, <2>2
<1>7. Grows'
    <2>1. IsCopy(copy)
        BY <1>3 DEF IsCopy
    <2> HIDE DEF copy
    <2> QED BY <1>1, <1>6, <2>1, CopiesGrow
<1> SUFFICES ASSUME query \in Regular PROVE Walks'
    BY <1>1, <1>7 DEF Walked
<1>8. it \in IterType /\ it.cur = NewCopy /\ it.next = z /\ it.items = Top.it.items
      /\ it.kind = Top.it.kind /\ stack' = WithTop(stack, it)
    <2>1. z \in Nodes \cup {None} /\ NewCopy \in Nat
        BY <1>2, <1>3, LinksAreNodes DEF NewCopy
    <2> QED BY <1>1, <1>3, <2>1 DEF LevelType, IterType, WithTop
<1>9. /\ DOMAIN stack' = DOMAIN stack /\ stack'[1].it = it /\ stack'[1].step = stack[1].step
      /\ \A i \in DOMAIN stack : i # 1 => stack'[i] = stack[i]
    <2>1. stack # << >> /\ stack \in Seq(LevelType) /\ it \in IterType
        BY <1>1, <1>2, <1>8
    <2> HIDE DEF it
    <2> QED BY <1>8, <2>1, TopReplaced
<1> HIDE DEF it, copy
<1> DEFINE l == Len(stack)
           T == Here(kids, query, Stands, l)
           S == Here(start, query, Stands, l)
           p == Stands[l - 1]
<1>10. /\ Nexts[l] = y /\ On(stack'[1], copies') = y /\ Coming(stack'[1], copies') = z
    <2>1. Nexts[l] = Coming(Top, copies)
        BY <1>1, TopWalks
    <2>2. NewCopy # NoCopy
        BY <1>2 DEF NewCopy, NoCopy
    <2> QED BY <1>1, <1>4, <1>6, <1>8, <1>9, <2>1, <2>2 DEF Coming, On
<1>11. /\ T \in Seq(Nodes) /\ Distinct(T) /\ Len(S) <= Len(T) /\ S \in Seq(Nodes)
       /\ Follows(T, Stands[l], y)
    BY <1>1, <1>10, TopWalks
<1>12. T = kids[p] /\ p \in Nodes
    <2>1. l # 1 /\ query[l - 1].op = "T_IMM_CHILDREN"
        BY <1>1, TopSteps DEF LevelOK
    <2>2. IsLevel(query, Stands, l)
        BY <1>1, Walking
    <2> QED BY <2>1, <2>2 DEF Here, Targets, IsLevel
<1>13. PICK a \in DOMAIN T : T[a] = y
    BY <1>11, FollowsIn DEF ToSet
<1>14. Ordered(kids)
    BY <1>1, Walking
<1>15. IF a = Len(T) THEN z = None ELSE a + 1 \in DOMAIN T /\ z = T[a + 1]
    <2>1. a \in DOMAIN kids[p] /\ kids[p][a] = y
        BY <1>12, <1>13
    <2>2. IF a = Len(kids[p]) THEN NextOf(kids, kids[p][a]) = None
          ELSE a + 1 \in DOMAIN kids[p] /\ NextOf(kids, kids[p][a]) = kids[p][a + 1]
        BY <1>2, <1>12, <1>14, <2>1, NextIs
    <2> QED BY <1>12, <2>1, <2>2
<1> HIDE DEF T, S, z, y, l
<1>16. z # None => Follows(T, y, z)
    BY <1>1, <1>13, <1>15 DEF Follows
<1>17. z = None => Ended(S, T, y)
    <2>1. ASSUME z = None PROVE a = Len(T)
        <3>1. \A i \in DOMAIN T : T[i] # None
            BY <1>11, Places, TreeConstants
        <3> QED BY <1>15, <2>1, <3>1
    <2> QED BY <1>1, <1>11, <1>13, <2>1 DEF Ended
<1>18. Len(stack'[1].it.items) <= 1
    <2>1. Top.it.items = << >>
        <3>1. 1 \in DOMAIN stack /\ Owner(stack, 1)
            BY <1>1, <1>2, <1>3, TopOf DEF Owner
        <3>2. OwnersOK(stack, copies)
            BY <1>1, Parts DEF RInv, Held
        <3> QED BY <1>3, <3>1, <3>2 DEF OwnersOK
    <2> QED BY <1>8, <1>9, <2>1
<1> QED BY <1>1, <1>3, <1>6, <1>8, <1>9, <1>10, <1>16, <1>17, <1>18, MoveWalks DEF S, T, l, y

LEMMA EndWalks == RInv /\ IInv' /\ (ItemEnd \/ ChildrenEnd) => Walked'
<1> SUFFICES ASSUME RInv, IInv', ItemEnd \/ ChildrenEnd PROVE Walked'
    OBVIOUS
<1>1. /\ pc = "move" /\ pc' = "move" /\ stack # << >> /\ stack' = Tail(stack)
      /\ copies' \in {copies, Freed(InHand)} /\ UNCHANGED <<kids, query, start, current, returned>>
      /\ \/ Top.it.kind = "items" /\ Top.it.items = << >>
         \/ Top.it.kind = "children" /\ Top.it.next = None
    BY DEF ItemEnd, ChildrenEnd, AtMove, Given, Below
<1>2. Keeps(copies, copies') /\ DOMAIN copies' = DOMAIN copies
    <2>1. StackTyped(stack, copies, query) /\ copies \in Seq(CopyType)
        BY Parts, TypedParts DEF RInv
    <2>2. InHand \in {NoCopy} \cup DOMAIN copies
        BY <1>1, <2>1, TopOf
    <2>3. Keeps(copies, Freed(InHand)) /\ DOMAIN Freed(InHand) = DOMAIN copies
        BY <2>1, <2>2, FreedKeeps, FreedCopies
    <2>4. Keeps(copies, copies)
        BY DEF Keeps
    <2> QED BY <1>1, <2>3, <2>4
<1>3. Grows'
    BY <1>1, <1>2, CopiesGrow
<1> SUFFICES ASSUME query \in Regular PROVE Walks'
    BY <1>1, <1>3 DEF Walked
<1>4. Nexts[Len(stack)] = None
    BY <1>1, TopWalks DEF Coming
<1> QED BY <1>1, <1>2, <1>4, PopWalks

\* The object in hand, and the list of what the query goes on to from it.
LEMMA HandWalks ==
    ASSUME RInv, query \in Regular, pc = "handle", Top.step # << >>
    PROVE  LET n == Len(stack)
           IN  /\ InHand \in DOMAIN copies /\ InHand \in Nat /\ InHand # NoCopy
               /\ Object \in Nodes /\ stack # << >> /\ stack \in Seq(LevelType)
               /\ Top.step \in Seq(Levels) /\ Tail(Top.step) \in Seq(Levels)
               /\ query[n] \in Levels /\ query[n].op \in Handled /\ Head(Top.step) = query[n]
               /\ n + 1 \in 1 .. Len(query) + 1 /\ n \in Nat
               /\ \A K : Here(K, query, Stands, n + 1) = Targets(K, query[n], Object)
<1> DEFINE n == Len(stack)
<1>1. /\ stack # << >> /\ InHand # NoCopy /\ StackTyped(stack, copies, query)
      /\ stack \in Seq(LevelType) /\ copies \in Seq(CopyType) /\ n \in Nat /\ n \in 1 .. n
    BY Walking
<1>2. InHand \in DOMAIN copies /\ Top.step \in Seq(Levels) /\ InHand = Top.it.cur
    BY <1>1, TopOf DEF InHand
<1>3. InHand \in Nat /\ copies[InHand] \in CopyType
    BY <1>1, <1>2, Places
<1>4. Object \in Nodes
    BY <1>3 DEF Object, CopyType
<1>5. n \in DOMAIN query /\ Head(Top.step) = query[n] /\ Top = LevelAt(stack, n)
    BY <1>1, TopSteps
<1>6. /\ query[n] \in Levels /\ query[n].op \in Handled /\ Len(query) \in Nat
      /\ DOMAIN query = 1 .. Len(query)
    BY <1>5, RegularLevels
<1>7. Stands[n] = Object
    <2>1. Stands[n] = On(Top, copies)
        BY <1>1, <1>5, LevelsOf DEF Stands
    <2> QED BY <1>1, <1>2, <2>1 DEF On, Object
<1>8. n + 1 \in 1 .. Len(query) + 1 /\ n + 1 # 1 /\ (n + 1) - 1 = n
    BY <1>1, <1>5, <1>6
<1>9. \A K : Here(K, query, Stands, n + 1) = Targets(K, query[n], Object)
    BY <1>7, <1>8 DEF Here
<1>10. Tail(Top.step) \in Seq(Levels)
    BY <1>2, Popped
<1> QED BY <1>1, <1>2, <1>3, <1>4, <1>5, <1>6, <1>8, <1>9, <1>10

\* An array iterator over one item or none is pushed.
\* Its items are what the query goes on to.
Offers(cp, items) ==
    IF items = << >> THEN Targets(start, query[Len(stack)], Object) = << >>
    ELSE /\ Len(items) = 1 /\ cp[items[1]].n \in Nodes
         /\ Targets(kids, query[Len(stack)], Object) = <<cp[items[1]].n>>

LEMMA ItemsPushed ==
    ASSUME RInv, IInv', query \in Regular, pc = "handle", Top.step # << >>,
           NEW items \in Seq(Nat), Push(Items(items)), Offers(copies', items),
           Head(Top.step).op \in Single, Keeps(copies, copies')
    PROVE  Walks'
<1> DEFINE l == [step |-> Tail(Top.step), it |-> Items(items)]
           z == Coming(l, copies')
           n == Len(stack)
<1>1. stack' = <<l>> \o stack /\ pc' = "move" /\ UNCHANGED <<kids, query, start, current, returned>>
    BY DEF Push, Given
<1>2. /\ Tail(Top.step) \in Seq(Levels) /\ Head(Top.step) = query[n]
      /\ \A K : Here(K, query, Stands, n + 1) = Targets(K, query[n], Object)
    BY HandWalks
<1>3. /\ l \in LevelType /\ l.step = Tail(Top.step) /\ l.it.cur = NoCopy
      /\ l.it.kind = "items" /\ l.it.items = items
    BY <1>2 DEF LevelType, IterType, Items, NoCopy
<1> HIDE DEF l
<1>4. z = IF items = << >> THEN None ELSE copies'[items[1]].n
    <2>1. items # << >> => Head(items) = items[1]
        BY Popped
    <2> QED BY <1>3, <2>1 DEF Coming
<1> HIDE DEF z
<1>5. z # None => Follows(Here(kids, query, Stands, n + 1), None, z)
    <2>1. \A x \in Nodes : Follows(<<x>>, None, x)
        BY DEF Follows
    <2> QED BY <1>2, <1>4, <2>1 DEF Offers
<1>6. z = None => Here(start, query, Stands, n + 1) = << >>
    BY <1>2, <1>4, TreeConstants DEF Offers
<1>7. Len(items) <= 1
    <2>1. CASE items = << >>
        BY <2>1
    <2>2. CASE items # << >>
        <3>1. Len(items) = 1
            BY <2>2 DEF Offers
        <3> QED BY <3>1
    <2> QED BY <2>1, <2>2
<1> QED BY <1>1, <1>2, <1>3, <1>5, <1>6, <1>7, PushWalks DEF z

LEMMA ConditionTrueWalks == RInv /\ IInv' /\ ConditionTrue => Walked'
<1> SUFFICES ASSUME RInv, IInv', ConditionTrue PROVE Walked'
    OBVIOUS
<1>1. /\ pc = "handle" /\ Top.step # << >> /\ Head(Top.step).op = "T_CONDITION"
      /\ "true" \in Verdicts(Object, Head(Top.step).cond)
      /\ Push(Items(<<InHand>>)) /\ AtOp("T_CONDITION") /\ ReadCells
    BY DEF ConditionTrue, AtOp, Verdict
<1>2. pc' = "move" /\ UNCHANGED <<kids, query, start, current, returned>>
    BY <1>1 DEF Push, Given
<1>3. Grows' /\ Keeps(copies, copies')
    BY <1>1, <1>2, ReadCopies
<1> SUFFICES ASSUME query \in Regular PROVE Walks'
    BY <1>2, <1>3 DEF Walked
<1>4. /\ InHand \in Nat /\ Object \in Nodes /\ Head(Top.step) = query[Len(stack)]
      /\ Len(stack) \in Nat /\ Len(stack) + 1 \in 1 .. Len(query) + 1 /\ Len(stack) \in 1 .. Len(stack)
    BY <1>1, HandWalks, Walking
<1>5. Len(stack) \in DOMAIN query
    BY <1>1, Walking, TopSteps
<1>6. Verdicts(Object, query[Len(stack)].cond) = {"true"}
    <2>1. Verdicts(Object, query[Len(stack)].cond) \in {{"true"}, {"false"}}
        BY <1>1, <1>4, <1>5, RegularLevels
    <2> QED BY <1>1, <1>4, <2>1
<1>7. Targets(kids, query[Len(stack)], Object) = <<Object>>
    BY <1>1, <1>4, <1>6 DEF Targets
<1> DEFINE items == <<InHand>>
<1>8. /\ items \in Seq(Nat) /\ Len(items) = 1 /\ items # << >> /\ items[1] = InHand
      /\ copies'[items[1]].n = Object
    <2>1. InHand \in DOMAIN copies
        BY <1>1, HandIsAlive DEF RInv
    <2> QED BY <1>3, <1>4, <2>1 DEF Object, Keeps
<1>9. Head(Top.step).op \in Single
    BY <1>1 DEF Single
<1>10. Push(Items(items))
    BY <1>1
<1>11. Offers(copies', items)
    BY <1>4, <1>7, <1>8 DEF Offers
<1> HIDE DEF items
<1> QED BY <1>1, <1>3, <1>8, <1>9, <1>10, <1>11, ItemsPushed

LEMMA PushParentWalks == RInv /\ IInv' /\ PushParent => Walked'
<1> SUFFICES ASSUME RInv, IInv', PushParent PROVE Walked'
    OBVIOUS
<1> DEFINE r    == ParentOf(kids, Object)
           copy == CopyOf(r, "nobody")
           items == <<NewCopy>>
<1>1. /\ pc = "handle" /\ Top.step # << >> /\ Head(Top.step).op = "T_PARENT" /\ r # None
      /\ copies' = Append(copies, copy) /\ Push(Items(items))
    BY DEF PushParent, AtOp
<1>2. pc' = "move" /\ UNCHANGED <<kids, query, start, current, returned>>
    BY <1>1 DEF Push, Given
<1>3. /\ StackTyped(stack, copies, query) /\ copies \in Seq(CopyType) /\ stack # << >>
      /\ InHand # NoCopy /\ kids \in [Nodes -> Seq(Nodes)] /\ Len(copies) \in Nat
    BY <1>1, Parts, TypedParts DEF RInv, Typed
<1>4. r \in Nodes
    <2>1. InHand \in DOMAIN copies
        BY <1>3, TopOf
    <2>2. copies[InHand] \in CopyType
        BY <1>3, <2>1, Places
    <2>3. Object \in Nodes
        BY <2>2 DEF Object, CopyType
    <2> QED BY <1>1, <1>3, <2>3, LinksAreNodes
<1>5. copy \in CopyType /\ copy.n = r
    BY <1>3, <1>4, CopyTyped DEF CopyOf
<1>6. IsCopy(copy)
    BY <1>4 DEF IsCopy
<1> HIDE DEF copy, r
<1>7. /\ Keeps(copies, copies') /\ copies'[NewCopy] = copy
      /\ \A c \in DOMAIN copies' : c \in DOMAIN copies \/ c = NewCopy
    <2>1. Keeps(copies, copies)
        BY DEF Keeps
    <2>2. Keeps(copies, copies') /\ copies'[NewCopy] = copy
        BY <1>1, <1>3, <1>5, <2>1, MadeKeeps DEF NewCopy
    <2>3. DOMAIN copies' = 1 .. Len(copies) + 1 /\ DOMAIN copies = 1 .. Len(copies)
        BY <1>1, <1>3, <1>5, Lengthened
    <2>4. \A c \in 1 .. Len(copies) + 1 : c \in 1 .. Len(copies) \/ c = Len(copies) + 1
        BY <1>3
    <2> QED BY <2>2, <2>3, <2>4 DEF NewCopy
<1>8. Grows'
    BY <1>1, <1>2, <1>6, <1>7, CopiesGrow
<1> SUFFICES ASSUME query \in Regular PROVE Walks'
    BY <1>2, <1>8 DEF Walked
<1>9. Head(Top.step) = query[Len(stack)]
    BY <1>1, HandWalks
<1>10. Targets(kids, query[Len(stack)], Object) = <<r>>
    BY <1>1, <1>9 DEF Targets, r
<1>11. /\ items \in Seq(Nat) /\ Len(items) = 1 /\ items # << >> /\ items[1] = NewCopy
       /\ copies'[items[1]].n = r
    BY <1>3, <1>5, <1>7 DEF NewCopy
<1>12. Head(Top.step).op \in Single
    BY <1>1 DEF Single
<1>13. Offers(copies', items)
    BY <1>4, <1>10, <1>11 DEF Offers
<1> HIDE DEF items
<1> QED BY <1>1, <1>7, <1>11, <1>12, <1>13, ItemsPushed

LEMMA PushNothingWalks == RInv /\ IInv' /\ PushNothing => Walked'
<1> SUFFICES ASSUME RInv, IInv', PushNothing PROVE Walked'
    OBVIOUS
<1>1. /\ pc = "handle" /\ Top.step # << >> /\ Head(Top.step).op = "T_PARENT"
      /\ ParentOf(kids, Object) = None /\ Push(Items(<< >>)) /\ UNCHANGED copies
    BY DEF PushNothing, AtOp
<1>2. pc' = "move" /\ UNCHANGED <<kids, query, start, current, returned>>
    BY <1>1 DEF Push, Given
<1>3. Grows' /\ Keeps(copies, copies')
    BY <1>1, <1>2, SameCopies
<1> SUFFICES ASSUME query \in Regular PROVE Walks'
    BY <1>2, <1>3 DEF Walked
<1>4. /\ kids \in [Nodes -> Seq(Nodes)] /\ start \in [Nodes -> Seq(Nodes)]
      /\ Ordered(kids) /\ Grown(start, kids)
      /\ Object \in Nodes /\ Head(Top.step) = query[Len(stack)]
    BY <1>1, HandWalks, Walking
<1>5. ParentOf(start, Object) = None
    BY <1>1, <1>4, ParentStays
<1>6. Targets(start, query[Len(stack)], Object) = << >>
    BY <1>1, <1>4, <1>5 DEF Targets
<1> DEFINE items == << >>
<1>7. items \in Seq(Nat) /\ Push(Items(items)) /\ Offers(copies', items)
    BY <1>1, <1>6 DEF Offers
<1>8. Head(Top.step).op \in Single
    BY <1>1 DEF Single
<1> HIDE DEF items
<1> QED BY <1>1, <1>3, <1>7, <1>8, ItemsPushed

LEMMA PushChildrenWalks == RInv /\ IInv' /\ PushChildren => Walked'
<1> SUFFICES ASSUME RInv, IInv', PushChildren PROVE Walked'
    OBVIOUS
<1> DEFINE z == copies[InHand].first
           l == [step |-> Tail(Top.step), it |-> Children("children", z)]
           n == Len(stack)
<1>1. /\ pc = "handle" /\ Top.step # << >> /\ Head(Top.step).op = "T_IMM_CHILDREN"
      /\ stack' = <<l>> \o stack /\ pc' = "move" /\ UNCHANGED copies
      /\ UNCHANGED <<kids, query, start, current, returned>>
    BY DEF PushChildren, AtOp, Push, Given
<1>2. Grows' /\ Keeps(copies, copies')
    BY <1>1, SameCopies
<1> SUFFICES ASSUME query \in Regular PROVE Walks'
    BY <1>1, <1>2 DEF Walked
<1>3. /\ InHand \in DOMAIN copies /\ Object \in Nodes /\ Tail(Top.step) \in Seq(Levels)
      /\ Head(Top.step) = query[n] /\ copies \in Seq(CopyType)
      /\ CopiesKnow(start, kids, copies)
      /\ \A K : Here(K, query, Stands, n + 1) = Targets(K, query[n], Object)
    BY <1>1, HandWalks, Walking
<1>4. z \in Nodes \cup {None}
    <2>1. copies[InHand] \in CopyType
        BY <1>3, Places
    <2> QED BY <2>1 DEF CopyType
<1>5. \A K : Here(K, query, Stands, n + 1) = K[Object]
    BY <1>1, <1>3 DEF Targets
<1>6. /\ z = None => start[Object] = << >>
      /\ z # None => kids[Object] # << >> /\ kids[Object][1] = z
    BY <1>3 DEF CopiesKnow, Object
<1> HIDE DEF z
<1>7. /\ l \in LevelType /\ l.step = Tail(Top.step) /\ l.it.cur = NoCopy
      /\ l.it.kind = "children" /\ l.it.next = z
    BY <1>3, <1>4 DEF LevelType, IterType, Children, NoCopy
<1> HIDE DEF l
<1>8. Coming(l, copies') = z
    BY <1>7 DEF Coming
<1>9. /\ z # None => Follows(Here(kids, query, Stands, n + 1), None, z)
      /\ z = None => Here(start, query, Stands, n + 1) = << >>
    BY <1>5, <1>6 DEF Follows
<1>10. query[n].op = "T_IMM_CHILDREN"
    BY <1>1, <1>3
<1> QED BY <1>1, <1>2, <1>7, <1>8, <1>9, <1>10, PushWalks

\* The object in hand has been dealt with, and the stack has not changed.
LEMMA SkipWalks ==
    ASSUME RInv, IInv', query \in Regular, pc = "handle", pc' = "move",
           UNCHANGED <<kids, query, start, stack, returned>>, Keeps(copies, copies'),
           Top.step # << >>, Targets(start, query[Len(stack)], Object) = << >>
    PROVE  Walks'
<1>1. /\ Here(start, query, Stands, Len(stack) + 1) = << >> /\ Len(stack) \in Nat
      /\ Len(stack) + 1 \in 1 .. Len(query) + 1 /\ Len(Stands) = Len(stack)
    BY HandWalks, Walking
<1>2. \A w \in WaysOf(query) :
         /\ Passed(kids, query, Stands, FALSE, w) => Passed(kids, query, Stands, TRUE, w)
         /\ w \in Ways(start, query) /\ Ahead(kids, query, Stands, FALSE, w)
            => Ahead(kids, query, Stands, TRUE, w)
    BY <1>1, SkipDivides
<1>3. /\ Sound(kids, query, Stands, TRUE, returned)
      /\ Complete(start, kids, query, Stands, TRUE, returned)
    <2>1. /\ Sound(kids, query, Stands, FALSE, returned)
          /\ Complete(start, kids, query, Stands, FALSE, returned)
        BY Walking
    <2> QED BY <1>2, <2>1, Redivided
<1>4. Stands' = Stands /\ Nexts' = Nexts
    BY StackStays
<1>5. /\ Shaped(stack, query) /\ Standing(start, kids, query, Stands, Nexts)
      /\ InOrder(kids, query, returned)
    BY Walking
<1> QED BY <1>3, <1>4, <1>5 DEF Walks, Stands, Nexts

LEMMA ConditionFalseWalks == RInv /\ IInv' /\ ConditionFalse => Walked'
<1> SUFFICES ASSUME RInv, IInv', ConditionFalse PROVE Walked'
    OBVIOUS
<1>1. /\ pc = "handle" /\ pc' = "move" /\ Top.step # << >> /\ Head(Top.step).op = "T_CONDITION"
      /\ "false" \in Verdicts(Object, Head(Top.step).cond)
      /\ AtOp("T_CONDITION") /\ ReadCells
      /\ UNCHANGED <<kids, query, start, stack, current, returned>>
    BY DEF ConditionFalse, AtOp, Verdict, Given
<1>2. Grows' /\ Keeps(copies, copies')
    BY <1>1, ReadCopies
<1> SUFFICES ASSUME query \in Regular PROVE Walks'
    BY <1>1, <1>2 DEF Walked
<1>3. Object \in Nodes /\ Head(Top.step) = query[Len(stack)]
    BY <1>1, HandWalks
<1>4. Len(stack) \in DOMAIN query
    BY <1>1, Walking, TopSteps
<1>5. Verdicts(Object, query[Len(stack)].cond) # {"true"}
    BY <1>1, <1>3
<1>6. Targets(start, query[Len(stack)], Object) = << >>
    BY <1>1, <1>3, <1>5 DEF Targets
<1> QED BY <1>1, <1>2, <1>6, SkipWalks

\* The levels a regular query does not have.
LEMMA OtherWalks ==
    RInv /\ IInv' /\ (AllBreaks \/ ConditionDies \/ PushAll \/ Unhandled) => Walked'
<1> SUFFICES ASSUME RInv, IInv', AllBreaks \/ ConditionDies \/ PushAll \/ Unhandled
             PROVE  Walked'
    OBVIOUS
<1>1. /\ pc \in {"move", "handle"} /\ pc' \in {"move", "wild", "over"}
      /\ UNCHANGED <<kids, query, start, returned>>
    BY DEF AllBreaks, ConditionDies, PushAll, Unhandled, AtOp, AtMove, Push, Given
<1>2. Grows'
    <2>1. CASE UNCHANGED copies
        BY <1>1, <2>1, SameCopies
    <2>2. CASE AllBreaks
        <3>1. stack # << >> /\ copies' = Freed(InHand)
            BY <2>2 DEF AllBreaks, AtMove
        <3>2. StackTyped(stack, copies, query) /\ copies \in Seq(CopyType)
            BY Parts, TypedParts DEF RInv
        <3>3. InHand \in {NoCopy} \cup DOMAIN copies
            BY <3>1, <3>2, TopOf
        <3>4. Keeps(copies, copies') /\ DOMAIN copies' = DOMAIN copies
            BY <3>1, <3>2, <3>3, FreedKeeps, FreedCopies
        <3> QED BY <1>1, <3>4, CopiesGrow
    <2> QED BY <2>1, <2>2 DEF ConditionDies, PushAll, Unhandled
<1>3. query \notin Regular
    <2> SUFFICES ASSUME query \in Regular PROVE FALSE
        OBVIOUS
    <2>1. CASE AllBreaks
        <3>1. stack # << >> /\ Top.it.kind = "all"
            BY <2>1 DEF AllBreaks, AtMove
        <3> QED BY <1>1, <3>1, TopSteps DEF LevelOK
    <2>2. CASE ConditionDies
        <3>1. /\ pc = "handle" /\ Top.step # << >> /\ Head(Top.step).op = "T_CONDITION"
              /\ "undefined" \in Verdicts(Object, Head(Top.step).cond)
            BY <2>2 DEF ConditionDies, AtOp, Verdict
        <3>2. Object \in Nodes /\ Head(Top.step) = query[Len(stack)]
            BY <3>1, HandWalks
        <3>3. Len(stack) \in DOMAIN query
            BY <3>1, Walking, TopSteps
        <3>4. Verdicts(Object, query[Len(stack)].cond) \in {{"true"}, {"false"}}
            BY <3>1, <3>2, <3>3, RegularLevels
        <3> QED BY <3>1, <3>2, <3>4
    <2>3. CASE PushAll \/ Unhandled
        <3>1. /\ pc = "handle" /\ Top.step # << >>
              /\ Head(Top.step).op \in {"T_ALL_CHILDREN", "T_SELF", "T_ATTRIBUTES"}
            BY <2>3 DEF PushAll, Unhandled, AtOp
        <3> QED BY <3>1, HandWalks DEF Handled
    <2> QED BY <2>1, <2>2, <2>3
<1> QED BY <1>1, <1>2, <1>3 DEF Walked

LEMMA ReturnWalks == RInv /\ IInv' /\ ReturnNode => Walked'
<1> SUFFICES ASSUME RInv, IInv', ReturnNode PROVE Walked'
    OBVIOUS
<1>1. /\ pc = "handle" /\ pc' = "idle" /\ Top.step = << >> /\ returned' = Append(returned, Way)
      /\ UNCHANGED <<kids, query, start, stack, copies>>
    BY DEF ReturnNode, Given
<1>2. Grows'
    <2>1. Keeps(copies, copies')
        BY <1>1 DEF Keeps
    <2> QED BY <1>1 DEF RInv, Grows
<1> SUFFICES ASSUME query \in Regular PROVE Walks'
    BY <1>1, <1>2 DEF Walked
<1>3. /\ stack # << >> /\ Len(Stands) = Len(stack) /\ Len(stack) = Len(query) + 1
      /\ InHand # NoCopy /\ StackTyped(stack, copies, query) /\ copies \in Seq(CopyType)
      /\ kids \in [Nodes -> Seq(Nodes)] /\ Ordered(kids) /\ Stands \in Seq(Objects)
      /\ Standing(start, kids, query, Stands, Nexts)
      /\ DOMAIN Stands = 1 .. Len(stack) /\ Len(stack) \in Nat
      /\ Sound(kids, query, Stands, FALSE, returned) /\ InOrder(kids, query, returned)
      /\ Complete(start, kids, query, Stands, FALSE, returned)
    BY <1>1, Walking, TopSteps
<1>4. \A h \in 1 .. Len(stack) : LevelAt(stack, h).it.cur # NoCopy
    <2>1. \A i \in DOMAIN stack : stack[i].it.cur # NoCopy
        BY <1>3, TopOf DEF StackTyped
    <2>2. \A h \in 1 .. Len(stack) : Len(stack) + 1 - h \in DOMAIN stack
        BY <1>3, FromBottom, Places DEF StackTyped
    <2> QED BY <2>1, <2>2 DEF LevelAt
<1>5. Way = Stands
    BY <1>4 DEF Way, Stands, Ons, On, LevelAt
<1>6. Stands[Len(Stands)] # None
    <2>1. Way \in Seq(Nodes) /\ Len(Way) = Len(stack)
        BY <1>3, WayIsOfNodes
    <2>2. Len(stack) \in 1 .. Len(stack)
        BY <1>3, Walking, <1>1
    <2> QED BY <1>3, <1>5, <2>1, <2>2, Places, TreeConstants
<1>7. /\ Stands \in Ways(kids, query) /\ Passed(kids, query, Stands, TRUE, Stands)
      /\ \A w \in WaysOf(query) :
            /\ Passed(kids, query, Stands, FALSE, w) =>
                  Passed(kids, query, Stands, TRUE, w) /\ Before(kids, query, w, Stands)
            /\ Ahead(kids, query, Stands, FALSE, w) =>
                  w = Stands \/ Ahead(kids, query, Stands, TRUE, w)
    BY <1>3, <1>6, ReturnDivides
<1>8. \A K : Ways(K, query) \subseteq WaysOf(query)
    BY DEF Ways, WaysOf
<1>9. /\ Len(returned) \in Nat /\ DOMAIN returned = 1 .. Len(returned)
      /\ DOMAIN returned' = 1 .. Len(returned) + 1 /\ returned'[Len(returned) + 1] = Stands
      /\ \A i \in 1 .. Len(returned) : returned'[i] = returned[i]
    <2>1. returned \in Seq(Seq(Nodes)) /\ Way \in Seq(Nodes)
        BY <1>3, Parts, TypedParts, WayIsOfNodes DEF RInv
    <2> QED BY <1>1, <1>5, <2>1, Lengthened
<1>10. \A i \in 1 .. Len(returned) + 1 : i = Len(returned) + 1 \/ i \in 1 .. Len(returned)
    BY <1>9
<1>11. \A i \in 1 .. Len(returned) : /\ returned[i] \in Ways(kids, query)
                                    /\ Passed(kids, query, Stands, TRUE, returned[i])
                                    /\ Before(kids, query, returned[i], Stands)
    BY <1>3, <1>7, <1>8, <1>9 DEF Sound
<1>12. Sound(kids, query, Stands, TRUE, returned')
    BY <1>7, <1>9, <1>10, <1>11 DEF Sound
<1>13. InOrder(kids, query, returned')
    <2> SUFFICES ASSUME NEW i \in DOMAIN returned', NEW j \in DOMAIN returned', i < j
                 PROVE  Before(kids, query, returned'[i], returned'[j])
        BY DEF InOrder
    <2>1. i \in 1 .. Len(returned)
        BY <1>9
    <2>2. CASE j = Len(returned) + 1
        BY <1>9, <1>11, <2>1, <2>2
    <2>3. CASE j \in 1 .. Len(returned)
        BY <1>3, <1>9, <2>1, <2>3 DEF InOrder
    <2> QED BY <1>9, <1>10, <2>2, <2>3
<1>14. Complete(start, kids, query, Stands, TRUE, returned')
    <2> SUFFICES ASSUME NEW w \in Ways(start, query)
                 PROVE  w \in ToSet(returned') \/ Ahead(kids, query, Stands, TRUE, w)
        BY DEF Complete
    <2>1. w \in ToSet(returned) => w \in ToSet(returned')
        BY <1>9 DEF ToSet
    <2>2. Stands \in ToSet(returned')
        <3>1. Len(returned) + 1 \in 1 .. Len(returned) + 1
            BY <1>9
        <3> QED BY <1>9, <3>1 DEF ToSet
    <2> QED BY <1>3, <1>7, <1>8, <2>1, <2>2 DEF Complete
<1>15. Stands' = Stands /\ Nexts' = Nexts
    BY <1>1 DEF Stands, Nexts
<1> QED BY <1>1, <1>3, <1>12, <1>13, <1>14, <1>15, Walking DEF Walks, Stands, Nexts
\* The client asks for the next object, and the stack is empty.
LEMMA TurnWalks == RInv /\ (MoveNext \/ QueryEnds) => Walked'
<1> SUFFICES ASSUME RInv, MoveNext \/ QueryEnds PROVE Walked'
    OBVIOUS
<1>1. /\ pc \in {"idle", "move"} /\ pc' \in {"move", "over"} /\ (pc' = "over" => stack = << >>)
      /\ UNCHANGED <<kids, query, start, stack, copies, returned>>
    BY DEF MoveNext, QueryEnds, Given
<1>2. Grows'
    BY <1>1, SameCopies
<1> SUFFICES ASSUME query \in Regular PROVE Walks'
    BY <1>1, <1>2 DEF Walked
<1>3. Stands' = Stands /\ Nexts' = Nexts
    BY <1>1 DEF Stands, Nexts
<1>4. (pc # "handle") = TRUE /\ (pc' # "handle") = TRUE /\ pc # "none" /\ pc' # "wild"
    BY <1>1
<1>5. /\ Shaped(stack, query) /\ Standing(start, kids, query, Stands, Nexts)
      /\ Sound(kids, query, Stands, TRUE, returned) /\ InOrder(kids, query, returned)
      /\ Complete(start, kids, query, Stands, TRUE, returned)
    BY <1>4, Walking
<1> QED BY <1>1, <1>3, <1>4, <1>5 DEF Walks, Stands, Nexts

\* The tree grows between two moves.
LEMMA LinkWalks == RInv /\ LinkNode => Walked'
<1> SUFFICES ASSUME RInv, LinkNode PROVE Walked'
    OBVIOUS
<1>1. /\ pc \in {"none", "idle"}
      /\ UNCHANGED <<query, start, stack, copies, current, pc, returned>>
    BY DEF LinkNode, machine
<1>2. PICK p \in InTree(kids), n \in Nodes \ InTree(kids) : Link(p, n)
    BY DEF LinkNode, TreeNext
<1>3. /\ kids \in [Nodes -> Seq(Nodes)] /\ start \in [Nodes -> Seq(Nodes)]
      /\ Ordered(kids) /\ Grown(start, kids) /\ CopiesKnow(start, kids, copies)
      /\ copies \in Seq(CopyType)
    BY Parts, TypedParts DEF RInv, Grows
<1>4. kids' \in [Nodes -> Seq(Nodes)] /\ Ordered(kids') /\ Grown(kids, kids')
    BY <1>2, <1>3, Links DEF Link
<1>5. Grown(start, kids')
    BY <1>3, <1>4, GrownAgain
<1>6. CopiesKnow(start, kids', copies)
    <2> SUFFICES ASSUME NEW c \in DOMAIN copies
                 PROVE  /\ copies[c].first = None => start[copies[c].n] = << >>
                        /\ copies[c].first # None =>
                              kids'[copies[c].n] # << >> /\ kids'[copies[c].n][1] = copies[c].first
        BY DEF CopiesKnow
    <2> DEFINE m == copies[c].n
    <2>1. m \in Nodes
        <3>1. copies[c] \in CopyType
            BY <1>3, Places
        <3> QED BY <3>1 DEF CopyType
    <2>2. kids[m] \in Seq(Nodes) /\ kids'[m] \in Seq(Nodes) /\ Begins(kids[m], kids'[m])
        BY <1>3, <1>4, <2>1 DEF Grown
    <2>3. kids[m] # << >> => kids'[m] # << >> /\ kids'[m][1] = kids[m][1]
        BY <2>2, Places DEF Begins
    <2> QED BY <1>3, <2>3 DEF CopiesKnow
<1>7. Grows'
    BY <1>1, <1>3, <1>4, <1>5, <1>6 DEF Grows, RInv
<1> SUFFICES ASSUME query \in Regular, pc # "none" PROVE Walks'
    BY <1>1, <1>7 DEF Walked
<1>8. Stands' = Stands /\ Nexts' = Nexts
    BY <1>1 DEF Stands, Nexts
<1>9. (pc # "handle") = TRUE /\ (pc' # "handle") = TRUE /\ pc' # "wild" /\ pc' # "over"
    BY <1>1
<1>10. /\ Shaped(stack, query) /\ Standing(start, kids, query, Stands, Nexts)
       /\ Sound(kids, query, Stands, TRUE, returned) /\ InOrder(kids, query, returned)
       /\ Complete(start, kids, query, Stands, TRUE, returned) /\ Stands \in Seq(Objects)
    BY <1>9, Walking
<1>11. /\ Standing(start, kids', query, Stands, Nexts)
       /\ \A w, done : /\ Passed(kids, query, Stands, done, w) => Passed(kids', query, Stands, done, w)
                       /\ Ahead(kids, query, Stands, done, w) => Ahead(kids', query, Stands, done, w)
    BY <1>3, <1>4, <1>10, GrowDivides
<1>12. /\ Ways(kids, query) \subseteq Ways(kids', query)
       /\ \A v, w \in Ways(kids, query) : Before(kids, query, v, w) => Before(kids', query, v, w)
    BY <1>3, <1>4, WaysGrow
<1>13. Sound(kids', query, Stands, TRUE, returned)
    BY <1>10, <1>11, <1>12 DEF Sound
<1>14. InOrder(kids', query, returned)
    BY <1>10, <1>12 DEF InOrder, Sound
<1>15. Complete(start, kids', query, Stands, TRUE, returned)
    BY <1>10, <1>11 DEF Complete
<1> QED BY <1>1, <1>8, <1>9, <1>10, <1>11, <1>13, <1>14, <1>15 DEF Walks, Stands, Nexts

\* The query is applied: it stands before the root, and all its ways are ahead.
LEMMA ApplyWalks == ASSUME NEW q \in Queries PROVE RInv /\ IInv' /\ Apply(q) => Walked'
<1> SUFFICES ASSUME RInv, IInv', Apply(q) PROVE Walked'
    OBVIOUS
<1> DEFINE client == CopyOf(Root, "client")
           level  == [step |-> q, it |-> Items(<<1>>)]
<1>1. /\ pc = "none" /\ query' = q /\ start' = kids /\ copies' = <<client>>
      /\ stack' = <<level>> /\ pc' = "idle" /\ UNCHANGED <<kids, current, returned>>
    BY DEF Apply
<1>2. kids \in [Nodes -> Seq(Nodes)] /\ Ordered(kids) /\ returned = << >>
    BY <1>1, Parts, TypedParts DEF RInv, Grows
<1>3. client.n = Root /\ IsCopy(client)
    BY TreeConstants DEF CopyOf, IsCopy
<1>4. level.step = q /\ level.it.cur = NoCopy /\ level.it.kind = "items" /\ level.it.items = <<1>>
    BY DEF Items
<1> HIDE DEF client, level
<1>5. DOMAIN copies' = {1} /\ copies'[1] = client
    <2>1. DOMAIN <<client>> = {1} /\ <<client>>[1] = client
        OBVIOUS
    <2> QED BY <1>1, <2>1
<1>6. Grows'
    <2>1. Grown(kids, kids)
        BY GrownSame
    <2>2. CopiesKnow(kids, kids, << >>)
        BY DEF CopiesKnow
    <2>3. Keeps(<< >>, copies')
        BY DEF Keeps
    <2>4. CopiesKnow(kids, kids, copies')
        BY <1>2, <1>3, <1>5, <2>1, <2>2, <2>3, KnownCopies
    <2> QED BY <1>1, <1>2, <2>1, <2>4 DEF Grows
<1> SUFFICES ASSUME q \in Regular PROVE Walks'
    BY <1>1, <1>6 DEF Walked
<1>7. Len(stack') = 1 /\ 1 .. 1 = {1} /\ LevelAt(stack', 1) = level
    <2>1. Len(<<level>>) = 1 /\ <<level>>[1] = level /\ 1 .. 1 = {1} /\ 1 + 1 - 1 = 1
        OBVIOUS
    <2> QED BY <1>1, <2>1 DEF LevelAt
<1>8. /\ Stands' \in Seq(Objects) /\ Len(Stands') = 1 /\ DOMAIN Stands' = {1}
      /\ Stands'[1] = None /\ Nexts'[1] = Root
    <2>1. /\ StackTyped(stack', copies', query') /\ copies' \in Seq(CopyType)
        BY TypedAfter
    <2>2. /\ Stands' \in Seq(Objects) /\ Len(Stands') = 1 /\ DOMAIN Stands' = {1}
          /\ Stands'[1] = On(level, copies') /\ Nexts'[1] = Coming(level, copies')
        BY <1>7, <2>1, LevelsOf DEF Stands, Nexts
    <2>3. On(level, copies') = None
        BY <1>4 DEF On
    <2>4. Coming(level, copies') = Root
        <3>1. <<1>> # << >> /\ Head(<<1>>) = 1
            OBVIOUS
        <3> QED BY <1>3, <1>4, <1>5, <3>1 DEF Coming
    <2> QED BY <2>2, <2>3, <2>4
<1>9. LevelOK(level, q, 1)
    <2>1. q \in Seq(Levels) /\ Len(q) \in Nat
        BY RegularLevels
    <2>2. SubSeq(q, 1, Len(q)) = q
        BY <2>1, SubSeqFull
    <2>3. Len(<<1>>) <= 1
        OBVIOUS
    <2> QED BY <1>4, <2>2, <2>3 DEF LevelOK
<1>10. Shaped(stack', q)
    BY <1>7, <1>9 DEF Shaped
<1>11. \A K, o : Here(K, q, o, 1) = <<Root>>
    BY DEF Here
<1>12. Standing(kids, kids, q, Stands', Nexts')
    <2>1. 1 <= Len(q) + 1
        BY RegularLevels
    <2>2. Root # None
        BY TreeConstants
    <2>3. Follows(<<Root>>, None, Root)
        BY DEF Follows
    <2> QED BY <1>8, <1>11, <2>1, <2>2, <2>3 DEF Standing
<1>13. Sound(kids, q, Stands', TRUE, << >>) /\ InOrder(kids, q, << >>)
    BY DEF Sound, InOrder
<1>14. Complete(kids, kids, q, Stands', TRUE, << >>)
    <2> SUFFICES ASSUME NEW w \in Ways(kids, q) PROVE Ahead(kids, q, Stands', TRUE, w)
        BY DEF Complete
    <2>1. w[1] = Root
        BY DEF Ways
    <2>2. Left(<<Root>>, None, Root)
        BY DEF Left, ToSet
    <2>3. Agree(Stands', w, 1 - 1)
        BY DEF Agree
    <2> QED BY <1>8, <1>11, <2>1, <2>2, <2>3 DEF Ahead
<1>15. (pc' # "handle") = TRUE /\ pc' # "wild" /\ pc' # "over"
    BY <1>1
<1> QED BY <1>1, <1>2, <1>10, <1>12, <1>13, <1>14, <1>15 DEF Walks, Stands, Nexts
-------------------------------------------------------------------------------
(* The specification.                                                      *)

LEMMA InitWalks == Init => RInv
<1> SUFFICES ASSUME Init PROVE RInv
    OBVIOUS
<1>1. /\ kids = [p \in Nodes |-> << >>] /\ start = kids /\ copies = << >>
      /\ pc = "none" /\ returned = << >>
    BY DEF Init, TreeInit
<1>2. \A p \in Nodes : DOMAIN kids[p] = {}
    BY <1>1
<1>3. Ordered(kids)
    BY <1>2 DEF Ordered
<1>4. Grown(start, kids)
    BY <1>1, GrownSame
<1>5. CopiesKnow(start, kids, copies)
    BY <1>1 DEF CopiesKnow
<1> QED BY <1>1, <1>3, <1>4, <1>5, InitIsSafe DEF RInv, Grows

LEMMA StutterWalks == RInv /\ UNCHANGED vars => Walked'
<1> SUFFICES ASSUME RInv, UNCHANGED vars PROVE Walked'
    OBVIOUS
<1>1. UNCHANGED <<kids, query, start, stack, copies, current, pc, returned>>
    BY DEF vars, machine
<1>2. Grows'
    BY <1>1 DEF RInv, Grows
<1>3. Stands' = Stands /\ Nexts' = Nexts
    BY <1>1 DEF Stands, Nexts
<1> SUFFICES ASSUME query \in Regular, pc # "none" PROVE Walks'
    BY <1>1, <1>2 DEF Walked
<1> QED BY <1>1, <1>3, Walking DEF Walks, Stands, Nexts

LEMMA NextWalks == RInv /\ [Next]_vars => RInv'
<1> SUFFICES ASSUME RInv, [Next]_vars PROVE RInv'
    OBVIOUS
<1>1. IInv'
    BY NextIsSafe DEF RInv
<1>2. CASE Library
    <2>1. ItemNext \/ ItemEnd \/ ChildNext \/ ChildrenEnd \/ QueryEnds => Walked'
        BY <1>1, ItemNextWalks, EndWalks, ChildNextWalks, TurnWalks
    <2>2. ConditionTrue \/ ConditionFalse \/ ReturnNode => Walked'
        BY <1>1, ConditionTrueWalks, ConditionFalseWalks, ReturnWalks
    <2>3. PushChildren \/ PushParent \/ PushNothing => Walked'
        BY <1>1, PushChildrenWalks, PushParentWalks, PushNothingWalks
    <2>4. AllBreaks \/ ConditionDies \/ PushAll \/ Unhandled => Walked'
        BY <1>1, OtherWalks
    <2>5. Walked'
        BY <1>2, <2>1, <2>2, <2>3, <2>4 DEF Library
    <2> QED BY <1>1, <2>5 DEF Walked, RInv
<1>3. CASE Client
    <2>1. Walked'
        BY <1>1, <1>3, LinkWalks, TurnWalks, ApplyWalks DEF Client
    <2> QED BY <1>1, <2>1 DEF Walked, RInv
<1>4. CASE UNCHANGED vars
    <2>1. Walked'
        BY <1>4, StutterWalks
    <2> QED BY <1>1, <2>1 DEF Walked, RInv
<1> QED BY <1>2, <1>3, <1>4 DEF Next

\* The levels of a query that is applied stand on a way of it that divides what it
\* means into what was returned and what is ahead, for any tree, however it grows.
THEOREM ResultsInductive == Spec => []RInv
<1>1. Init => RInv
    BY InitWalks
<1>2. RInv /\ [Next]_vars => RInv'
    BY NextWalks
<1> QED BY <1>1, <1>2, PTL DEF Spec

\* What a query of levels that work returns is right for any tree, however it grows
\* while it is read: it is what the query selects now, in order and by each way
\* once, and in the end all it selected when it was applied.
THEOREM ResultsAreRight == Spec => []ResultsRight
<1>1. RInv => ResultsRight
    <2> SUFFICES ASSUME RInv, pc \in {"idle", "over"}, query \in Regular
                 PROVE  /\ ToSet(returned) \subseteq Ways(kids, query)
                        /\ \A i, j \in DOMAIN returned :
                              i < j => Before(kids, query, returned[i], returned[j])
                        /\ pc = "over" => Ways(start, query) \subseteq ToSet(returned)
        BY DEF ResultsRight
    <2>1. (pc # "handle") = TRUE /\ pc # "none"
        OBVIOUS
    <2>2. /\ Sound(kids, query, Stands, TRUE, returned) /\ InOrder(kids, query, returned)
          /\ Complete(start, kids, query, Stands, TRUE, returned)
          /\ (pc = "over" => stack = << >>) /\ DOMAIN Stands = 1 .. Len(stack)
        BY <2>1, Walking
    <2>3. ToSet(returned) \subseteq Ways(kids, query)
        BY <2>2 DEF Sound, ToSet
    <2>4. ASSUME pc = "over" PROVE Ways(start, query) \subseteq ToSet(returned)
        <3>1. DOMAIN Stands = {}
            BY <2>2, <2>4
        <3>2. \A w : ~Ahead(kids, query, Stands, TRUE, w)
            BY <3>1 DEF Ahead
        <3> QED BY <2>2, <3>2 DEF Complete
    <2> QED BY <2>2, <2>3, <2>4 DEF InOrder
<1> QED BY <1>1, ResultsInductive, PTL
===============================================================================
