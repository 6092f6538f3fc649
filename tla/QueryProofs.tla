------------------------------ MODULE QueryProofs ------------------------------
(***************************************************************************)
(* Proofs about Query, for every tree, every set of queries and conditions.*)
(*                                                                         *)
(* The inductive invariant says who holds which copy: every copy that an   *)
(* iterator over children has made and not freed is the one such an        *)
(* iterator stands on, each stands on its own, and an array iterator that  *)
(* was given a copy lies above the iterator that will free it.             *)
(***************************************************************************)
EXTENDS Query, QueryConditionsProofs, SequenceTheorems, TLAPS

IterType == [kind : {"items", "children", "all"}, items : Seq(Nat),
             next : Nodes \cup {None}, cur : Nat]
LevelType == [step : Seq(Levels), it : IterType]

\* The types, with those TypeOK leaves open: the levels below the top stand on a
\* copy.  And when the query begins.
Typed ==
    /\ TypeOK
    /\ query \in Seq(Levels)
    /\ stack \in Seq(LevelType)
    /\ \A i \in DOMAIN stack : i # 1 => stack[i].it.cur # NoCopy
    /\ pc = "handle" => stack # << >> /\ InHand # NoCopy
    /\ pc = "none" => stack = << >> /\ copies = << >> /\ current = NoCopy

\* Of stack st and copies cp: level i frees the copies it makes.
Owner(st, i)  == st[i].it.kind # "items"
Unfreed(cp, c) == cp[c].frees = 0

\* What level i refers to.
RefersTo(st, i, c) ==
    c # NoCopy /\ (c = st[i].it.cur \/ \E k \in DOMAIN st[i].it.items : c = st[i].it.items[k])

\* An iterator over children stands on a copy of its own that it will free.
OwnersOK(st, cp) ==
    /\ \A i \in DOMAIN st : Owner(st, i) =>
          /\ st[i].it.items = << >>
          /\ st[i].it.cur # NoCopy =>
                /\ Unfreed(cp, st[i].it.cur) /\ cp[st[i].it.cur].by = "iterator"
    /\ \A i, j \in DOMAIN st :
          Owner(st, i) /\ Owner(st, j) /\ st[i].it.cur = st[j].it.cur
          => i = j \/ st[i].it.cur = NoCopy

\* A copy that an array iterator has or will have is not freed, and whoever will
\* free it is below.
ItemsOK(st, cp) ==
    \A i \in DOMAIN st : \A c \in DOMAIN cp : ~Owner(st, i) /\ RefersTo(st, i, c) =>
        /\ Unfreed(cp, c)
        /\ cp[c].by = "iterator" =>
              \E j \in DOMAIN st : i < j /\ Owner(st, j) /\ st[j].it.cur = c

\* Nothing an iterator has made is lost.
NoneLost(st, cp) ==
    \A c \in DOMAIN cp : cp[c].by = "iterator" /\ Unfreed(cp, c) =>
        \E i \in DOMAIN st : Owner(st, i) /\ st[i].it.cur = c

Held(st, cp) == OwnersOK(st, cp) /\ ItemsOK(st, cp) /\ NoneLost(st, cp)

IInv ==
    /\ Typed
    /\ pc # "wild" => Held(stack, copies)
    /\ pc = "idle" /\ current # NoCopy => Alive(current)
    /\ \A c \in DOMAIN copies : copies[c].frees <= 1
-------------------------------------------------------------------------------
(* Sequences, and what a step does to the levels of the stack.             *)

LEMMA Pushed ==
    ASSUME NEW S, NEW s \in Seq(S), NEW x \in S
    PROVE  /\ <<x>> \o s \in Seq(S) /\ <<x>> \o s # << >>
           /\ DOMAIN s = 1 .. Len(s)
           /\ DOMAIN (<<x>> \o s) = 1 .. Len(s) + 1
           /\ (<<x>> \o s)[1] = x /\ Head(<<x>> \o s) = x
           /\ \A i \in 1 .. Len(s) : (<<x>> \o s)[i + 1] = s[i]
           /\ \A i \in 2 .. Len(s) + 1 : (<<x>> \o s)[i] = s[i - 1]
<1>1. <<x>> \in Seq(S) /\ Len(<<x>>) = 1 /\ <<x>>[1] = x
    OBVIOUS
<1>2. /\ <<x>> \o s \in Seq(S)
      /\ Len(<<x>> \o s) = 1 + Len(s)
      /\ \A i \in 1 .. 1 + Len(s) :
            (<<x>> \o s)[i] = IF i <= 1 THEN <<x>>[i] ELSE s[i - 1]
    BY <1>1, ConcatProperties
<1>3. Len(s) \in Nat /\ DOMAIN s = 1 .. Len(s)
    BY LenProperties
<1>4. DOMAIN (<<x>> \o s) = 1 .. Len(s) + 1 /\ <<x>> \o s # << >>
    BY <1>2, <1>3, LenProperties
<1> QED BY <1>1, <1>2, <1>3, <1>4

LEMMA Popped ==
    ASSUME NEW S, NEW s \in Seq(S), s # << >>
    PROVE  /\ Tail(s) \in Seq(S)
           /\ 1 \in DOMAIN s /\ Head(s) = s[1] /\ s[1] \in S
           /\ DOMAIN s = 1 .. Len(s)
           /\ DOMAIN Tail(s) = 1 .. Len(s) - 1
           /\ \A i \in 1 .. Len(s) - 1 : Tail(s)[i] = s[i + 1]
OBVIOUS

LEMMA Lengthened ==
    ASSUME NEW S, NEW s \in Seq(S), NEW x \in S
    PROVE  /\ Append(s, x) \in Seq(S) /\ DOMAIN s = 1 .. Len(s)
           /\ DOMAIN Append(s, x) = 1 .. Len(s) + 1 /\ Len(s) \in Nat
           /\ Append(s, x)[Len(s) + 1] = x
           /\ \A i \in 1 .. Len(s) : Append(s, x)[i] = s[i]
OBVIOUS

\* After a place that is not the last there is another one.
LEMMA NotTheLast ==
    ASSUME NEW n \in Nat, NEW l \in 1 .. n, l # n
    PROVE  l + 1 \in 1 .. n
OBVIOUS

\* A place in a list with one more element in front.
LEMMA FirstOrLater ==
    ASSUME NEW n \in Nat, NEW i \in 1 .. n + 1
    PROVE  i = 1 \/ (i \in 2 .. n + 1 /\ i - 1 \in 1 .. n)
OBVIOUS

\* Lists of the same places are equally long.
LEMMA SameLength ==
    ASSUME NEW m \in Nat, NEW n \in Nat, 1 .. m = 1 .. n
    PROVE  m = n
<1>1. m > 0 => m \in 1 .. n
    OBVIOUS
<1>2. n > 0 => n \in 1 .. m
    OBVIOUS
<1> QED BY <1>1, <1>2

\* The levels that follow the first are levels of the query.
LEMMA SuffixTail ==
    ASSUME NEW S, NEW q \in Seq(S), NEW s \in Suffixes(q), s # << >>
    PROVE  s \in Seq(S) /\ Tail(s) \in Suffixes(q)
<1>1. PICK l \in 1 .. Len(q) : s = SubSeq(q, l, Len(q))
    BY DEF Suffixes
<1>2. Len(q) \in Nat /\ DOMAIN q = 1 .. Len(q)
    BY LenProperties
<1>3. /\ s \in Seq(S) /\ Len(s) = Len(q) - l + 1
      /\ \A i \in 1 .. Len(q) - l + 1 : s[i] = q[l + i - 1]
    BY <1>1, <1>2, SubSeqProperties, ElementOfSeq
<1>4. Tail(s) = SubSeq(s, 2, Len(s))
    BY <1>3, TailIsSubSeq
<1>5. CASE l = Len(q)
    <2>1. Tail(s) = << >>
        BY <1>2, <1>3, <1>4, <1>5, SubSeqEmpty
    <2> QED BY <1>3, <2>1 DEF Suffixes
<1>6. CASE l # Len(q)
    <2>1. l + 1 \in 1 .. Len(q)
        BY <1>2, <1>6, NotTheLast
    <2>2. /\ SubSeq(q, l + 1, Len(q)) \in Seq(S)
          /\ Len(SubSeq(q, l + 1, Len(q))) = Len(q) - l
          /\ \A i \in 1 .. Len(q) - l : SubSeq(q, l + 1, Len(q))[i] = q[l + i]
        BY <1>2, <2>1, SubSeqProperties, ElementOfSeq
    <2>3. /\ Tail(s) \in Seq(S) /\ Len(Tail(s)) = Len(q) - l
          /\ \A i \in 1 .. Len(q) - l : Tail(s)[i] = q[l + i]
        BY <1>2, <1>3, <2>1, HeadTailProperties
    <2>4. Tail(s) = SubSeq(q, l + 1, Len(q))
        BY <2>2, <2>3, SeqEqual
    <2> QED BY <1>3, <2>1, <2>4 DEF Suffixes
<1> QED BY <1>5, <1>6

\* ... and so are all of them.
LEMMA SuffixAll ==
    ASSUME NEW S, NEW q \in Seq(S)
    PROVE  q \in Suffixes(q)
<1>1. CASE q = << >>
    BY <1>1 DEF Suffixes
<1>2. CASE q # << >>
    <2>1. Len(q) \in Nat /\ Len(q) >= 1 /\ SubSeq(q, 1, Len(q)) = q
        BY <1>2, SubSeqFull, LenProperties, EmptySeq
    <2> QED BY <2>1 DEF Suffixes
<1> QED BY <1>1, <1>2
-------------------------------------------------------------------------------
(* Who holds which copy.                                                   *)

\* A level is taken away that frees nothing: it is an array iterator, or an
\* iterator over children that stands on none.
LEMMA PopHeld ==
    ASSUME NEW st \in Seq(LevelType), st # << >>, NEW cp, Held(st, cp),
           Owner(st, 1) => st[1].it.cur = NoCopy, NoCopy \notin DOMAIN cp
    PROVE  Held(Tail(st), cp)
<1>1. /\ DOMAIN st = 1 .. Len(st) /\ DOMAIN Tail(st) = 1 .. Len(st) - 1 /\ Len(st) \in Nat
      /\ \A i \in 1 .. Len(st) - 1 : Tail(st)[i] = st[i + 1] /\ i + 1 \in DOMAIN st
    BY Popped, LenProperties
<1>2. OwnersOK(Tail(st), cp)
    <2>1. OwnersOK(st, cp)
        BY DEF Held
    <2> QED BY <1>1, <2>1 DEF OwnersOK, Owner
<1>3. ASSUME NEW c \in DOMAIN cp, NEW j \in DOMAIN st, Owner(st, j), st[j].it.cur = c
      PROVE  j # 1 /\ j - 1 \in DOMAIN Tail(st) /\ j = (j - 1) + 1
             /\ Owner(Tail(st), j - 1) /\ Tail(st)[j - 1].it.cur = c
    <2>1. j # 1
        BY <1>3
    <2>2. j - 1 \in 1 .. Len(st) - 1 /\ j = (j - 1) + 1
        BY <1>1, <2>1
    <2> QED BY <1>1, <1>3, <2>1, <2>2 DEF Owner
<1>4. ItemsOK(Tail(st), cp)
    <2>1. ItemsOK(st, cp)
        BY DEF Held
    <2> SUFFICES ASSUME NEW i \in DOMAIN Tail(st), NEW c \in DOMAIN cp,
                        ~Owner(Tail(st), i), RefersTo(Tail(st), i, c)
                 PROVE  /\ Unfreed(cp, c)
                        /\ cp[c].by = "iterator" =>
                              \E j \in DOMAIN Tail(st) :
                                 i < j /\ Owner(Tail(st), j) /\ Tail(st)[j].it.cur = c
        BY DEF ItemsOK
    <2>2. i + 1 \in DOMAIN st /\ i \in 1 .. Len(st) - 1 /\ ~Owner(st, i + 1) /\ RefersTo(st, i + 1, c)
        BY <1>1 DEF Owner, RefersTo
    <2>3. Unfreed(cp, c) /\ (cp[c].by = "iterator" =>
              \E j \in DOMAIN st : i + 1 < j /\ Owner(st, j) /\ st[j].it.cur = c)
        BY <2>1, <2>2 DEF ItemsOK
    <2>4. ASSUME NEW j \in DOMAIN st, i + 1 < j, Owner(st, j), st[j].it.cur = c
          PROVE  \E k \in DOMAIN Tail(st) :
                     i < k /\ Owner(Tail(st), k) /\ Tail(st)[k].it.cur = c
        <3>1. i < j - 1
            BY <1>1, <2>2, <2>4
        <3> QED BY <1>3, <2>4, <3>1
    <2> QED BY <2>3, <2>4
<1>5. NoneLost(Tail(st), cp)
    BY <1>3 DEF NoneLost, Held
<1> QED BY <1>2, <1>4, <1>5 DEF Held

\* A level is added whose iterator has what the level below stands on, or a copy
\* nobody frees, or nothing.
LEMMA PushHeld ==
    ASSUME NEW st \in Seq(LevelType), NEW cp, Held(st, cp), NEW l \in LevelType,
           l.it.cur = NoCopy,
           \A k \in DOMAIN l.it.items :
               \/ /\ st # << >> /\ l.it.items[k] = st[1].it.cur
               \/ /\ cp[l.it.items[k]].by # "iterator" /\ Unfreed(cp, l.it.items[k]),
           l.it.kind # "items" => l.it.items = << >>
    PROVE  Held(<<l>> \o st, cp)
<1> DEFINE new == <<l>> \o st
<1>1. /\ DOMAIN st = 1 .. Len(st) /\ DOMAIN new = 1 .. Len(st) + 1 /\ Len(st) \in Nat
      /\ new[1] = l
      /\ \A i \in 1 .. Len(st) : new[i + 1] = st[i] /\ i + 1 \in DOMAIN new
      /\ \A i \in 2 .. Len(st) + 1 : new[i] = st[i - 1] /\ i - 1 \in DOMAIN st
    BY Pushed, LenProperties
<1>2. \A i \in DOMAIN new : i = 1 \/ i \in 2 .. Len(st) + 1
    BY <1>1
<1> HIDE DEF new
<1>3. OwnersOK(new, cp)
    <2>1. OwnersOK(st, cp)
        BY DEF Held
    <2>2. ASSUME NEW i \in DOMAIN new, Owner(new, i)
          PROVE  /\ new[i].it.items = << >>
                 /\ new[i].it.cur # NoCopy =>
                       Unfreed(cp, new[i].it.cur) /\ cp[new[i].it.cur].by = "iterator"
        <3>1. CASE i = 1
            BY <1>1, <2>2, <3>1 DEF Owner
        <3>2. CASE i \in 2 .. Len(st) + 1
            <4>1. new[i] = st[i - 1] /\ i - 1 \in DOMAIN st
                BY <1>1, <3>2
            <4> QED BY <2>1, <2>2, <4>1 DEF OwnersOK, Owner
        <3> QED BY <1>2, <3>1, <3>2
    <2>3. ASSUME NEW i \in DOMAIN new, NEW j \in DOMAIN new,
                 Owner(new, i), Owner(new, j), new[i].it.cur = new[j].it.cur
          PROVE  i = j \/ new[i].it.cur = NoCopy
        <3>1. CASE i = 1 \/ j = 1
            BY <1>1, <2>3, <3>1
        <3>2. CASE i \in 2 .. Len(st) + 1 /\ j \in 2 .. Len(st) + 1
            <4>1. /\ new[i] = st[i - 1] /\ i - 1 \in DOMAIN st
                  /\ new[j] = st[j - 1] /\ j - 1 \in DOMAIN st
                BY <1>1, <3>2
            <4>2. i - 1 = j - 1 \/ new[i].it.cur = NoCopy
                BY <2>1, <2>3, <4>1 DEF OwnersOK, Owner
            <4> QED BY <3>2, <4>2
        <3> QED BY <1>2, <3>1, <3>2
    <2> QED BY <2>2, <2>3 DEF OwnersOK
<1>4. ASSUME NEW j \in DOMAIN st, Owner(st, j)
      PROVE  j + 1 \in DOMAIN new /\ Owner(new, j + 1) /\ new[j + 1].it.cur = st[j].it.cur
    BY <1>1, <1>4 DEF Owner
<1>5. ItemsOK(new, cp)
    <2>1. ItemsOK(st, cp) /\ OwnersOK(st, cp)
        BY DEF Held
    <2> SUFFICES ASSUME NEW i \in DOMAIN new, NEW c \in DOMAIN cp,
                        ~Owner(new, i), RefersTo(new, i, c)
                 PROVE  /\ Unfreed(cp, c)
                        /\ cp[c].by = "iterator" =>
                              \E j \in DOMAIN new : i < j /\ Owner(new, j) /\ new[j].it.cur = c
        BY DEF ItemsOK
    <2>2. ASSUME NEW m \in DOMAIN st, ~Owner(st, m), RefersTo(st, m, c), i <= m + 1
          PROVE  /\ Unfreed(cp, c)
                 /\ cp[c].by = "iterator" =>
                       \E j \in DOMAIN new : i < j /\ Owner(new, j) /\ new[j].it.cur = c
        <3>1. Unfreed(cp, c) /\ (cp[c].by = "iterator" =>
                  \E j \in DOMAIN st : m < j /\ Owner(st, j) /\ st[j].it.cur = c)
            BY <2>1, <2>2 DEF ItemsOK
        <3>2. ASSUME NEW j \in DOMAIN st, m < j PROVE i < j + 1
            BY <1>1, <2>2, <3>2
        <3> QED BY <1>4, <3>1, <3>2
    <2>3. CASE i = 1
        <3>1. PICK k \in DOMAIN l.it.items : c = l.it.items[k]
            BY <1>1, <2>3 DEF RefersTo
        <3>2. CASE st # << >> /\ c = st[1].it.cur
            <4>1. 1 \in DOMAIN st /\ i <= 1 + 1 /\ 1 < 1 + 1
                BY <1>1, <2>3, <3>2, Popped
            <4>2. c # NoCopy
                BY DEF RefersTo
            <4>3. CASE Owner(st, 1)
                <5>1. Unfreed(cp, c)
                    BY <2>1, <3>2, <4>1, <4>2, <4>3 DEF OwnersOK
                <5>2. 1 + 1 \in DOMAIN new /\ Owner(new, 1 + 1) /\ new[1 + 1].it.cur = c
                    BY <1>4, <3>2, <4>1, <4>3
                <5> QED BY <2>3, <4>1, <5>1, <5>2
            <4>4. CASE ~Owner(st, 1)
                <5>1. RefersTo(st, 1, c)
                    BY <3>2, <4>2 DEF RefersTo
                <5> QED BY <2>2, <4>1, <4>4, <5>1
            <4> QED BY <4>3, <4>4
        <3>3. CASE cp[c].by # "iterator" /\ Unfreed(cp, c)
            BY <3>3
        <3> QED BY <3>1, <3>2, <3>3
    <2>4. CASE i \in 2 .. Len(st) + 1
        <3>1. new[i] = st[i - 1] /\ i - 1 \in DOMAIN st /\ i <= (i - 1) + 1
            BY <1>1, <2>4
        <3>2. ~Owner(st, i - 1) /\ RefersTo(st, i - 1, c)
            BY <3>1 DEF Owner, RefersTo
        <3> QED BY <2>2, <3>1, <3>2
    <2> QED BY <1>2, <2>3, <2>4
<1>6. NoneLost(new, cp)
    BY <1>4 DEF NoneLost, Held
<1> QED BY <1>3, <1>5, <1>6 DEF Held, new

\* The array iterator on top goes on to its next item.
LEMMA ItemHeld ==
    ASSUME NEW st \in Seq(LevelType), NEW new, NEW cp, Held(st, cp), st # << >>,
           ~Owner(st, 1), st[1].it.items # << >>,
           DOMAIN new = DOMAIN st, \A i \in DOMAIN st : i # 1 => new[i] = st[i],
           new[1].it.kind = st[1].it.kind, new[1].it.cur = Head(st[1].it.items),
           new[1].it.items = Tail(st[1].it.items)
    PROVE  Held(new, cp)
<1>1. 1 \in DOMAIN st /\ st[1].it.items \in Seq(Nat)
    <2>1. 1 \in DOMAIN st /\ st[1] \in LevelType
        BY Popped
    <2> QED BY <2>1 DEF LevelType, IterType
<1>2. \A i \in DOMAIN st : Owner(new, i) <=> Owner(st, i)
    BY DEF Owner
<1>3. \A i \in DOMAIN st : Owner(st, i) => new[i] = st[i]
    OBVIOUS
<1>4. OwnersOK(new, cp)
    BY <1>2, <1>3 DEF OwnersOK, Held
<1>5. ASSUME NEW c, RefersTo(new, 1, c) PROVE RefersTo(st, 1, c)
    <2>1. /\ 1 \in DOMAIN st[1].it.items /\ Head(st[1].it.items) = st[1].it.items[1]
          /\ \A k \in DOMAIN Tail(st[1].it.items) :
                k + 1 \in DOMAIN st[1].it.items
                /\ Tail(st[1].it.items)[k] = st[1].it.items[k + 1]
        BY <1>1, Popped
    <2> QED BY <1>5, <2>1 DEF RefersTo
<1>6. ASSUME NEW i \in DOMAIN st, NEW c, RefersTo(new, i, c) PROVE RefersTo(st, i, c)
    <2>1. CASE i = 1
        BY <1>5, <1>6, <2>1
    <2>2. CASE i # 1
        BY <1>6, <2>2 DEF RefersTo
    <2> QED BY <2>1, <2>2
<1>7. ItemsOK(new, cp)
    BY <1>2, <1>3, <1>6 DEF ItemsOK, Held
<1>8. NoneLost(new, cp)
    BY <1>2, <1>3 DEF NoneLost, Held
<1> QED BY <1>4, <1>7, <1>8 DEF Held

\* Copies have been made that nobody will free.
Longer(cp, new) ==
    /\ new \in Seq(CopyType) /\ DOMAIN cp \subseteq DOMAIN new
    /\ \A c \in DOMAIN cp : new[c] = cp[c]
    /\ \A c \in DOMAIN new : c \in DOMAIN cp \/ (new[c].by = "nobody" /\ new[c].frees = 0)

LEMMA CopyHeld ==
    ASSUME NEW st \in Seq(LevelType), NEW cp \in Seq(CopyType), Held(st, cp),
           NEW new, Longer(cp, new),
           \A i \in DOMAIN st : st[i].it.cur \in {NoCopy} \cup DOMAIN cp,
           \A i \in DOMAIN st : \A k \in DOMAIN st[i].it.items : st[i].it.items[k] \in DOMAIN cp
    PROVE  Held(st, new)
<1>1. /\ DOMAIN cp \subseteq DOMAIN new /\ \A k \in DOMAIN cp : new[k] = cp[k]
      /\ \A k \in DOMAIN new : k \in DOMAIN cp \/ new[k].by # "iterator"
    BY DEF Longer
<1>2. OwnersOK(st, new)
    BY <1>1 DEF OwnersOK, Held, Unfreed, Owner
<1>3. \A i \in DOMAIN st : \A k : RefersTo(st, i, k) => k \in DOMAIN cp
    BY DEF RefersTo
<1>4. ItemsOK(st, new)
    BY <1>1, <1>3 DEF ItemsOK, Held, Unfreed
<1>5. NoneLost(st, new)
    BY <1>1 DEF NoneLost, Held, Unfreed
<1> QED BY <1>2, <1>4, <1>5 DEF Held

\* The iterator over children on top has freed its copy and stands on none: no
\* other level referred to that copy.
LEMMA FreeHeld ==
    ASSUME NEW st \in Seq(LevelType), NEW new, NEW cp, NEW cpnew, Held(st, cp), st # << >>,
           Owner(st, 1), NoCopy \notin DOMAIN cp,
           DOMAIN new = DOMAIN st, \A i \in DOMAIN st : i # 1 => new[i] = st[i],
           new[1].it.kind = st[1].it.kind, new[1].it.cur = NoCopy,
           new[1].it.items = st[1].it.items,
           DOMAIN cpnew = DOMAIN cp,
           \A c \in DOMAIN cp : c # st[1].it.cur => cpnew[c] = cp[c],
           \A c \in DOMAIN cp : c = st[1].it.cur => ~Unfreed(cpnew, c),
           \A i \in DOMAIN st : st[i].it.cur \in {NoCopy} \cup DOMAIN cp
    PROVE  Held(new, cpnew)
<1>1. 1 \in DOMAIN st
    BY Popped
<1>2. \A i \in DOMAIN st : Owner(new, i) <=> Owner(st, i)
    BY DEF Owner
<1>3. OwnersOK(st, cp) /\ ItemsOK(st, cp) /\ NoneLost(st, cp)
    BY DEF Held
<1>4. ASSUME NEW i \in DOMAIN st, i # 1, Owner(st, i)
      PROVE  st[i].it.cur # st[1].it.cur \/ st[i].it.cur = NoCopy
    BY <1>1, <1>3, <1>4 DEF OwnersOK
<1>5. OwnersOK(new, cpnew)
    <2>1. ASSUME NEW i \in DOMAIN st, Owner(new, i)
          PROVE  /\ new[i].it.items = << >>
                 /\ new[i].it.cur # NoCopy =>
                       Unfreed(cpnew, new[i].it.cur) /\ cpnew[new[i].it.cur].by = "iterator"
        <3>1. CASE i = 1
            BY <1>1, <1>3, <3>1 DEF OwnersOK
        <3>2. CASE i # 1
            BY <1>2, <1>3, <1>4, <2>1, <3>2 DEF OwnersOK, Unfreed
        <3> QED BY <3>1, <3>2
    <2>2. ASSUME NEW i \in DOMAIN st, NEW j \in DOMAIN st,
                 Owner(new, i), Owner(new, j), new[i].it.cur = new[j].it.cur
          PROVE  i = j \/ new[i].it.cur = NoCopy
        <3>1. CASE i = 1 \/ j = 1
            BY <2>2, <3>1
        <3>2. CASE i # 1 /\ j # 1
            BY <1>2, <1>3, <2>2, <3>2 DEF OwnersOK
        <3> QED BY <3>1, <3>2
    <2> QED BY <2>1, <2>2 DEF OwnersOK
<1>6. ItemsOK(new, cpnew)
    <2> SUFFICES ASSUME NEW i \in DOMAIN st, NEW c \in DOMAIN cp,
                        ~Owner(new, i), RefersTo(new, i, c)
                 PROVE  /\ Unfreed(cpnew, c)
                        /\ cpnew[c].by = "iterator" =>
                              \E j \in DOMAIN st : i < j /\ Owner(new, j) /\ new[j].it.cur = c
        BY DEF ItemsOK
    <2>1. i # 1 /\ ~Owner(st, i) /\ RefersTo(st, i, c) /\ c # NoCopy /\ i \in Nat /\ i > 1
        <3>1. i # 1 /\ ~Owner(st, i)
            BY <1>2
        <3>2. RefersTo(st, i, c) /\ c # NoCopy
            BY <3>1 DEF RefersTo
        <3>3. i \in Nat /\ i > 1
            BY <3>1, Popped, LenProperties
        <3> QED BY <3>1, <3>2, <3>3
    <2>2. Unfreed(cp, c) /\ (cp[c].by = "iterator" =>
              \E j \in DOMAIN st : i < j /\ Owner(st, j) /\ st[j].it.cur = c)
        BY <1>3, <2>1 DEF ItemsOK
    <2>3. c # st[1].it.cur
        <3> SUFFICES ASSUME c = st[1].it.cur PROVE FALSE
            OBVIOUS
        <3>1. cp[c].by = "iterator"
            BY <1>1, <1>3, <2>1 DEF OwnersOK
        <3>2. PICK j \in DOMAIN st : i < j /\ Owner(st, j) /\ st[j].it.cur = c
            BY <2>2, <3>1
        <3>3. j # 1
            BY <2>1, <3>2, Popped
        <3> QED BY <1>4, <2>1, <3>2, <3>3
    <2>4. cpnew[c] = cp[c]
        BY <2>3
    <2>5. ASSUME NEW j \in DOMAIN st, i < j PROVE j # 1 /\ new[j] = st[j]
        <3>1. j # 1
            BY <2>1, <2>5
        <3> QED BY <3>1
    <2> QED BY <1>2, <2>2, <2>4, <2>5 DEF Unfreed
<1>7. NoneLost(new, cpnew)
    <2> SUFFICES ASSUME NEW c \in DOMAIN cp, cpnew[c].by = "iterator", Unfreed(cpnew, c)
                 PROVE  \E i \in DOMAIN st : Owner(new, i) /\ new[i].it.cur = c
        BY DEF NoneLost
    <2>1. c # st[1].it.cur /\ cpnew[c] = cp[c]
        OBVIOUS
    <2>2. PICK i \in DOMAIN st : Owner(st, i) /\ st[i].it.cur = c
        BY <1>3, <2>1 DEF NoneLost, Unfreed
    <2> QED BY <1>2, <2>1, <2>2
<1> QED BY <1>5, <1>6, <1>7 DEF Held

\* The iterator over children on top, which stands on nothing, makes a copy.
LEMMA OwnHeld ==
    ASSUME NEW st, NEW new, NEW cp \in Seq(CopyType), Held(st, cp), 1 \in DOMAIN st,
           NEW c \in CopyType, c.by = "iterator", c.frees = 0,
           Owner(st, 1), st[1].it.cur = NoCopy,
           DOMAIN new = DOMAIN st, \A i \in DOMAIN st : i # 1 => new[i] = st[i],
           new[1].it.kind = st[1].it.kind, new[1].it.cur = Len(cp) + 1,
           new[1].it.items = st[1].it.items,
           \A i \in DOMAIN st : st[i].it.cur \in {NoCopy} \cup DOMAIN cp,
           \A i \in DOMAIN st : \A k \in DOMAIN st[i].it.items : st[i].it.items[k] \in DOMAIN cp
    PROVE  Held(new, Append(cp, c))
<1> DEFINE cpnew == Append(cp, c)
           made  == Len(cp) + 1
<1>1. /\ DOMAIN cpnew = DOMAIN cp \cup {made} /\ cpnew[made] = c
      /\ made \notin DOMAIN cp \cup {NoCopy} /\ \A k \in DOMAIN cp : cpnew[k] = cp[k]
    <2>1. /\ DOMAIN cp = 1 .. Len(cp) /\ DOMAIN cpnew = 1 .. Len(cp) + 1 /\ Len(cp) \in Nat
          /\ cpnew[Len(cp) + 1] = c /\ \A i \in 1 .. Len(cp) : cpnew[i] = cp[i]
        BY Lengthened
    <2> QED BY <2>1 DEF NoCopy
<1>2. new[1].it.cur = made
    OBVIOUS
<1> HIDE DEF cpnew, made
<1>3. \A i \in DOMAIN st : Owner(new, i) <=> Owner(st, i)
    BY DEF Owner
<1>4. OwnersOK(st, cp) /\ ItemsOK(st, cp) /\ NoneLost(st, cp)
    BY DEF Held
<1>5. OwnersOK(new, cpnew)
    <2>1. ASSUME NEW i \in DOMAIN st, Owner(new, i)
          PROVE  /\ new[i].it.items = << >>
                 /\ new[i].it.cur # NoCopy =>
                       Unfreed(cpnew, new[i].it.cur) /\ cpnew[new[i].it.cur].by = "iterator"
        <3>1. CASE i = 1
            BY <1>1, <1>2, <1>4, <3>1 DEF OwnersOK, Unfreed
        <3>2. CASE i # 1
            <4>1. new[i] = st[i] /\ Owner(st, i) /\ (st[i].it.cur # NoCopy => st[i].it.cur \in DOMAIN cp)
                BY <1>3, <2>1, <3>2
            <4> QED BY <1>1, <1>4, <4>1 DEF OwnersOK, Unfreed
        <3> QED BY <3>1, <3>2
    <2>2. ASSUME NEW i \in DOMAIN st, NEW j \in DOMAIN st,
                 Owner(new, i), Owner(new, j), new[i].it.cur = new[j].it.cur
          PROVE  i = j \/ new[i].it.cur = NoCopy
        <3>1. CASE i # 1 /\ j # 1
            BY <1>3, <1>4, <2>2, <3>1 DEF OwnersOK
        <3>2. CASE i = 1 /\ j # 1
            BY <1>1, <1>2, <2>2, <3>2
        <3>3. CASE i # 1 /\ j = 1
            BY <1>1, <1>2, <2>2, <3>3
        <3> QED BY <3>1, <3>2, <3>3
    <2> QED BY <2>1, <2>2 DEF OwnersOK
<1>6. ItemsOK(new, cpnew)
    <2> SUFFICES ASSUME NEW i \in DOMAIN st, NEW k \in DOMAIN cpnew,
                        ~Owner(new, i), RefersTo(new, i, k)
                 PROVE  /\ Unfreed(cpnew, k)
                        /\ cpnew[k].by = "iterator" =>
                              \E j \in DOMAIN st : i < j /\ Owner(new, j) /\ new[j].it.cur = k
        BY DEF ItemsOK
    <2>1. i # 1 /\ ~Owner(st, i)
        BY <1>3
    <2>2. RefersTo(st, i, k) /\ k # NoCopy /\ k \in DOMAIN cp
        BY <2>1 DEF RefersTo
    <2>3. Unfreed(cp, k) /\ (cp[k].by = "iterator" =>
              \E j \in DOMAIN st : i < j /\ Owner(st, j) /\ st[j].it.cur = k)
        BY <1>4, <2>1, <2>2 DEF ItemsOK
    <2>4. ASSUME NEW j \in DOMAIN st, st[j].it.cur = k PROVE new[j] = st[j]
        BY <2>2, <2>4
    <2> QED BY <1>1, <1>3, <2>2, <2>3, <2>4 DEF Unfreed
<1>7. NoneLost(new, cpnew)
    <2> SUFFICES ASSUME NEW k \in DOMAIN cpnew, cpnew[k].by = "iterator", Unfreed(cpnew, k)
                 PROVE  \E i \in DOMAIN st : Owner(new, i) /\ new[i].it.cur = k
        BY DEF NoneLost
    <2>1. CASE k = made
        BY <1>2, <1>3, <2>1
    <2>2. CASE k \in DOMAIN cp
        <3>1. PICK i \in DOMAIN st : Owner(st, i) /\ st[i].it.cur = k
            BY <1>1, <1>4, <2>2 DEF NoneLost, Unfreed
        <3>2. i # 1
            <4>1. NoCopy \notin DOMAIN cp
                BY LenProperties DEF NoCopy
            <4> QED BY <2>2, <3>1, <4>1
        <3> QED BY <1>3, <3>1, <3>2
    <2> QED BY <1>1, <2>1, <2>2
<1> QED BY <1>5, <1>6, <1>7 DEF Held, cpnew
-------------------------------------------------------------------------------
(* Types.                                                                  *)

\* TypeOK of the stack, for the copies cp and the query q.
StackTyped(st, cp, q) ==
    /\ st \in Seq(LevelType)
    /\ \A i \in DOMAIN st :
          /\ st[i].step \in Suffixes(q)
          /\ st[i].it.cur \in {NoCopy} \cup DOMAIN cp
          /\ i # 1 => st[i].it.cur # NoCopy
          /\ \A k \in DOMAIN st[i].it.items : st[i].it.items[k] \in DOMAIN cp

\* The conjuncts of Typed a step has to keep, apart.
LEMMA TypedParts ==
    ASSUME Typed
    PROVE  /\ kids \in [Nodes -> Seq(Nodes)] /\ start \in [Nodes -> Seq(Nodes)]
           /\ query \in Queries \cup {<< >>} /\ query \in Seq(Levels)
           /\ copies \in Seq(CopyType) /\ DOMAIN copies = 1 .. Len(copies) /\ Len(copies) \in Nat
           /\ NoCopy \notin DOMAIN copies
           /\ StackTyped(stack, copies, query) /\ stack \in Seq(LevelType)
           /\ current \in {NoCopy} \cup DOMAIN copies
           /\ pc \in {"none", "idle", "move", "handle", "over", "wild"}
           /\ returned \in Seq(Seq(Nodes))
<1>1. copies \in Seq(CopyType) /\ stack \in Seq(LevelType)
    BY DEF Typed, TypeOK
<1>2. DOMAIN copies = 1 .. Len(copies) /\ Len(copies) \in Nat /\ NoCopy \notin DOMAIN copies
    <2>1. DOMAIN copies = 1 .. Len(copies) /\ Len(copies) \in Nat
        BY <1>1, LenProperties
    <2> QED BY <2>1 DEF NoCopy
<1>3. StackTyped(stack, copies, query)
    BY <1>1 DEF Typed, TypeOK, IterOK, StackTyped, ToSet
<1> QED BY <1>1, <1>2, <1>3 DEF Typed, TypeOK

\* ... and what a step has to establish.
LEMMA PartsTyped ==
    ASSUME kids' \in [Nodes -> Seq(Nodes)], start' \in [Nodes -> Seq(Nodes)],
           query' \in Queries \cup {<< >>}, query' \in Seq(Levels),
           copies' \in Seq(CopyType), StackTyped(stack', copies', query'),
           current' \in {NoCopy} \cup DOMAIN copies',
           pc' \in {"none", "idle", "move", "handle", "over", "wild"},
           returned' \in Seq(Seq(Nodes)),
           pc' = "handle" => stack' # << >> /\ InHand' # NoCopy,
           pc' = "none" => stack' = << >> /\ copies' = << >> /\ current' = NoCopy
    PROVE  Typed'
<1>1. ASSUME NEW i \in DOMAIN stack'
      PROVE  /\ stack'[i].step \in Suffixes(query')
             /\ stack'[i].it.kind \in {"items", "children", "all"}
             /\ stack'[i].it.next \in Nodes \cup {None}
             /\ stack'[i].it.cur \in {NoCopy} \cup DOMAIN copies'
             /\ i # 1 => stack'[i].it.cur # NoCopy
             /\ ToSet(stack'[i].it.items) \subseteq DOMAIN copies'
    <2>1. stack'[i] \in LevelType
        BY ElementOfSeq, LenProperties DEF StackTyped
    <2>2. /\ stack'[i].it.kind \in {"items", "children", "all"}
          /\ stack'[i].it.next \in Nodes \cup {None}
        BY <2>1 DEF LevelType, IterType
    <2> QED BY <2>2 DEF StackTyped, ToSet
<1>2. stack' \in Seq(LevelType)
    BY DEF StackTyped
<1> QED BY <1>1, <1>2 DEF Typed, TypeOK, IterOK

\* The top of a stack.
LEMMA TopOf ==
    ASSUME StackTyped(stack, copies, query), stack # << >>
    PROVE  /\ 1 \in DOMAIN stack /\ Top = stack[1] /\ Top \in LevelType
           /\ Top.it \in IterType /\ Top.step \in Seq(Levels)
           /\ Top.it.kind \in {"items", "children", "all"} /\ Top.it.items \in Seq(Nat)
           /\ Top.it.next \in Nodes \cup {None}
           /\ InHand \in {NoCopy} \cup DOMAIN copies /\ InHand = stack[1].it.cur
           /\ Top.step \in Suffixes(query)
           /\ \A k \in DOMAIN Top.it.items : Top.it.items[k] \in DOMAIN copies
<1>1. stack \in Seq(LevelType)
    BY DEF StackTyped
<1>2. 1 \in DOMAIN stack /\ Top = stack[1] /\ Top \in LevelType
    BY <1>1, Popped DEF Top
<1>3. /\ Top.it \in IterType /\ Top.step \in Seq(Levels)
      /\ Top.it.kind \in {"items", "children", "all"} /\ Top.it.items \in Seq(Nat)
      /\ Top.it.next \in Nodes \cup {None}
    BY <1>2 DEF LevelType, IterType
<1> QED BY <1>2, <1>3 DEF StackTyped, InHand

LEMMA TailTyped ==
    ASSUME NEW st, NEW cp, NEW q, StackTyped(st, cp, q), st # << >>
    PROVE  StackTyped(Tail(st), cp, q)
<1>1. st \in Seq(LevelType)
    BY DEF StackTyped
<1>2. /\ Tail(st) \in Seq(LevelType)
      /\ \A i \in DOMAIN Tail(st) :
            i + 1 \in DOMAIN st /\ i + 1 # 1 /\ Tail(st)[i] = st[i + 1]
    BY <1>1, Popped, LenProperties
<1> QED BY <1>2 DEF StackTyped

LEMMA PushTyped ==
    ASSUME NEW st, NEW cp, NEW q, StackTyped(st, cp, q), NEW l \in LevelType,
           l.step \in Suffixes(q), l.it.cur = NoCopy, st # << >> => st[1].it.cur # NoCopy,
           \A k \in DOMAIN l.it.items : l.it.items[k] \in DOMAIN cp
    PROVE  StackTyped(<<l>> \o st, cp, q)
<1>1. st \in Seq(LevelType)
    BY DEF StackTyped
<1>2. /\ <<l>> \o st \in Seq(LevelType)
      /\ \A i \in DOMAIN (<<l>> \o st) :
            \/ i = 1 /\ (<<l>> \o st)[i] = l
            \/ i - 1 \in DOMAIN st /\ (<<l>> \o st)[i] = st[i - 1] /\ st # << >>
    <2>1. /\ <<l>> \o st \in Seq(LevelType) /\ DOMAIN st = 1 .. Len(st)
          /\ DOMAIN (<<l>> \o st) = 1 .. Len(st) + 1 /\ (<<l>> \o st)[1] = l
          /\ \A i \in 2 .. Len(st) + 1 : (<<l>> \o st)[i] = st[i - 1]
        BY <1>1, Pushed
    <2>2. Len(st) \in Nat
        BY <1>1, LenProperties
    <2>3. ASSUME NEW i \in 1 .. Len(st) + 1
          PROVE  i = 1 \/ (i \in 2 .. Len(st) + 1 /\ i - 1 \in 1 .. Len(st))
        BY <2>2, FirstOrLater
    <2> QED BY <2>1, <2>3
<1>3. \A i \in DOMAIN st : st[i].it.cur # NoCopy
    BY DEF StackTyped
<1> QED BY <1>2, <1>3 DEF StackTyped

LEMMA GrownTyped ==
    ASSUME NEW st, NEW cp, NEW cpnew, NEW q, StackTyped(st, cp, q),
           DOMAIN cp \subseteq DOMAIN cpnew
    PROVE  StackTyped(st, cpnew, q)
BY DEF StackTyped

\* The iterator on top goes on to it.
WithTop(st, it) == [st EXCEPT ![1] = [st[1] EXCEPT !.it = it]]

LEMMA TopReplaced ==
    ASSUME NEW st \in Seq(LevelType), st # << >>, NEW it \in IterType
    PROVE  /\ WithTop(st, it) \in Seq(LevelType)
           /\ DOMAIN WithTop(st, it) = DOMAIN st /\ WithTop(st, it) # << >>
           /\ WithTop(st, it)[1].it = it /\ WithTop(st, it)[1].step = st[1].step
           /\ \A i \in DOMAIN st : i # 1 => WithTop(st, it)[i] = st[i]
<1> DEFINE level == [st[1] EXCEPT !.it = it]
<1>1. 1 \in DOMAIN st /\ st[1] \in LevelType
    BY Popped
<1>2. level \in LevelType /\ level.it = it /\ level.step = st[1].step
    BY <1>1 DEF LevelType
<1> HIDE DEF level
<1>3. [st EXCEPT ![1] = level] \in Seq(LevelType) /\ DOMAIN [st EXCEPT ![1] = level] = DOMAIN st
    BY <1>1, <1>2, ExceptSeq
<1>4. /\ [st EXCEPT ![1] = level][1] = level
      /\ \A i \in DOMAIN st : i # 1 => [st EXCEPT ![1] = level][i] = st[i]
    BY <1>1
<1>5. [st EXCEPT ![1] = level] # << >>
    BY <1>1, <1>3
<1> QED BY <1>2, <1>3, <1>4, <1>5 DEF level, WithTop

LEMMA ReplacedTyped ==
    ASSUME NEW st, NEW cp, NEW q, StackTyped(st, cp, q), NEW new \in Seq(LevelType),
           DOMAIN new = DOMAIN st, \A i \in DOMAIN st : i # 1 => new[i] = st[i],
           new[1].step = st[1].step, new[1].it.cur \in {NoCopy} \cup DOMAIN cp,
           \A k \in DOMAIN new[1].it.items : new[1].it.items[k] \in DOMAIN cp
    PROVE  StackTyped(new, cp, q)
BY DEF StackTyped

\* Freeing a copy changes only that it is freed.
LEMMA FreedCopies ==
    ASSUME copies \in Seq(CopyType), NEW c \in {NoCopy} \cup DOMAIN copies
    PROVE  /\ Freed(c) \in Seq(CopyType) /\ DOMAIN Freed(c) = DOMAIN copies
           /\ Len(Freed(c)) = Len(copies)
           /\ \A k \in DOMAIN copies : k # c => Freed(c)[k] = copies[k]
           /\ c \in DOMAIN copies => Freed(c)[c].frees = copies[c].frees + 1
<1>1. CASE c \notin DOMAIN copies
    BY <1>1 DEF Freed
<1>2. CASE c \in DOMAIN copies
    <2>1. NoCopy \notin DOMAIN copies
        BY LenProperties DEF NoCopy
    <2>2. Freed(c) = [copies EXCEPT ![c].frees = copies[c].frees + 1]
        BY <1>2, <2>1 DEF Freed
    <2>3. copies[c] \in CopyType /\ DOMAIN copies = 1 .. Len(copies) /\ Len(copies) \in Nat
        BY <1>2, ElementOfSeq, LenProperties
    <2> DEFINE free == [copies[c] EXCEPT !.frees = copies[c].frees + 1]
    <2>4. free \in CopyType /\ free.frees = copies[c].frees + 1
        BY <2>3 DEF CopyType
    <2>5. Freed(c) = [copies EXCEPT ![c] = free]
        BY <1>2, <2>2
    <2> HIDE DEF free
    <2>6. Freed(c) \in Seq(CopyType) /\ DOMAIN Freed(c) = DOMAIN copies
        BY <1>2, <2>4, <2>5, ExceptSeq
    <2>7. Len(Freed(c)) = Len(copies)
        BY <2>3, <2>6, LenProperties
    <2>8. Freed(c)[c] = free /\ \A k \in DOMAIN copies : k # c => Freed(c)[k] = copies[k]
        BY <1>2, <2>5
    <2> QED BY <2>4, <2>6, <2>7, <2>8
<1> QED BY <1>1, <1>2

\* Where the links of a tree lead.
LEMMA LinksAreNodes ==
    ASSUME NEW K \in [Nodes -> Seq(Nodes)], NEW n \in Nodes
    PROVE  /\ FirstOf(K, n) \in Nodes \cup {None}
           /\ ParentOf(K, n) \in Nodes \cup {None}
           /\ NextOf(K, n) \in Nodes \cup {None}
<1>1. FirstOf(K, n) \in Nodes \cup {None}
    BY Popped DEF FirstOf
<1>2. /\ ParentOf(K, n) \in Nodes \cup {None}
      /\ ParentOf(K, n) # None => n \in ToSet(K[ParentOf(K, n)])
    BY TreeConstants DEF ParentOf
<1>3. NextOf(K, n) \in Nodes \cup {None}
    <2> DEFINE p    == ParentOf(K, n)
               here == CHOOSE i \in DOMAIN K[p] : K[p][i] = n
    <2>1. CASE p = None \/ n = Last(K[p])
        BY <2>1 DEF NextOf
    <2>2. CASE p # None /\ n # Last(K[p])
        <3>1. NextOf(K, n) = K[p][here + 1]
            BY <2>2 DEF NextOf
        <3>2. p \in Nodes /\ n \in ToSet(K[p])
            BY <1>2, <2>2
        <3>3. here \in DOMAIN K[p] /\ K[p][here] = n
            BY <3>2 DEF ToSet
        <3>4. DOMAIN K[p] = 1 .. Len(K[p]) /\ Len(K[p]) \in Nat /\ K[p] \in Seq(Nodes)
            BY <3>2, LenProperties
        <3>5. here # Len(K[p])
            BY <2>2, <3>3 DEF Last
        <3> HIDE DEF here, p
        <3>6. here + 1 \in DOMAIN K[p]
            BY <3>3, <3>4, <3>5, NotTheLast
        <3> QED BY <3>1, <3>4, <3>6, ElementOfSeq
    <2> QED BY <2>1, <2>2
<1> QED BY <1>1, <1>2, <1>3

LEMMA CopyTyped ==
    ASSUME kids \in [Nodes -> Seq(Nodes)], NEW n \in Nodes,
           NEW by \in {"client", "iterator", "nobody"}
    PROVE  CopyOf(n, by) \in CopyType /\ CopyOf(n, by).by = by /\ CopyOf(n, by).frees = 0
BY LinksAreNodes DEF CopyOf, CopyType
-------------------------------------------------------------------------------
(* One lemma for each action.                                              *)

\* The parts of the invariant.
LEMMA Parts ==
    ASSUME IInv
    PROVE  /\ Typed
           /\ pc # "wild" => Held(stack, copies)
           /\ pc = "idle" /\ current # NoCopy => Alive(current)
           /\ \A c \in DOMAIN copies : copies[c].frees <= 1
BY DEF IInv

LEMMA LinkNodeStep == IInv /\ LinkNode => IInv'
<1> SUFFICES ASSUME IInv, LinkNode PROVE IInv'
    OBVIOUS
<1>1. PICK p \in InTree(kids), n \in Nodes \ InTree(kids) : Link(p, n)
    BY DEF LinkNode, TreeNext
<1>2. UNCHANGED <<query, start, stack, copies, current, pc, returned>>
    BY DEF LinkNode, machine
<1>3. kids' \in [Nodes -> Seq(Nodes)]
    <2>1. kids \in [Nodes -> Seq(Nodes)]
        BY Parts, TypedParts
    <2>2. \A q \in Nodes : Append(kids[q], n) \in Seq(Nodes)
        BY <2>1
    <2> QED BY <1>1, <2>1, <2>2 DEF Link
<1>4. pc = "handle" => stack # << >> /\ InHand # NoCopy
    BY Parts DEF Typed
<1>5. pc = "none" => stack = << >> /\ copies = << >> /\ current = NoCopy
    BY Parts DEF Typed
<1>6. StackTyped(stack', copies', query')
    BY <1>2, Parts, TypedParts DEF StackTyped
<1>7. InHand' = InHand
    BY <1>2 DEF InHand, Top
<1>8. Typed'
    BY <1>2, <1>3, <1>4, <1>5, <1>6, <1>7, Parts, TypedParts, PartsTyped
<1> QED BY <1>2, <1>8, Parts DEF IInv, Alive

LEMMA ApplyStep == ASSUME NEW q \in Queries PROVE IInv /\ Apply(q) => IInv'
<1> SUFFICES ASSUME IInv, Apply(q) PROVE IInv'
    OBVIOUS
<1> DEFINE client == CopyOf(Root, "client")
           level  == [step |-> q, it |-> Items(<<1>>)]
<1>1. /\ pc = "none" /\ query' = q /\ start' = kids /\ copies' = <<client>>
      /\ stack' = <<level>> /\ pc' = "idle" /\ UNCHANGED <<kids, current, returned>>
    BY DEF Apply
<1>2. current = NoCopy
    BY <1>1, Parts DEF Typed
<1>3. q \in Seq(Levels) /\ q \in Suffixes(q)
    BY QueryAssumptions, SuffixAll
<1>4. client \in CopyType /\ client.by = "client" /\ client.frees = 0
    BY Parts, TypedParts, CopyTyped, TreeConstants
<1>5. /\ level \in LevelType /\ level.step = q /\ level.it.cur = NoCopy
      /\ level.it.kind = "items" /\ level.it.items = <<1>>
    <2>1. <<1>> \in Seq(Nat)
        OBVIOUS
    <2> QED BY <1>3, <2>1 DEF LevelType, IterType, Items, NoCopy
<1> HIDE DEF client, level
<1>6. copies' \in Seq(CopyType) /\ DOMAIN copies' = {1} /\ copies'[1] = client
    <2>1. <<client>> \in Seq(CopyType) /\ DOMAIN <<client>> = {1} /\ <<client>>[1] = client
        BY <1>4
    <2> QED BY <1>1, <2>1
<1>7. stack' \in Seq(LevelType) /\ DOMAIN stack' = {1} /\ stack'[1] = level
    <2>1. <<level>> \in Seq(LevelType) /\ DOMAIN <<level>> = {1} /\ <<level>>[1] = level
        BY <1>5
    <2> QED BY <1>1, <2>1
<1>8. StackTyped(stack', copies', query')
    <2>1. \A k \in DOMAIN <<1>> : <<1>>[k] \in {1}
        OBVIOUS
    <2> QED BY <1>1, <1>3, <1>5, <1>6, <1>7, <2>1 DEF StackTyped
<1>9. Typed'
    BY <1>1, <1>2, <1>3, <1>6, <1>8, Parts, TypedParts, PartsTyped
<1>10. Held(stack, copies)'
    <2>1. \A i \in DOMAIN stack' : ~Owner(stack', i)
        BY <1>5, <1>7 DEF Owner
    <2>2. \A c \in DOMAIN copies' : copies'[c].by # "iterator" /\ Unfreed(copies', c)
        BY <1>4, <1>6 DEF Unfreed
    <2> QED BY <2>1, <2>2 DEF Held, OwnersOK, ItemsOK, NoneLost
<1>11. \A c \in DOMAIN copies' : copies'[c].frees <= 1
    BY <1>4, <1>6
<1> QED BY <1>1, <1>2, <1>9, <1>10, <1>11 DEF IInv

\* Steps that neither make or free a copy nor move the stack.
LEMMA StillStep ==
    ASSUME IInv, UNCHANGED <<kids, query, start, stack, copies, current, returned>>,
           pc # "wild", pc # "none",
           pc' \in {"move", "over", "wild"}
    PROVE  IInv'
<1>1. StackTyped(stack', copies', query')
    BY Parts, TypedParts DEF StackTyped
<1>2. Typed'
    BY <1>1, Parts, TypedParts, PartsTyped
<1> QED BY <1>2, Parts DEF IInv

\* The stack moves, or copies are made or freed, and the machine goes on.
LEMMA MachineStep ==
    ASSUME IInv, UNCHANGED <<kids, query, start, current, returned>>,
           copies' \in Seq(CopyType), DOMAIN copies \subseteq DOMAIN copies',
           StackTyped(stack', copies', query),
           pc' \in {"move", "handle", "wild"},
           pc' = "handle" => stack' # << >> /\ stack'[1].it.cur # NoCopy,
           pc' # "wild" => Held(stack', copies'),
           \A c \in DOMAIN copies' : copies'[c].frees <= 1
    PROVE  IInv'
<1>1. StackTyped(stack', copies', query')
    BY DEF StackTyped
<1>2. pc' = "handle" => InHand' # NoCopy
    <2>1. stack' # << >> => Head(stack') = stack'[1]
        BY Popped DEF StackTyped
    <2> QED BY <2>1 DEF InHand, Top
<1>3. Typed'
    BY <1>1, <1>2, Parts, TypedParts, PartsTyped
<1> QED BY <1>3, Parts DEF IInv

LEMMA MoveNextStep == IInv /\ MoveNext => IInv'
BY StillStep DEF MoveNext

LEMMA StopSteps ==
    IInv /\ (QueryEnds \/ ConditionDies \/ Unhandled) => IInv'
BY StillStep DEF QueryEnds, ConditionDies, Unhandled, AtOp, Given

LEMMA ItemNextStep == IInv /\ ItemNext => IInv'
<1> SUFFICES ASSUME IInv, ItemNext PROVE IInv'
    OBVIOUS
<1> DEFINE it == [Top.it EXCEPT !.cur = Head(Top.it.items), !.items = Tail(Top.it.items)]
<1>1. /\ pc = "move" /\ stack # << >> /\ Top.it.kind = "items" /\ Top.it.items # << >>
      /\ stack' = [stack EXCEPT ![1].it.cur = Head(Top.it.items),
                                ![1].it.items = Tail(Top.it.items)]
      /\ pc' = "handle" /\ UNCHANGED <<kids, query, start, copies, current, returned>>
    BY DEF ItemNext, AtMove, Given
<1>2. StackTyped(stack, copies, query) /\ Held(stack, copies) /\ copies \in Seq(CopyType)
      /\ NoCopy \notin DOMAIN copies /\ stack \in Seq(LevelType)
    BY <1>1, Parts, TypedParts
<1>3. /\ 1 \in DOMAIN stack /\ Top = stack[1] /\ Top \in LevelType /\ Top.it \in IterType
      /\ Top.it.items \in Seq(Nat)
      /\ \A k \in DOMAIN Top.it.items : Top.it.items[k] \in DOMAIN copies
    BY <1>1, <1>2, TopOf
<1>4. /\ Tail(Top.it.items) \in Seq(Nat) /\ Head(Top.it.items) \in Nat
      /\ Head(Top.it.items) \in DOMAIN copies
      /\ \A k \in DOMAIN Tail(Top.it.items) : Tail(Top.it.items)[k] \in DOMAIN copies
    <2> DEFINE s == Top.it.items
    <2>1. s \in Seq(Nat) /\ s # << >> /\ \A k \in DOMAIN s : s[k] \in DOMAIN copies
        BY <1>1, <1>3
    <2> HIDE DEF s
    <2>2. /\ Tail(s) \in Seq(Nat) /\ 1 \in DOMAIN s /\ Head(s) = s[1] /\ s[1] \in Nat
          /\ \A k \in DOMAIN Tail(s) : k + 1 \in DOMAIN s /\ Tail(s)[k] = s[k + 1]
        BY <2>1, Popped
    <2>3. /\ Tail(s) \in Seq(Nat) /\ Head(s) \in Nat /\ Head(s) \in DOMAIN copies
          /\ \A k \in DOMAIN Tail(s) : Tail(s)[k] \in DOMAIN copies
        BY <2>1, <2>2
    <2> QED BY <2>3 DEF s
<1>5. /\ it \in IterType /\ it.cur = Head(Top.it.items) /\ it.items = Tail(Top.it.items)
      /\ it.kind = Top.it.kind
    BY <1>3, <1>4 DEF IterType
<1>6. stack' = WithTop(stack, it)
    BY <1>1, <1>3 DEF LevelType, IterType, WithTop
<1> HIDE DEF it
<1>7. /\ stack' \in Seq(LevelType) /\ DOMAIN stack' = DOMAIN stack /\ stack' # << >>
      /\ stack'[1].it = it /\ stack'[1].step = stack[1].step
      /\ \A i \in DOMAIN stack : i # 1 => stack'[i] = stack[i]
    <2>1. stack # << >> /\ stack \in Seq(LevelType) /\ it \in IterType
        BY <1>1, <1>2, <1>5
    <2> QED BY <1>6, <2>1, TopReplaced
<1>8. StackTyped(stack', copies, query)
    BY <1>2, <1>4, <1>5, <1>7, ReplacedTyped
<1>9. Held(stack', copies)
    <2>1. ~Owner(stack, 1)
        BY <1>1, <1>3 DEF Owner
    <2>2. /\ stack[1].it.items # << >> /\ stack'[1].it.kind = stack[1].it.kind
          /\ stack'[1].it.cur = Head(stack[1].it.items)
          /\ stack'[1].it.items = Tail(stack[1].it.items)
        BY <1>1, <1>3, <1>5, <1>7
    <2>3. stack # << >> /\ stack \in Seq(LevelType) /\ Held(stack, copies)
        BY <1>1, <1>2
    <2> QED BY <1>7, <2>1, <2>2, <2>3, ItemHeld
<1>10. stack'[1].it.cur # NoCopy
    BY <1>2, <1>4, <1>5, <1>7
<1> QED BY <1>1, <1>2, <1>7, <1>8, <1>9, <1>10, Parts, MachineStep

LEMMA ItemEndStep == IInv /\ ItemEnd => IInv'
<1> SUFFICES ASSUME IInv, ItemEnd PROVE IInv'
    OBVIOUS
<1>1. /\ pc = "move" /\ pc' = "move" /\ stack # << >> /\ Top.it.kind = "items"
      /\ stack' = Tail(stack) /\ UNCHANGED <<kids, query, start, copies, current, returned>>
    BY DEF ItemEnd, AtMove, Given, Below
<1>2. StackTyped(stack, copies, query) /\ Held(stack, copies) /\ copies \in Seq(CopyType)
      /\ NoCopy \notin DOMAIN copies /\ stack \in Seq(LevelType)
    BY <1>1, Parts, TypedParts
<1>3. ~Owner(stack, 1)
    BY <1>1, <1>2, TopOf DEF Owner
<1>4. StackTyped(stack', copies, query) /\ Held(stack', copies)
    BY <1>1, <1>2, <1>3, TailTyped, PopHeld
<1> QED BY <1>1, <1>2, <1>4, Parts, MachineStep

\* The copy an iterator over children stands on is freed, and it stands on none.
LEMMA TopFrees ==
    ASSUME IInv, pc # "wild", stack # << >>, Top.it.kind \in {"children", "all"}
    PROVE  LET st == WithTop(stack, [Top.it EXCEPT !.cur = NoCopy])
           IN  /\ Held(st, Freed(InHand)) /\ StackTyped(st, Freed(InHand), query)
               /\ st # << >> /\ DOMAIN st = DOMAIN stack
               /\ st[1].it = [Top.it EXCEPT !.cur = NoCopy] /\ st[1].step = stack[1].step
               /\ \A i \in DOMAIN stack : i # 1 => st[i] = stack[i]
               /\ Freed(InHand) \in Seq(CopyType) /\ DOMAIN Freed(InHand) = DOMAIN copies
               /\ Len(Freed(InHand)) = Len(copies)
               /\ \A c \in DOMAIN copies : Freed(InHand)[c].frees <= 1
<1> DEFINE it == [Top.it EXCEPT !.cur = NoCopy]
           st == WithTop(stack, it)
           cp == Freed(InHand)
<1>1. StackTyped(stack, copies, query) /\ Held(stack, copies) /\ copies \in Seq(CopyType)
      /\ NoCopy \notin DOMAIN copies /\ stack \in Seq(LevelType)
      /\ \A c \in DOMAIN copies : copies[c].frees <= 1
    BY Parts, TypedParts
<1>2. /\ 1 \in DOMAIN stack /\ Top = stack[1] /\ Top.it \in IterType /\ InHand = stack[1].it.cur
      /\ InHand \in {NoCopy} \cup DOMAIN copies
    BY <1>1, TopOf
<1>3. /\ it \in IterType /\ it.cur = NoCopy /\ it.items = stack[1].it.items
      /\ it.kind = stack[1].it.kind
    BY <1>2 DEF IterType, NoCopy
<1>4. /\ cp \in Seq(CopyType) /\ DOMAIN cp = DOMAIN copies /\ Len(cp) = Len(copies)
      /\ \A k \in DOMAIN copies : k # InHand => cp[k] = copies[k]
      /\ InHand \in DOMAIN copies => cp[InHand].frees = copies[InHand].frees + 1
    BY <1>1, <1>2, FreedCopies
<1>5. Owner(stack, 1)
    BY <1>2 DEF Owner
<1>6. InHand \in DOMAIN copies => copies[InHand].frees = 0 /\ cp[InHand].frees = 1
    <2>1. InHand \in DOMAIN copies => copies[InHand].frees = 0
        BY <1>1, <1>2, <1>5 DEF Held, OwnersOK, Unfreed
    <2> QED BY <1>4, <2>1
<1> HIDE DEF it, cp
<1>7. /\ st \in Seq(LevelType) /\ st # << >> /\ DOMAIN st = DOMAIN stack
      /\ st[1].it = it /\ st[1].step = stack[1].step
      /\ \A i \in DOMAIN stack : i # 1 => st[i] = stack[i]
    BY <1>1, <1>3, TopReplaced
<1> HIDE DEF st
<1>8. StackTyped(st, cp, query)
    <2>1. \A k \in DOMAIN st[1].it.items : st[1].it.items[k] \in DOMAIN copies
        BY <1>1, <1>2, <1>3, <1>7 DEF StackTyped
    <2>2. st[1].it.cur = NoCopy
        BY <1>3, <1>7
    <2>3. StackTyped(st, copies, query)
        BY <1>1, <1>7, <2>1, <2>2, ReplacedTyped
    <2> QED BY <1>4, <2>3, GrownTyped
<1>9. Held(st, cp)
    <2>1. /\ \A c \in DOMAIN copies : c # stack[1].it.cur => cp[c] = copies[c]
          /\ \A c \in DOMAIN copies : c = stack[1].it.cur => ~Unfreed(cp, c)
        BY <1>2, <1>4, <1>6 DEF Unfreed
    <2>2. \A i \in DOMAIN stack : stack[i].it.cur \in {NoCopy} \cup DOMAIN copies
        BY <1>1 DEF StackTyped
    <2>3. /\ st[1].it.kind = stack[1].it.kind /\ st[1].it.cur = NoCopy
          /\ st[1].it.items = stack[1].it.items
        BY <1>3, <1>7
    <2> QED BY <1>1, <1>4, <1>5, <1>7, <2>1, <2>2, <2>3, FreeHeld
<1>10. \A c \in DOMAIN copies : cp[c].frees <= 1
    BY <1>1, <1>4, <1>6
<1> QED BY <1>4, <1>7, <1>8, <1>9, <1>10 DEF it, st, cp

LEMMA ChildNextStep == IInv /\ ChildNext => IInv'
<1> SUFFICES ASSUME IInv, ChildNext PROVE IInv'
    OBVIOUS
<1> DEFINE old  == WithTop(stack, [Top.it EXCEPT !.cur = NoCopy])
           copy == CopyOf(Top.it.next, "iterator")
           it   == [Top.it EXCEPT !.cur = NewCopy, !.next = NextOf(kids, Top.it.next)]
           cp   == Freed(InHand)
<1>1. /\ pc = "move" /\ stack # << >> /\ Top.it.kind \in {"children", "all"}
      /\ Top.it.next # None /\ pc' = "handle"
      /\ copies' = Append(cp, copy)
      /\ UNCHANGED <<kids, query, start, current, returned>>
    BY DEF ChildNext, AtMove, Given
<1>2. stack' = [stack EXCEPT ![1].it.cur = NewCopy,
                             ![1].it.next = NextOf(kids, Top.it.next)]
    BY DEF ChildNext
<1>3. /\ StackTyped(stack, copies, query) /\ stack \in Seq(LevelType)
      /\ kids \in [Nodes -> Seq(Nodes)] /\ Len(copies) \in Nat
      /\ DOMAIN copies = 1 .. Len(copies)
    BY Parts, TypedParts
<1>4. /\ 1 \in DOMAIN stack /\ Top = stack[1] /\ Top \in LevelType /\ Top.it \in IterType
      /\ Top.it.next \in Nodes
    BY <1>1, <1>3, TopOf
<1>5. /\ Held(old, cp) /\ StackTyped(old, cp, query) /\ old # << >> /\ DOMAIN old = DOMAIN stack
      /\ old[1].it = [Top.it EXCEPT !.cur = NoCopy] /\ old[1].step = stack[1].step
      /\ \A i \in DOMAIN stack : i # 1 => old[i] = stack[i]
      /\ cp \in Seq(CopyType) /\ DOMAIN cp = DOMAIN copies /\ Len(cp) = Len(copies)
      /\ \A c \in DOMAIN copies : cp[c].frees <= 1
    BY <1>1, TopFrees
<1>6. /\ it \in IterType /\ it.cur = NewCopy /\ it.items = old[1].it.items
      /\ it.kind = old[1].it.kind /\ old[1].it.cur = NoCopy
      /\ it.kind \in {"children", "all"}
    <2>1. NextOf(kids, Top.it.next) \in Nodes \cup {None} /\ NewCopy \in Nat
        BY <1>3, <1>4, LinksAreNodes DEF NewCopy
    <2> QED BY <1>1, <1>4, <1>5, <2>1 DEF IterType
<1>7. stack' = WithTop(stack, it)
    BY <1>2, <1>4 DEF LevelType, IterType, WithTop
<1>8. copy \in CopyType /\ copy.by = "iterator" /\ copy.frees = 0
    BY <1>3, <1>4, CopyTyped
<1> HIDE DEF it, old, cp, copy
<1>9. /\ stack' \in Seq(LevelType) /\ DOMAIN stack' = DOMAIN stack /\ stack' # << >>
      /\ stack'[1].it = it /\ stack'[1].step = stack[1].step
      /\ \A i \in DOMAIN stack : i # 1 => stack'[i] = stack[i]
    <2>1. stack # << >> /\ stack \in Seq(LevelType) /\ it \in IterType
        BY <1>1, <1>3, <1>6
    <2> QED BY <1>7, <2>1, TopReplaced
<1>10. /\ copies' \in Seq(CopyType) /\ DOMAIN copies' = DOMAIN copies \cup {NewCopy}
       /\ copies'[NewCopy] = copy /\ \A c \in DOMAIN copies : copies'[c] = cp[c]
    <2>1. /\ Append(cp, copy) \in Seq(CopyType) /\ DOMAIN cp = 1 .. Len(cp)
          /\ DOMAIN Append(cp, copy) = 1 .. Len(cp) + 1 /\ Len(cp) \in Nat
          /\ Append(cp, copy)[Len(cp) + 1] = copy
          /\ \A i \in 1 .. Len(cp) : Append(cp, copy)[i] = cp[i]
        BY <1>5, <1>8, Lengthened
    <2>2. 1 .. Len(cp) + 1 = 1 .. Len(cp) \cup {Len(cp) + 1}
        BY <2>1
    <2> QED BY <1>1, <1>5, <2>1, <2>2 DEF NewCopy
<1>11. \A i \in DOMAIN old : /\ old[i].it.cur \in {NoCopy} \cup DOMAIN cp
                             /\ \A k \in DOMAIN old[i].it.items : old[i].it.items[k] \in DOMAIN cp
    BY <1>5 DEF StackTyped
<1>12. StackTyped(stack', copies', query)
    <2>1. StackTyped(old, copies', query)
        BY <1>5, <1>10, GrownTyped
    <2>2. \A k \in DOMAIN stack'[1].it.items : stack'[1].it.items[k] \in DOMAIN copies'
        BY <1>4, <1>5, <1>6, <1>9, <1>10, <1>11
    <2>3. stack'[1].it.cur \in {NoCopy} \cup DOMAIN copies'
        BY <1>6, <1>9, <1>10
    <2>4. DOMAIN stack' = DOMAIN old /\ stack'[1].step = old[1].step
          /\ \A i \in DOMAIN old : i # 1 => stack'[i] = old[i]
        BY <1>5, <1>9
    <2>5. stack' \in Seq(LevelType)
        BY <1>9
    <2> QED BY <2>1, <2>2, <2>3, <2>4, <2>5, ReplacedTyped
<1>13. Held(stack', copies')
    <2>1. Held(old, cp) /\ cp \in Seq(CopyType) /\ 1 \in DOMAIN old /\ Owner(old, 1)
          /\ old[1].it.cur = NoCopy
        BY <1>4, <1>5, <1>6 DEF Owner
    <2>2. /\ DOMAIN stack' = DOMAIN old /\ \A i \in DOMAIN old : i # 1 => stack'[i] = old[i]
          /\ stack'[1].it.kind = old[1].it.kind /\ stack'[1].it.cur = Len(cp) + 1
          /\ stack'[1].it.items = old[1].it.items
        BY <1>5, <1>6, <1>9 DEF NewCopy
    <2>3. Held(stack', Append(cp, copy))
        BY <1>8, <1>11, <2>1, <2>2, OwnHeld
    <2> QED BY <1>1, <2>3
<1>14. \A c \in DOMAIN copies' : copies'[c].frees <= 1
    BY <1>5, <1>8, <1>10
<1>15. DOMAIN copies \subseteq DOMAIN copies' /\ stack'[1].it.cur # NoCopy
    BY <1>3, <1>6, <1>9, <1>10 DEF NewCopy, NoCopy
<1> QED BY <1>1, <1>9, <1>10, <1>12, <1>13, <1>14, <1>15, MachineStep

LEMMA ChildrenEndStep == IInv /\ ChildrenEnd => IInv'
<1> SUFFICES ASSUME IInv, ChildrenEnd PROVE IInv'
    OBVIOUS
<1> DEFINE old == WithTop(stack, [Top.it EXCEPT !.cur = NoCopy])
           cp  == Freed(InHand)
<1>1. /\ pc = "move" /\ pc' = "move" /\ stack # << >> /\ Top.it.kind \in {"children", "all"}
      /\ copies' = cp /\ stack' = Tail(stack)
      /\ UNCHANGED <<kids, query, start, current, returned>>
    BY DEF ChildrenEnd, AtMove, Given, Below
<1>2. StackTyped(stack, copies, query) /\ stack \in Seq(LevelType) /\ NoCopy \notin DOMAIN copies
    BY Parts, TypedParts
<1>3. /\ Held(old, cp) /\ StackTyped(old, cp, query) /\ old # << >> /\ DOMAIN old = DOMAIN stack
      /\ old[1].it = [Top.it EXCEPT !.cur = NoCopy]
      /\ \A i \in DOMAIN stack : i # 1 => old[i] = stack[i]
      /\ cp \in Seq(CopyType) /\ DOMAIN cp = DOMAIN copies
      /\ \A c \in DOMAIN copies : cp[c].frees <= 1
    BY <1>1, TopFrees
<1>4. old[1].it.cur = NoCopy
    <2>1. Top.it \in IterType
        BY <1>1, <1>2, TopOf
    <2> QED BY <1>3, <2>1 DEF IterType
<1> HIDE DEF old, cp
<1>5. old \in Seq(LevelType)
    BY <1>3 DEF StackTyped
<1>6. Tail(old) = Tail(stack)
    <2>1. /\ Tail(old) \in Seq(LevelType) /\ DOMAIN old = 1 .. Len(old)
          /\ DOMAIN Tail(old) = 1 .. Len(old) - 1
          /\ \A i \in 1 .. Len(old) - 1 : Tail(old)[i] = old[i + 1]
        BY <1>3, <1>5, Popped
    <2>2. /\ Tail(stack) \in Seq(LevelType) /\ DOMAIN stack = 1 .. Len(stack)
          /\ DOMAIN Tail(stack) = 1 .. Len(stack) - 1
          /\ \A i \in 1 .. Len(stack) - 1 : Tail(stack)[i] = stack[i + 1]
        BY <1>1, <1>2, Popped
    <2>3. Len(old) \in Nat /\ Len(stack) \in Nat /\ Len(old) = Len(stack)
        <3>1. Len(old) \in Nat /\ Len(stack) \in Nat
            BY <1>2, <1>5, LenProperties
        <3>2. 1 .. Len(old) = 1 .. Len(stack)
            BY <1>3, <2>1, <2>2
        <3> QED BY <3>1, <3>2, SameLength
    <2>4. ASSUME NEW i \in 1 .. Len(stack) - 1 PROVE Tail(old)[i] = Tail(stack)[i]
        <3>1. i + 1 \in 1 .. Len(stack) /\ i + 1 # 1
            BY <2>3
        <3> QED BY <1>3, <2>1, <2>2, <2>3, <3>1
    <2>5. Len(Tail(old)) = Len(Tail(stack)) /\ Len(Tail(old)) = Len(stack) - 1
        BY <1>1, <1>2, <1>3, <1>5, <2>3, HeadTailProperties
    <2> QED BY <2>1, <2>2, <2>4, <2>5, SeqEqual
<1>7. Held(stack', copies')
    BY <1>1, <1>2, <1>3, <1>4, <1>5, <1>6, PopHeld
<1>8. StackTyped(stack', copies', query)
    BY <1>1, <1>3, <1>6, TailTyped
<1> QED BY <1>1, <1>3, <1>7, <1>8, MachineStep

LEMMA AllBreaksStep == IInv /\ AllBreaks => IInv'
<1> SUFFICES ASSUME IInv, AllBreaks PROVE IInv'
    OBVIOUS
<1>1. /\ pc = "move" /\ pc' = "wild" /\ stack # << >> /\ Top.it.kind \in {"children", "all"}
      /\ copies' = Freed(InHand) /\ UNCHANGED <<kids, query, start, stack, current, returned>>
    BY DEF AllBreaks, AtMove, Given
<1>2. /\ copies' \in Seq(CopyType) /\ DOMAIN copies' = DOMAIN copies
      /\ \A c \in DOMAIN copies' : copies'[c].frees <= 1
    BY <1>1, TopFrees
<1>3. StackTyped(stack', copies', query)
    BY <1>1, <1>2, Parts, TypedParts, GrownTyped
<1> QED BY <1>1, <1>2, <1>3, MachineStep

\* What the object queryMoveNext looks at is read from has not been freed.
LEMMA HandIsAlive ==
    ASSUME IInv, pc = "handle"
    PROVE  InHand \in DOMAIN copies /\ Alive(InHand)
<1>1. /\ StackTyped(stack, copies, query) /\ Held(stack, copies)
      /\ stack # << >> /\ InHand # NoCopy
    BY Parts, TypedParts DEF Typed
<1>2. InHand \in DOMAIN copies /\ 1 \in DOMAIN stack /\ InHand = stack[1].it.cur
    BY <1>1, TopOf
<1>3. CASE Owner(stack, 1)
    BY <1>1, <1>2, <1>3 DEF Held, OwnersOK, Unfreed, Alive
<1>4. CASE ~Owner(stack, 1)
    <2>1. RefersTo(stack, 1, InHand)
        BY <1>1, <1>2 DEF RefersTo
    <2> QED BY <1>1, <1>2, <1>4, <2>1 DEF Held, ItemsOK, Unfreed, Alive
<1> QED BY <1>2, <1>3, <1>4

\* Every level stands on an object.
LEMMA WayIsOfNodes ==
    ASSUME StackTyped(stack, copies, query), copies \in Seq(CopyType),
           stack # << >> => InHand # NoCopy
    PROVE  Way \in Seq(Nodes) /\ Len(Way) = Len(stack)
<1>1. DOMAIN stack = 1 .. Len(stack) /\ Len(stack) \in Nat
    BY LenProperties DEF StackTyped
<1>2. ASSUME NEW h \in 1 .. Len(stack)
      PROVE  copies[stack[Len(stack) + 1 - h].it.cur].n \in Nodes
    <2>1. Len(stack) + 1 - h \in DOMAIN stack /\ stack # << >>
        BY <1>1
    <2>2. stack[Len(stack) + 1 - h].it.cur \in DOMAIN copies
        BY <2>1, TopOf DEF StackTyped
    <2>3. copies[stack[Len(stack) + 1 - h].it.cur] \in CopyType
        BY <2>2, ElementOfSeq, LenProperties
    <2> QED BY <2>3 DEF CopyType
<1>3. Way \in [1 .. Len(stack) -> Nodes]
    BY <1>2 DEF Way
<1> QED BY <1>1, <1>3, SeqDef, LenProperties

LEMMA ReturnNodeStep == IInv /\ ReturnNode => IInv'
<1> SUFFICES ASSUME IInv, ReturnNode PROVE IInv'
    OBVIOUS
<1>1. /\ pc = "handle" /\ pc' = "idle" /\ current' = InHand
      /\ returned' = Append(returned, Way)
      /\ UNCHANGED <<kids, query, start, stack, copies>>
    BY DEF ReturnNode, Given
<1>2. StackTyped(stack, copies, query) /\ Held(stack, copies) /\ copies \in Seq(CopyType)
      /\ stack # << >> /\ InHand # NoCopy /\ returned \in Seq(Seq(Nodes))
    BY <1>1, Parts, TypedParts DEF Typed
<1>3. InHand \in DOMAIN copies /\ 1 \in DOMAIN stack /\ InHand = stack[1].it.cur
    BY <1>2, TopOf
<1>4. returned' \in Seq(Seq(Nodes))
    <2>1. Way \in Seq(Nodes)
        BY <1>2, WayIsOfNodes
    <2> QED BY <1>1, <1>2, <2>1
<1>5. Alive(InHand)
    BY <1>1, HandIsAlive
<1>6. StackTyped(stack', copies', query')
    BY <1>1, <1>2 DEF StackTyped
<1>7. Typed'
    BY <1>1, <1>3, <1>4, <1>6, Parts, TypedParts, PartsTyped
<1> QED BY <1>1, <1>2, <1>5, <1>7, Parts DEF IInv, Alive

\* None has been made.
LEMMA NotLonger ==
    ASSUME IInv, UNCHANGED copies
    PROVE  Longer(copies, copies')
BY Parts, TypedParts DEF Longer

\* A condition has read some cells.
LEMMA ReadCellsLonger ==
    ASSUME IInv, AtOp("T_CONDITION"), ReadCells
    PROVE  /\ Object \in Nodes /\ Longer(copies, copies')
           /\ \A c \in DOMAIN copies' : c \in DOMAIN copies \/ copies'[c] = CopyOf(Object, "nobody")
           /\ \A c \in DOMAIN copies' : copies'[c].frees <= 1
<1> DEFINE k    == Cardinality(CellReads(Object, Head(Top.step).cond))
           copy == CopyOf(Object, "nobody")
           made == [i \in 1 .. k |-> copy]
<1>1. /\ pc = "handle" /\ Top.step # << >> /\ Head(Top.step).op = "T_CONDITION"
      /\ copies' = copies \o made
    BY DEF AtOp, ReadCells
<1>2. /\ StackTyped(stack, copies, query) /\ stack # << >> /\ copies \in Seq(CopyType)
      /\ kids \in [Nodes -> Seq(Nodes)] /\ \A c \in DOMAIN copies : copies[c].frees <= 1
    BY <1>1, Parts, TypedParts DEF Typed
<1>3. Object \in Nodes
    <2>1. copies[InHand] \in CopyType
        BY <1>1, <1>2, HandIsAlive, ElementOfSeq, LenProperties
    <2> QED BY <2>1 DEF Object, CopyType
<1>4. k \in Nat
    <2>1. Head(Top.step) \in Levels
        BY <1>1, <1>2, TopOf
    <2>2. Head(Top.step).cond \in CondOps
        BY <1>1, <2>1 DEF Levels
    <2> QED BY <2>2, CellReadsFinite
<1>5. copy \in CopyType /\ copy.by = "nobody" /\ copy.frees = 0
    BY <1>2, <1>3, CopyTyped
<1> HIDE DEF k, copy
<1>6. made \in Seq(CopyType) /\ Len(made) = k
    BY <1>4, <1>5
<1>7. \A i \in 1 .. k : made[i] = copy
    OBVIOUS
<1> HIDE DEF made
<1>8. /\ copies' \in Seq(CopyType) /\ Len(copies') = Len(copies) + k
      /\ \A i \in 1 .. Len(copies) + k :
            copies'[i] = IF i <= Len(copies) THEN copies[i] ELSE made[i - Len(copies)]
    BY <1>1, <1>2, <1>6, ConcatProperties
<1>9. /\ DOMAIN copies = 1 .. Len(copies) /\ Len(copies) \in Nat
      /\ DOMAIN copies' = 1 .. Len(copies) + k
    BY <1>2, <1>8, LenProperties
<1>10. ASSUME NEW i \in 1 .. Len(copies) + k
       PROVE  \/ i \in 1 .. Len(copies) /\ copies'[i] = copies[i]
              \/ copies'[i] = copy
    <2>1. CASE i <= Len(copies)
        BY <1>8, <1>9, <2>1
    <2>2. CASE ~(i <= Len(copies))
        <3>1. i - Len(copies) \in 1 .. k
            BY <1>4, <1>9, <2>2
        <3> QED BY <1>7, <1>8, <2>2, <3>1
    <2> QED BY <2>1, <2>2
<1>11. \A i \in 1 .. Len(copies) : i \in 1 .. Len(copies) + k /\ copies'[i] = copies[i]
    BY <1>4, <1>8, <1>9
<1>12. Longer(copies, copies')
    BY <1>5, <1>8, <1>9, <1>10, <1>11 DEF Longer
<1>13. \A c \in DOMAIN copies' : c \in DOMAIN copies \/ copies'[c] = copy
    BY <1>9, <1>10
<1>14. \A c \in DOMAIN copies' : copies'[c].frees <= 1
    BY <1>2, <1>5, <1>9, <1>10
<1> QED BY <1>3, <1>12, <1>13, <1>14 DEF copy

\* An iterator is pushed; at most copies nobody frees have been made.
LEMMA PushStep ==
    ASSUME IInv, NEW it \in IterType, pc = "handle", Top.step # << >>, Push(it),
           Longer(copies, copies'), \A c \in DOMAIN copies' : copies'[c].frees <= 1,
           it.cur = NoCopy, \A k \in DOMAIN it.items : it.items[k] = InHand,
           it.kind # "items" => it.items = << >>
    PROVE  IInv'
<1> DEFINE level == [step |-> Tail(Top.step), it |-> it]
<1>1. /\ stack' = <<level>> \o stack /\ pc' = "move"
      /\ UNCHANGED <<kids, query, start, current, returned>>
    BY DEF Push, Given
<1>2. StackTyped(stack, copies, query) /\ Held(stack, copies) /\ copies \in Seq(CopyType)
      /\ stack # << >> /\ InHand # NoCopy /\ stack \in Seq(LevelType) /\ query \in Seq(Levels)
    BY Parts, TypedParts DEF Typed
<1>3. /\ InHand \in DOMAIN copies /\ InHand = stack[1].it.cur
      /\ Top.step \in Suffixes(query) /\ Top.step \in Seq(Levels)
    BY <1>2, TopOf
<1>4. Tail(Top.step) \in Suffixes(query) /\ Tail(Top.step) \in Seq(Levels)
    BY <1>2, <1>3, SuffixTail, Popped
<1>5. /\ level \in LevelType /\ level.step = Tail(Top.step) /\ level.it = it
    BY <1>4 DEF LevelType
<1> HIDE DEF level
<1>6. copies' \in Seq(CopyType) /\ DOMAIN copies \subseteq DOMAIN copies'
    BY DEF Longer
<1>7. StackTyped(stack', copies', query)
    <2>1. StackTyped(stack, copies', query)
        BY <1>2, <1>6, GrownTyped
    <2> QED BY <1>1, <1>2, <1>3, <1>4, <1>5, <1>6, <2>1, PushTyped
<1>8. Held(stack', copies')
    <2>1. Held(stack, copies')
        BY <1>2, CopyHeld DEF StackTyped
    <2> QED BY <1>1, <1>2, <1>3, <1>5, <2>1, PushHeld
<1> QED BY <1>1, <1>6, <1>7, <1>8, MachineStep

LEMMA ConditionFalseStep == IInv /\ ConditionFalse => IInv'
<1> SUFFICES ASSUME IInv, ConditionFalse PROVE IInv'
    OBVIOUS
<1>1. /\ AtOp("T_CONDITION") /\ ReadCells /\ pc = "handle" /\ pc' = "move"
      /\ UNCHANGED <<kids, query, start, stack, current, returned>>
    BY DEF ConditionFalse, AtOp, Given
<1>2. /\ StackTyped(stack, copies, query) /\ Held(stack, copies)
      /\ copies \in Seq(CopyType) /\ stack \in Seq(LevelType)
    BY <1>1, Parts, TypedParts
<1>3. /\ Longer(copies, copies') /\ \A c \in DOMAIN copies' : copies'[c].frees <= 1
      /\ copies' \in Seq(CopyType) /\ DOMAIN copies \subseteq DOMAIN copies'
    BY <1>1, ReadCellsLonger DEF Longer
<1>4. StackTyped(stack', copies', query)
    BY <1>1, <1>2, <1>3, GrownTyped
<1>5. Held(stack', copies')
    <2>1. Held(stack, copies')
        BY <1>2, <1>3, CopyHeld DEF StackTyped
    <2> QED BY <1>1, <2>1
<1> QED BY <1>1, <1>3, <1>4, <1>5, MachineStep

LEMMA ConditionTrueStep == IInv /\ ConditionTrue => IInv'
<1> SUFFICES ASSUME IInv, ConditionTrue PROVE IInv'
    OBVIOUS
<1>1. /\ AtOp("T_CONDITION") /\ pc = "handle" /\ Top.step # << >>
      /\ Push(Items(<<InHand>>)) /\ ReadCells
    BY DEF ConditionTrue, AtOp
<1>2. InHand \in Nat
    <2>1. /\ StackTyped(stack, copies, query) /\ stack # << >>
          /\ DOMAIN copies = 1 .. Len(copies)
        BY <1>1, Parts, TypedParts DEF Typed
    <2> QED BY <2>1, TopOf DEF NoCopy
<1>3. /\ Items(<<InHand>>) \in IterType /\ Items(<<InHand>>).cur = NoCopy
      /\ \A k \in DOMAIN Items(<<InHand>>).items : Items(<<InHand>>).items[k] = InHand
      /\ Items(<<InHand>>).kind = "items"
    <2>1. <<InHand>> \in Seq(Nat) /\ \A k \in DOMAIN <<InHand>> : <<InHand>>[k] = InHand
        BY <1>2
    <2> QED BY <2>1 DEF Items, IterType, NoCopy
<1>4. Longer(copies, copies') /\ \A c \in DOMAIN copies' : copies'[c].frees <= 1
    BY <1>1, ReadCellsLonger
<1> QED BY <1>1, <1>3, <1>4, PushStep

LEMMA PushChildrenSteps == IInv /\ (PushChildren \/ PushAll) => IInv'
<1> SUFFICES ASSUME IInv, PushChildren \/ PushAll PROVE IInv'
    OBVIOUS
<1>1. PICK k \in {"children", "all"} : Push(Children(k, copies[InHand].first))
    BY DEF PushChildren, PushAll
<1>2. pc = "handle" /\ Top.step # << >> /\ UNCHANGED copies
    BY DEF PushChildren, PushAll, AtOp
<1>3. copies[InHand].first \in Nodes \cup {None}
    <2>1. /\ StackTyped(stack, copies, query) /\ stack # << >> /\ InHand # NoCopy
          /\ copies \in Seq(CopyType)
        BY <1>2, Parts, TypedParts DEF Typed
    <2>2. copies[InHand] \in CopyType
        BY <2>1, TopOf, ElementOfSeq, LenProperties
    <2> QED BY <2>2 DEF CopyType
<1> DEFINE it == Children(k, copies[InHand].first)
<1>4. it \in IterType /\ it.cur = NoCopy /\ it.items = << >>
    BY <1>3 DEF Children, IterType, NoCopy
<1>5. \A i \in DOMAIN it.items : it.items[i] = InHand
    BY <1>4
<1>6. Longer(copies, copies') /\ \A c \in DOMAIN copies' : copies'[c].frees <= 1
    BY <1>2, NotLonger, Parts
<1> QED BY <1>1, <1>2, <1>4, <1>5, <1>6, PushStep

LEMMA PushNothingStep == IInv /\ PushNothing => IInv'
<1> SUFFICES ASSUME IInv, PushNothing PROVE IInv'
    OBVIOUS
<1>1. pc = "handle" /\ Top.step # << >> /\ Push(Items(<< >>)) /\ UNCHANGED copies
    BY DEF PushNothing, AtOp
<1>2. /\ Items(<< >>) \in IterType /\ Items(<< >>).cur = NoCopy /\ Items(<< >>).items = << >>
    BY DEF Items, IterType, NoCopy
<1>3. \A k \in DOMAIN Items(<< >>).items : Items(<< >>).items[k] = InHand
    BY <1>2
<1>4. Longer(copies, copies') /\ \A c \in DOMAIN copies' : copies'[c].frees <= 1
    BY <1>1, NotLonger, Parts
<1> QED BY <1>1, <1>2, <1>3, <1>4, PushStep

LEMMA PushParentStep == IInv /\ PushParent => IInv'
<1> SUFFICES ASSUME IInv, PushParent PROVE IInv'
    OBVIOUS
<1> DEFINE copy  == CopyOf(ParentOf(kids, Object), "nobody")
           level == [step |-> Tail(Top.step), it |-> Items(<<NewCopy>>)]
<1>1. /\ pc = "handle" /\ Top.step # << >> /\ ParentOf(kids, Object) # None
      /\ copies' = Append(copies, copy)
      /\ stack' = <<level>> \o stack /\ pc' = "move"
      /\ UNCHANGED <<kids, query, start, current, returned>>
    BY DEF PushParent, AtOp, Push, Given
<1>2. /\ StackTyped(stack, copies, query) /\ Held(stack, copies) /\ copies \in Seq(CopyType)
      /\ stack # << >> /\ InHand # NoCopy /\ stack \in Seq(LevelType) /\ query \in Seq(Levels)
      /\ kids \in [Nodes -> Seq(Nodes)] /\ Len(copies) \in Nat
      /\ DOMAIN copies = 1 .. Len(copies)
      /\ \A c \in DOMAIN copies : copies[c].frees <= 1
    BY <1>1, Parts, TypedParts DEF Typed
<1>3. /\ InHand \in DOMAIN copies
      /\ Top.step \in Suffixes(query) /\ Top.step \in Seq(Levels)
    BY <1>2, TopOf
<1>4. copy \in CopyType /\ copy.by = "nobody" /\ copy.frees = 0
    <2>1. copies[InHand] \in CopyType
        BY <1>2, <1>3, ElementOfSeq
    <2>2. Object \in Nodes
        BY <2>1 DEF Object, CopyType
    <2>3. ParentOf(kids, Object) \in Nodes
        BY <1>1, <1>2, <2>2, LinksAreNodes
    <2> QED BY <1>2, <2>3, CopyTyped
<1>5. Tail(Top.step) \in Suffixes(query) /\ Tail(Top.step) \in Seq(Levels)
    BY <1>1, <1>2, <1>3, SuffixTail, Popped
<1>6. /\ level \in LevelType /\ level.step = Tail(Top.step) /\ level.it.cur = NoCopy
      /\ level.it.kind = "items" /\ \A k \in DOMAIN level.it.items : level.it.items[k] = NewCopy
    <2>1. <<NewCopy>> \in Seq(Nat) /\ \A k \in DOMAIN <<NewCopy>> : <<NewCopy>>[k] = NewCopy
        BY <1>2 DEF NewCopy
    <2> QED BY <1>5, <2>1 DEF LevelType, IterType, Items, NoCopy
<1> HIDE DEF copy, level
<1>7. /\ copies' \in Seq(CopyType) /\ DOMAIN copies \subseteq DOMAIN copies'
      /\ NewCopy \in DOMAIN copies' /\ copies'[NewCopy] = copy
      /\ \A c \in DOMAIN copies' : copies'[c].frees <= 1
      /\ Longer(copies, copies')
    <2>1. /\ Append(copies, copy) \in Seq(CopyType)
          /\ DOMAIN Append(copies, copy) = 1 .. Len(copies) + 1
          /\ Append(copies, copy)[Len(copies) + 1] = copy
          /\ \A i \in 1 .. Len(copies) : Append(copies, copy)[i] = copies[i]
        BY <1>2, <1>4, Lengthened
    <2>2. \A i \in 1 .. Len(copies) + 1 : i \in 1 .. Len(copies) \/ i = Len(copies) + 1
        BY <1>2
    <2>3. 1 .. Len(copies) \subseteq 1 .. Len(copies) + 1 /\ Len(copies) + 1 \in 1 .. Len(copies) + 1
        BY <1>2
    <2> QED BY <1>1, <1>2, <1>4, <2>1, <2>2, <2>3 DEF NewCopy, Longer
<1>8. Held(stack, copies')
    <2>1. \A i \in DOMAIN stack :
             /\ stack[i].it.cur \in {NoCopy} \cup DOMAIN copies
             /\ \A k \in DOMAIN stack[i].it.items : stack[i].it.items[k] \in DOMAIN copies
        BY <1>2 DEF StackTyped
    <2> QED BY <1>2, <1>7, <2>1, CopyHeld
<1>9. Held(stack', copies')
    <2>1. \A k \in DOMAIN level.it.items :
              /\ copies'[level.it.items[k]].by # "iterator"
              /\ Unfreed(copies', level.it.items[k])
        BY <1>4, <1>6, <1>7 DEF Unfreed
    <2> QED BY <1>1, <1>2, <1>6, <1>8, <2>1, PushHeld
<1>10. StackTyped(stack', copies', query)
    <2>1. StackTyped(stack, copies', query)
        BY <1>2, <1>7, GrownTyped
    <2>2. \A k \in DOMAIN level.it.items : level.it.items[k] \in DOMAIN copies'
        BY <1>6, <1>7
    <2>3. stack[1].it.cur # NoCopy
        BY <1>2, TopOf
    <2> QED BY <1>1, <1>5, <1>6, <2>1, <2>2, <2>3, PushTyped
<1> QED BY <1>1, <1>7, <1>9, <1>10, MachineStep
-------------------------------------------------------------------------------
(* The specification.                                                      *)

LEMMA InitIsSafe == Init => IInv
<1> SUFFICES ASSUME Init PROVE IInv
    OBVIOUS
<1>1. /\ kids = [p \in Nodes |-> << >>] /\ start = kids /\ query = << >>
      /\ stack = << >> /\ copies = << >> /\ current = NoCopy /\ pc = "none" /\ returned = << >>
    BY DEF Init, TreeInit
<1>2. kids \in [Nodes -> Seq(Nodes)] /\ query \in Seq(Levels) /\ copies \in Seq(CopyType)
      /\ stack \in Seq(LevelType) /\ returned \in Seq(Seq(Nodes))
    BY <1>1
<1>3. DOMAIN stack = {} /\ DOMAIN copies = {}
    BY <1>1
<1>4. Typed
    BY <1>1, <1>2, <1>3 DEF Typed, TypeOK
<1> QED BY <1>1, <1>3, <1>4 DEF IInv, Held, OwnersOK, ItemsOK, NoneLost

LEMMA StutterStep == IInv /\ UNCHANGED vars => IInv'
<1> SUFFICES ASSUME IInv, UNCHANGED vars PROVE IInv'
    OBVIOUS
<1>1. UNCHANGED <<kids, query, start, stack, copies, current, pc, returned>>
    BY DEF vars, machine
<1>2. StackTyped(stack', copies', query')
    BY <1>1, Parts, TypedParts
<1>3. pc = "handle" => stack # << >> /\ InHand # NoCopy
    BY Parts DEF Typed
<1>4. pc = "none" => stack = << >> /\ copies = << >> /\ current = NoCopy
    BY Parts DEF Typed
<1>5. InHand' = InHand
    BY <1>1 DEF InHand, Top
<1>6. Typed'
    BY <1>1, <1>2, <1>3, <1>4, <1>5, Parts, TypedParts, PartsTyped
<1> QED BY <1>1, <1>6, Parts DEF IInv, Alive

LEMMA NextIsSafe == IInv /\ [Next]_vars => IInv'
<1> SUFFICES ASSUME IInv, [Next]_vars PROVE IInv'
    OBVIOUS
<1>1. CASE Library
    <2>1. ItemNext \/ ItemEnd \/ ChildNext \/ ChildrenEnd \/ AllBreaks => IInv'
        BY ItemNextStep, ItemEndStep, ChildNextStep, ChildrenEndStep, AllBreaksStep
    <2>2. QueryEnds \/ ConditionFalse \/ ConditionDies \/ Unhandled => IInv'
        BY StopSteps, ConditionFalseStep
    <2>3. ReturnNode \/ ConditionTrue \/ PushChildren \/ PushAll \/ PushParent \/ PushNothing
          => IInv'
        BY ReturnNodeStep, ConditionTrueStep, PushChildrenSteps, PushParentStep, PushNothingStep
    <2> QED BY <1>1, <2>1, <2>2, <2>3 DEF Library
<1>2. CASE Client
    BY <1>2, LinkNodeStep, MoveNextStep, ApplyStep DEF Client
<1>3. CASE UNCHANGED vars
    BY <1>3, StutterStep
<1> QED BY <1>1, <1>2, <1>3 DEF Next

\* The copies and the iterators of a query are what the invariant says, for any
\* tree, however it grows, and any query.
THEOREM Inductive == Spec => []IInv
<1>1. Init => IInv
    BY InitIsSafe
<1>2. IInv /\ [Next]_vars => IInv'
    BY NextIsSafe
<1> QED BY <1>1, <1>2, PTL DEF Spec

\* The variables of a query keep their types: an iterator stands on a copy or on
\* none, and the levels on the stack are levels of the query.
THEOREM QueryTyped == Spec => []TypeOK
<1>1. IInv => TypeOK
    BY DEF IInv, Typed
<1> QED BY <1>1, Inductive, PTL

\* No copy is freed twice, and none that queryMoveNext or its caller still looks
\* at has been freed.
THEOREM NothingMisused == Spec => []NoMisuse
<1>1. IInv => NoMisuse
    <2> SUFFICES ASSUME IInv PROVE NoMisuse
        OBVIOUS
    <2>1. NoCopy \notin DOMAIN copies
        BY Parts, TypedParts
    <2>2. pc = "handle" => InHand # NoCopy /\ Alive(InHand)
        BY <2>1, HandIsAlive
    <2> QED BY <2>2, Parts DEF NoMisuse
<1> QED BY <1>1, Inductive, PTL

\* What no iterator over children has made is not freed.
OthersKept == \A c \in DOMAIN copies : copies[c].by # "iterator" => copies[c].frees = 0

\* An iterator over children frees what it stands on, which it has made.
LEMMA OthersKeptByFree ==
    ASSUME IInv, OthersKept, AtMove({"children", "all"})
    PROVE  /\ Freed(InHand) \in Seq(CopyType)
           /\ \A c \in DOMAIN Freed(InHand) :
                 Freed(InHand)[c].by # "iterator" => Freed(InHand)[c].frees = 0
<1>1. /\ pc = "move" /\ stack # << >> /\ Top.it.kind # "items"
    BY DEF AtMove
<1>2. /\ StackTyped(stack, copies, query) /\ Held(stack, copies) /\ copies \in Seq(CopyType)
      /\ NoCopy \notin DOMAIN copies
    BY <1>1, Parts, TypedParts
<1>3. /\ 1 \in DOMAIN stack /\ Top = stack[1] /\ InHand = stack[1].it.cur
      /\ InHand \in {NoCopy} \cup DOMAIN copies
    BY <1>1, <1>2, TopOf
<1>4. InHand # NoCopy => copies[InHand].by = "iterator"
    BY <1>1, <1>2, <1>3 DEF Held, OwnersOK, Owner
<1>5. /\ Freed(InHand) \in Seq(CopyType) /\ DOMAIN Freed(InHand) = DOMAIN copies
      /\ \A c \in DOMAIN copies : c # InHand => Freed(InHand)[c] = copies[c]
    BY <1>2, <1>3, FreedCopies
<1>6. InHand \in DOMAIN copies => Freed(InHand)[InHand].by = copies[InHand].by
    <2>1. \A c \in DOMAIN copies : copies[c] \in CopyType
        BY <1>2, ElementOfSeq, LenProperties
    <2> QED BY <1>2, <2>1 DEF Freed, CopyType
<1> QED BY <1>2, <1>3, <1>4, <1>5, <1>6 DEF OthersKept

LEMMA OthersKeptStep == IInv /\ OthersKept /\ [Next]_vars => OthersKept'
<1> SUFFICES ASSUME IInv, OthersKept, [Next]_vars PROVE OthersKept'
    OBVIOUS
<1>1. CASE UNCHANGED copies
    BY <1>1 DEF OthersKept
<1>2. CASE \E q \in Queries : Apply(q)
    <2>1. copies' = <<CopyOf(Root, "client")>>
        BY <1>2 DEF Apply
    <2>2. DOMAIN copies' = {1} /\ copies'[1] = CopyOf(Root, "client")
        BY <2>1
    <2> QED BY <2>2 DEF OthersKept, CopyOf
<1>3. CASE ChildrenEnd \/ AllBreaks
    <2>1. copies' = Freed(InHand) /\ AtMove({"children", "all"})
        BY <1>3 DEF ChildrenEnd, AllBreaks, AtMove
    <2> QED BY <2>1, OthersKeptByFree DEF OthersKept
<1>4. CASE ChildNext
    <2> DEFINE copy == CopyOf(Top.it.next, "iterator")
               cp   == Freed(InHand)
    <2>1. copies' = Append(cp, copy) /\ AtMove({"children", "all"})
        BY <1>4 DEF ChildNext
    <2>2. cp \in Seq(CopyType) /\ copy.by = "iterator"
        BY <2>1, OthersKeptByFree DEF CopyOf
    <2>3. \A c \in DOMAIN cp : cp[c].by # "iterator" => cp[c].frees = 0
        BY <2>1, OthersKeptByFree
    <2> HIDE DEF copy, cp
    <2>4. /\ DOMAIN cp = 1 .. Len(cp) /\ Len(cp) \in Nat /\ DOMAIN copies' = 1 .. Len(cp) + 1
          /\ copies'[Len(cp) + 1] = copy /\ \A i \in 1 .. Len(cp) : copies'[i] = cp[i]
        BY <2>1, <2>2, LenProperties
    <2>5. \A c \in DOMAIN copies' : c \in DOMAIN cp \/ c = Len(cp) + 1
        BY <2>4
    <2> QED BY <2>2, <2>3, <2>4, <2>5 DEF OthersKept
<1>5. CASE PushParent
    <2> DEFINE copy == CopyOf(ParentOf(kids, Object), "nobody")
    <2>1. copies' = Append(copies, copy) /\ copies \in Seq(CopyType) /\ copy.frees = 0
        BY <1>5, Parts, TypedParts DEF PushParent, CopyOf
    <2> HIDE DEF copy
    <2>2. /\ DOMAIN copies = 1 .. Len(copies) /\ Len(copies) \in Nat
          /\ DOMAIN copies' = 1 .. Len(copies) + 1 /\ copies'[Len(copies) + 1] = copy
          /\ \A i \in 1 .. Len(copies) : copies'[i] = copies[i]
        BY <2>1, LenProperties
    <2>3. \A c \in DOMAIN copies' : c \in DOMAIN copies \/ c = Len(copies) + 1
        BY <2>2
    <2> QED BY <2>1, <2>2, <2>3 DEF OthersKept
<1>6. CASE ConditionTrue \/ ConditionFalse
    <2>1. Longer(copies, copies')
        BY <1>6, ReadCellsLonger DEF ConditionTrue, ConditionFalse
    <2> QED BY <2>1 DEF Longer, OthersKept
<1>7. Library /\ ~(ChildrenEnd \/ AllBreaks \/ ChildNext \/ PushParent \/ ConditionTrue
                  \/ ConditionFalse) => UNCHANGED copies
    BY DEF Library, ItemNext, ItemEnd, QueryEnds, ReturnNode, ConditionDies, PushChildren,
           PushAll, PushNothing, Unhandled
<1>8. LinkNode \/ MoveNext \/ UNCHANGED vars => UNCHANGED copies
    BY DEF LinkNode, MoveNext, vars, machine
<1> QED BY <1>1, <1>2, <1>3, <1>4, <1>5, <1>6, <1>7, <1>8 DEF Next, Client

\* The copies in memory are those the iterators over children stand on, the one
\* the client made, and those nobody frees: of parents, and of the names and values
\* that conditions have read.  So however large the tree is, of the children it
\* goes over a query holds one copy a level.
THEOREM CopiesAreOwned == Spec => []CopiesOwned
<1>1. IInv /\ OthersKept => CopiesOwned
    <2> DEFINE own == {stack[i].it.cur : i \in {j \in DOMAIN stack : stack[j].it.kind # "items"}}
    <2> SUFFICES ASSUME IInv, OthersKept, pc # "wild"
                 PROVE  {c \in DOMAIN copies : Alive(c)}
                      = {c \in DOMAIN copies : copies[c].by # "iterator"} \cup (own \ {NoCopy})
        BY DEF CopiesOwned
    <2>1. StackTyped(stack, copies, query) /\ Held(stack, copies) /\ NoCopy \notin DOMAIN copies
        BY Parts, TypedParts
    <2>2. ASSUME NEW c \in DOMAIN copies, copies[c].by = "iterator", Alive(c)
          PROVE  c # NoCopy /\ c \in own
        BY <2>1, <2>2 DEF Held, NoneLost, Owner, Unfreed, Alive
    <2>3. ASSUME NEW i \in DOMAIN stack, stack[i].it.kind # "items", stack[i].it.cur # NoCopy
          PROVE  stack[i].it.cur \in DOMAIN copies /\ Alive(stack[i].it.cur)
        BY <2>1, <2>3 DEF Held, OwnersOK, Owner, Unfreed, Alive, StackTyped
    <2>4. \A c \in own \ {NoCopy} : c \in DOMAIN copies /\ Alive(c)
        BY <2>3
    <2>5. \A c \in DOMAIN copies : copies[c].by # "iterator" => Alive(c)
        BY DEF OthersKept, Alive
    <2> HIDE DEF own
    <2> QED BY <2>2, <2>4, <2>5
<1>2. Init => OthersKept
    BY DEF Init, OthersKept
<1> QED BY <1>1, <1>2, OthersKeptStep, Inductive, PTL DEF Spec

\* A condition of any depth, of which the code can answer what it asks, gets its
\* verdict from its meaning, and just that one.
THEOREM ConditionsAreRight == Spec => []ConditionsRight
<1>1. IInv => ConditionsRight
    <2> SUFFICES ASSUME IInv, AtOp("T_CONDITION"), Plain(Object, Head(Top.step).cond)
                 PROVE  Verdicts(Object, Head(Top.step).cond)
                      = {IF True(Meaning(Object, Head(Top.step).cond)) THEN "true" ELSE "false"}
        BY DEF ConditionsRight
    <2>1. /\ pc = "handle" /\ Top.step # << >> /\ Head(Top.step).op = "T_CONDITION"
          /\ StackTyped(stack, copies, query) /\ stack # << >> /\ copies \in Seq(CopyType)
        BY Parts, TypedParts DEF AtOp, Typed
    <2>2. InHand \in DOMAIN copies
        BY <2>1, HandIsAlive
    <2>3. copies[InHand] \in CopyType
        BY <2>1, <2>2, ElementOfSeq, LenProperties
    <2>4. Object \in DOMAIN NameOf \cap DOMAIN ValueOf
        BY <2>3, QueryAssumptions DEF Object, CopyType
    <2>5. Head(Top.step) \in Levels
        BY <2>1, TopOf
    <2>6. Head(Top.step).cond \in CondOps
        BY <2>1, <2>5 DEF Levels
    <2> QED BY <2>4, <2>6, VerdictsRight
<1> QED BY <1>1, Inductive, PTL
===============================================================================
