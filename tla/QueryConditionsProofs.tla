------------------------- MODULE QueryConditionsProofs -------------------------
(***************************************************************************)
(* Proofs about the operators a condition is evaluated with, for all values*)
(* and any width of an int, and about what a whole condition comes to, for *)
(* graphs of any depth.                                                    *)
(*                                                                         *)
(* evaluateConditionGraph is a recursion over the graph.  That it ends,    *)
(* and what it comes to, is shown by looking at a least depth at which it  *)
(* would fail (WFMin); the facts about single values come before.          *)
(***************************************************************************)
EXTENDS QueryConditions, FiniteSetTheorems, SequenceTheorems, WellFoundedInduction, TLAPS

LEMMA ValueFields ==
    ASSUME NEW a \in Values
    PROVE  /\ a.type \in {"boolean", "integer", "float", "text"} /\ a.v \in Int
           /\ a.type = "boolean" => a.v \in {0, 1}
           /\ a.type = "integer" => a.v \in Ints
           /\ a = [type |-> a.type, v |-> a.v]
BY ConditionAssumptions DEF Values, Texts, Ints

\* An int that needs no wrapping is not wrapped.
LEMMA WrapKeeps ==
    ASSUME NEW x \in Ints
    PROVE  Wrap(x) = x
<1> DEFINE m == IntMax + 1
<1>1. m \in Nat \ {0} /\ x \in Int /\ 0 <= x + m /\ x + m < 2 * m
    BY ConditionAssumptions DEF Ints
<1> HIDE DEF m
<1>2. ASSUME NEW y \in Int, NEW n \in Nat \ {0}, 0 <= y, y < n PROVE y % n = y
    <2>1. y = n * (y \div n) + (y % n) /\ y % n \in 0 .. n - 1 /\ y \div n \in Int
        BY <1>2
    <2>2. y \div n = 0
        BY <1>2
    <2> QED BY <2>1, <2>2
<1>3. x + m \in Int /\ 2 * m \in Nat \ {0}
    BY <1>1
<1>4. (x + m) % (2 * m) = x + m
    BY <1>1, <1>2, <1>3
<1>5. Wrap(x) = ((x + m) % (2 * m)) - m
    BY <1>1, ConditionAssumptions DEF Wrap, m, Ints
<1> QED BY <1>1, <1>4, <1>5

\* Cutting off the fraction of a number that is 0 or at least 1 away from it keeps
\* its sign.
LEMMA AsIntSign ==
    ASSUME NEW x \in Int, x = 0 \/ x >= FloatUnit \/ -x >= FloatUnit
    PROVE  /\ AsInt(x) \in Int
           /\ AsInt(x) = 0 <=> x = 0
           /\ AsInt(x) > 0 <=> x > 0
<1>1. FloatUnit \in Nat \ {0}
    BY ConditionAssumptions
<1>2. ASSUME NEW y \in Nat, NEW n \in Nat \ {0}
      PROVE  y \div n \in Nat /\ (y >= n => y \div n >= 1) /\ (y = 0 => y \div n = 0)
    <2>1. y = n * (y \div n) + (y % n) /\ y % n \in 0 .. n - 1 /\ y \div n \in Int
        BY <1>2
    <2> QED BY <2>1
<1>3. CASE x >= 0
    <2>1. x \in Nat
        BY <1>3
    <2>2. x \div FloatUnit \in Nat /\ (x >= FloatUnit => x \div FloatUnit >= 1)
          /\ (x = 0 => x \div FloatUnit = 0)
        BY <1>1, <1>2, <2>1
    <2>3. AsInt(x) = x \div FloatUnit
        BY <1>3 DEF AsInt
    <2> QED BY <1>1, <1>3, <2>2, <2>3
<1>4. CASE x < 0
    <2>1. -x \in Nat /\ -x >= FloatUnit
        BY <1>1, <1>4
    <2>2. (-x) \div FloatUnit \in Nat /\ (-x) \div FloatUnit >= 1
        BY <1>1, <1>2, <2>1
    <2>3. AsInt(x) = -((-x) \div FloatUnit)
        BY <1>4 DEF AsInt
    <2> QED BY <1>4, <2>2, <2>3
<1> QED BY <1>3, <1>4

\* cmp_values answers, of two values it can be relied on for, a number with the
\* sign of their difference, and just one.
LEMMA CmpIsSign ==
    ASSUME NEW type \in Compares, NEW a \in Values, NEW b \in Values, Comparable(type, a, b)
    PROVE  \E x \in Int : /\ CmpValues(a, b) = {x}
                          /\ x = 0 <=> a.v = b.v
                          /\ a.type # "boolean" => (x > 0 <=> a.v > b.v)
<1>1. /\ a.type = b.type /\ a.type \in {"boolean", "integer", "float", "text"}
      /\ a.v \in Int /\ b.v \in Int
    BY ValueFields DEF Comparable
<1>2. CASE a.type = "boolean"
    <2>1. CmpValues(a, b) = {IF a.v = b.v THEN 0 ELSE 1}
        BY <1>1, <1>2 DEF CmpValues
    <2> QED BY <1>2, <2>1
<1>3. CASE a.type = "integer"
    <2>1. CmpValues(a, b) = {a.v - b.v, Wrap(a.v - b.v)}
        BY <1>1, <1>3 DEF CmpValues
    <2>2. a.v - b.v \in Ints
        BY <1>3 DEF Comparable
    <2>3. CmpValues(a, b) = {a.v - b.v}
        BY <2>1, <2>2, WrapKeeps
    <2>4. /\ a.v - b.v \in Int /\ (a.v - b.v = 0 <=> a.v = b.v)
          /\ (a.v - b.v > 0 <=> a.v > b.v)
        BY <1>1
    <2> QED BY <2>3, <2>4
<1>4. CASE a.type = "float"
    <2> DEFINE x == a.v - b.v
    <2>1. x \in Int /\ (x = 0 \/ x >= FloatUnit \/ -x >= FloatUnit)
        BY <1>1, <1>4 DEF Comparable, Dist
    <2>2. AsInt(x) \in Int /\ (AsInt(x) = 0 <=> x = 0) /\ (AsInt(x) > 0 <=> x > 0)
        BY <2>1, AsIntSign
    <2>3. AsInt(x) \in Ints
        <3>1. CASE a.v = b.v
            <4>1. AsInt(x) = 0
                BY <1>1, <2>2, <3>1
            <4> QED BY <4>1, ConditionAssumptions DEF Ints
        <3>2. CASE a.v # b.v
            BY <1>4, <3>2 DEF Comparable
        <3> QED BY <3>1, <3>2
    <2>4. CmpValues(a, b) = {AsInt(x)}
        BY <1>1, <1>4, <2>3 DEF CmpValues
    <2>5. (x = 0 <=> a.v = b.v) /\ (x > 0 <=> a.v > b.v)
        BY <1>1
    <2> HIDE DEF x
    <2> QED BY <2>2, <2>4, <2>5
<1>5. CASE a.type = "text"
    <2>1. CmpValues(a, b) = {a.v - b.v}
        BY <1>1, <1>5 DEF CmpValues
    <2>2. /\ a.v - b.v \in Int /\ (a.v - b.v = 0 <=> a.v = b.v)
          /\ (a.v - b.v > 0 <=> a.v > b.v)
        BY <1>1
    <2> QED BY <2>1, <2>2
<1> QED BY <1>1, <1>2, <1>3, <1>4, <1>5

\* The comparisons of a condition (Q_COND_OP_EQUALS to Q_COND_OP_LS_OR_EQ) answer
\* what they are called for, of ints and floats and texts and truth values, as long
\* as the difference is an int and two floats do not differ by a fraction.
THEOREM ComparisonsRight ==
    \A type \in Compares, a, b \in Values :
        Comparable(type, a, b) => Compared(type, a, b) = {Bool(Related(type, a, b))}
<1> SUFFICES ASSUME NEW type \in Compares, NEW a \in Values, NEW b \in Values,
                    Comparable(type, a, b)
             PROVE  Compared(type, a, b) = {Bool(Related(type, a, b))}
    OBVIOUS
<1>1. PICK x \in Int : /\ CmpValues(a, b) = {x}
                       /\ x = 0 <=> a.v = b.v
                       /\ a.type # "boolean" => (x > 0 <=> a.v > b.v)
    BY CmpIsSign
<1>2. /\ a.type = b.type /\ a.v \in Int /\ b.v \in Int
      /\ a = [type |-> a.type, v |-> a.v] /\ b = [type |-> b.type, v |-> b.v]
      /\ a.type = "boolean" => type \in {"EQUALS", "N_EQUALS"}
    BY ValueFields DEF Comparable
<1>3. a = b <=> x = 0
    BY <1>1, <1>2
<1>4. Holds(type, x) <=> Related(type, a, b)
    <2>1. CASE type \in {"EQUALS", "N_EQUALS"}
        BY <1>3, <2>1 DEF Holds, Related
    <2>2. CASE type \in {"GREATER", "GR_OR_EQ", "LESS", "LS_OR_EQ"}
        <3>1. (x > 0 <=> a.v > b.v) /\ (x = 0 <=> a.v = b.v)
            BY <1>1, <1>2, <2>2
        <3> QED BY <1>1, <1>2, <2>2, <3>1 DEF Holds, Related
    <2> QED BY <2>1, <2>2 DEF Compares
<1>5. Compared(type, a, b) = {Bool(Holds(type, x))}
    BY <1>1 DEF Compared
<1>6. Bool(Holds(type, x)) = Bool(Related(type, a, b))
    BY <1>4 DEF Bool
<1> QED BY <1>5, <1>6

\* toBoolean takes a value for what it means, but for a float of at most a half
\* that is not 0: AND, OR and XOR of other values mean what they are called.
THEOREM TruthRight ==
    \A a \in Values : Askable(a) <=> (ToBoolean(a) <=> True(a))
<1> SUFFICES ASSUME NEW a \in Values
             PROVE  Askable(a) <=> (ToBoolean(a) <=> True(a))
    OBVIOUS
<1>1. a.v \in Int /\ FloatUnit \in Nat \ {0}
    BY ValueFields, ConditionAssumptions
<1>2. CASE a.type # "float"
    BY <1>2 DEF Askable, ToBoolean, True
<1>3. CASE a.type = "float"
    <2>1. Dist(a.v, 0) \in Nat /\ (Dist(a.v, 0) = 0 <=> a.v = 0)
        BY <1>1 DEF Dist
    <2> QED BY <1>1, <1>3, <2>1 DEF Askable, ToBoolean, True
<1> QED BY <1>2, <1>3

\* A condition on an attribute never has a result: whatever the keys of the
\* object's attributes are, the iterator below the filter is freed twice.
THEOREM AttributeNeverFound ==
    ASSUME NEW n, KeysOf[n] \in Seq(Int), NEW key \in Int
    PROVE  AttrNode(n, key) = Undefined
<1> DEFINE keys  == KeysOf[n]
           frees == [i \in DOMAIN keys |-> IF keys[i] = key THEN 2 ELSE 1]
<1>1. Len(keys) \in Nat /\ DOMAIN keys = 1 .. Len(keys)
    OBVIOUS
<1>2. frees \in Seq({1, 2}) /\ Len(frees) = Len(keys)
    BY <1>1
<1> HIDE DEF frees, keys
<1>3. (frees \o <<2>>)[Len(keys) + 1] = 2
    BY <1>1, <1>2
<1>4. AttrFrees(KeysOf[n], key)[Len(KeysOf[n]) + 1] = 2 /\ Len(KeysOf[n]) + 1 \in 1 .. Len(KeysOf[n]) + 1
    BY <1>1, <1>3 DEF AttrFrees, frees, keys
<1> QED BY <1>4 DEF AttrNode
-------------------------------------------------------------------------------
(* Recursion over a condition graph.                                       *)

OpndsOf(op) == {op.opnds[i] : i \in DOMAIN op.opnds}

\* Results f, as far as the switch looks at them for op.
Looked(op, f) == [o \in OpndsOf(op) |-> f[o]]

LEMMA OpndsAreBelow ==
    ASSUME NEW op \in CondOps
    PROVE  /\ DepthOf[op] \in Nat /\ OpndsOf(op) \subseteq CondOps
           /\ \A o \in OpndsOf(op) : DepthOf[o] \in Nat /\ DepthOf[o] < DepthOf[op]
           /\ \A i \in DOMAIN op.opnds : op.opnds[i] \in OpndsOf(op)
BY GraphAssumptions DEF OpndsOf

LEMMA LeastNumber ==
    ASSUME NEW T, T \subseteq Nat, T # {}
    PROVE  \E x \in T : \A y \in T : ~(y < x)
<1>1. PICK x \in T : \A y \in T : ~(<<y, x>> \in OpToRel(<, Nat))
    BY NatLessThanWellFounded, WFMin
<1>2. ASSUME NEW y \in T, y < x PROVE FALSE
    <2>1. <<y, x>> \in OpToRel(<, Nat)
        BY <1>2 DEF OpToRel
    <2> QED BY <1>1, <2>1
<1> QED BY <1>2

\* Of some nodes of the graphs there is one that none of the others is below.
LEMMA DeepestFirst ==
    ASSUME NEW T, T \subseteq CondOps, T # {}
    PROVE  \E op \in T : \A o \in OpndsOf(op) : o \in CondOps /\ o \notin T
<1> DEFINE D == {DepthOf[op] : op \in T}
<1>1. D \subseteq Nat /\ D # {}
    BY OpndsAreBelow
<1>2. PICK x \in D : \A y \in D : ~(y < x)
    <2> HIDE DEF D
    <2> QED BY <1>1, LeastNumber
<1>3. PICK op \in T : x = DepthOf[op]
    OBVIOUS
<1>4. ASSUME NEW o \in OpndsOf(op) PROVE o \in CondOps /\ o \notin T
    BY <1>2, <1>3, OpndsAreBelow
<1> QED BY <1>4

\* A switch that makes of every node, and results of its operands, a result ...
IsSwitch(V, make) ==
    \A op \in CondOps : \A h \in [OpndsOf(op) -> V] : make[op][h] \in V

\* ... and results it makes of all nodes.
AreResults(f, V, make) ==
    f \in [CondOps -> V] /\ \A op \in CondOps : f[op] = make[op][Looked(op, f)]

\* Whatever the switch is, there are results of all nodes.
LEMMA GraphRecursion ==
    ASSUME NEW V, NEW make, IsSwitch(V, make)
    PROVE  \E f : AreResults(f, V, make)
<1> USE DEF Looked, IsSwitch
<1> DEFINE Low(k)   == {op \in CondOps : DepthOf[op] < k}
           Made(op, f) == make[op][[o \in OpndsOf(op) |-> f[o]]]
           Fixed(k) == {f \in [Low(k) -> V] : \A op \in Low(k) : f[op] = Made(op, f)}
<1>1. ASSUME NEW k \in Nat, NEW op \in Low(k) PROVE OpndsOf(op) \subseteq Low(k)
    BY OpndsAreBelow
<1>2. ASSUME NEW k \in Nat, NEW op \in Low(k + 1) PROVE OpndsOf(op) \subseteq Low(k)
    BY OpndsAreBelow
<1>3. ASSUME NEW k \in Nat, NEW f \in Fixed(k) PROVE Fixed(k + 1) # {}
    <2> DEFINE g == [op \in Low(k + 1) |-> Made(op, f)]
    <2>1. ASSUME NEW op \in Low(k + 1) PROVE g[op] \in V
        <3>1. [o \in OpndsOf(op) |-> f[o]] \in [OpndsOf(op) -> V]
            BY <1>2
        <3> QED BY <3>1
    <2>2. ASSUME NEW op \in Low(k) PROVE op \in Low(k + 1) /\ g[op] = f[op]
        <3>1. op \in Low(k + 1)
            BY OpndsAreBelow
        <3> QED BY <3>1
    <2>3. ASSUME NEW op \in Low(k + 1) PROVE g[op] = Made(op, g)
        <3>1. \A o \in OpndsOf(op) : g[o] = f[o]
            BY <1>2, <2>2
        <3>2. [o \in OpndsOf(op) |-> g[o]] = [o \in OpndsOf(op) |-> f[o]]
            BY <3>1
        <3> QED BY <3>2
    <2>4. g \in Fixed(k + 1)
        <3>1. g \in [Low(k + 1) -> V]
            BY <2>1
        <3> QED BY <2>3, <3>1
    <2> QED BY <2>4
<1>4. \A k \in Nat : Fixed(k) # {}
    <2> DEFINE Bad == {k \in Nat : Fixed(k) = {}}
    <2> SUFFICES ASSUME Bad # {} PROVE FALSE
        OBVIOUS
    <2>1. PICK k \in Bad : \A y \in Bad : ~(y < k)
        <3>1. Bad \subseteq Nat
            OBVIOUS
        <3> HIDE DEF Bad
        <3> QED BY <3>1, LeastNumber
    <2>2. CASE k = 0
        <3>1. Low(0) = {}
            BY OpndsAreBelow
        <3>2. [op \in {} |-> {}] \in Fixed(0)
            BY <3>1
        <3> QED BY <2>2, <3>2
    <2>3. CASE k # 0
        <3>1. PICK y \in Nat : k = y + 1
            <4>1. k - 1 \in Nat /\ k = (k - 1) + 1
                BY <2>3
            <4> QED BY <4>1
        <3>2. y \notin Bad
            BY <2>1, <3>1
        <3> QED BY <1>3, <3>1, <3>2
    <2> QED BY <2>2, <2>3
<1>5. ASSUME NEW k \in Nat, NEW m \in Nat, NEW f \in Fixed(k), NEW g \in Fixed(m)
      PROVE  \A op \in Low(k) \cap Low(m) : f[op] = g[op]
    <2> DEFINE Bad == {op \in Low(k) \cap Low(m) : f[op] # g[op]}
    <2> SUFFICES ASSUME Bad # {} PROVE FALSE
        OBVIOUS
    <2>1. PICK op \in Bad : \A o \in OpndsOf(op) : o \in CondOps /\ o \notin Bad
        <3>1. Bad \subseteq CondOps
            OBVIOUS
        <3> HIDE DEF Bad
        <3> QED BY <3>1, DeepestFirst
    <2>2. OpndsOf(op) \subseteq Low(k) \cap Low(m)
        BY <1>1
    <2>3. [o \in OpndsOf(op) |-> f[o]] = [o \in OpndsOf(op) |-> g[o]]
        BY <2>1, <2>2
    <2> QED BY <2>3
<1> DEFINE Any(k) == CHOOSE f \in Fixed(k) : TRUE
           all    == [op \in CondOps |-> Any(DepthOf[op] + 1)[op]]
<1>6. ASSUME NEW op \in CondOps
      PROVE  /\ Any(DepthOf[op] + 1) \in Fixed(DepthOf[op] + 1) /\ DepthOf[op] + 1 \in Nat
             /\ op \in Low(DepthOf[op] + 1)
    <2>1. DepthOf[op] + 1 \in Nat /\ op \in Low(DepthOf[op] + 1)
        BY OpndsAreBelow
    <2> HIDE DEF Fixed
    <2> QED BY <1>4, <2>1
<1>7. ASSUME NEW op \in CondOps PROVE all[op] \in V /\ all[op] = Made(op, all)
    <2> DEFINE k == DepthOf[op] + 1
    <2>1. ASSUME NEW o \in OpndsOf(op) PROVE all[o] = Any(k)[o]
        <3>1. o \in CondOps /\ o \in Low(k)
            BY <1>1, <1>6
        <3>2. o \in Low(DepthOf[o] + 1) \cap Low(k)
            BY <1>6, <3>1
        <3> HIDE DEF Fixed, Low, Any
        <3> QED BY <1>5, <1>6, <3>1, <3>2
    <2>2. [o \in OpndsOf(op) |-> all[o]] = [o \in OpndsOf(op) |-> Any(k)[o]]
        <3> HIDE DEF all, Any, k
        <3> QED BY <2>1
    <2>3. Any(k)[op] \in V /\ Any(k)[op] = Made(op, Any(k))
        <3> HIDE DEF Any, Made
        <3> QED BY <1>6
    <2> QED BY <2>2, <2>3
<1>8. all \in [CondOps -> V]
    <2>1. DOMAIN all = CondOps /\ all = [op \in CondOps |-> all[op]]
        OBVIOUS
    <2> HIDE DEF all
    <2> QED BY <1>7, <2>1
<1> HIDE DEF all
<1> QED BY <1>7, <1>8 DEF AreResults

\* What an operation comes to depends on what its operands come to.
LEMMA EvaluateOpLocal ==
    ASSUME NEW n, NEW op \in CondOps, NEW f, NEW g, \A o \in OpndsOf(op) : f[o] = g[o]
    PROVE  EvaluateOp(n, op, f) = EvaluateOp(n, op, g)
<1>1. \A i \in DOMAIN op.opnds : f[op.opnds[i]] = g[op.opnds[i]]
    BY OpndsAreBelow
<1>2. op.type \in Compares \cup Connects => 1 \in DOMAIN op.opnds /\ 2 \in DOMAIN op.opnds
    BY GraphAssumptions
<1>3. op.type = "ATTR" => 1 \in DOMAIN op.opnds
    BY GraphAssumptions
<1>4. (\E i \in DOMAIN op.opnds : Undefined \in f[op.opnds[i]])
      <=> (\E i \in DOMAIN op.opnds : Undefined \in g[op.opnds[i]])
    BY <1>1
<1>5. CASE op.type \in Compares \cup Connects
    <2>1. f[op.opnds[1]] = g[op.opnds[1]] /\ f[op.opnds[2]] = g[op.opnds[2]]
        BY <1>1, <1>2, <1>5
    <2> QED BY <1>4, <1>5, <2>1 DEF EvaluateOp
<1>6. CASE op.type \notin Compares \cup Connects
    <2>1. CASE op.type = "ATTR"
        <3>1. f[op.opnds[1]] = g[op.opnds[1]]
            BY <1>1, <1>3, <2>1
        <3> QED BY <1>4, <1>6, <2>1, <3>1 DEF EvaluateOp
    <2>2. CASE op.type # "ATTR"
        BY <1>4, <1>6, <2>2 DEF EvaluateOp
    <2> QED BY <2>1, <2>2
<1> QED BY <1>5, <1>6

LEMMA MeaningOpLocal ==
    ASSUME NEW n, NEW op \in CondOps, NEW f, NEW g, \A o \in OpndsOf(op) : f[o] = g[o]
    PROVE  MeaningOp(n, op, f) = MeaningOp(n, op, g)
<1>1. \A i \in DOMAIN op.opnds : f[op.opnds[i]] = g[op.opnds[i]]
    BY OpndsAreBelow
<1>2. op.type \in Compares \cup Connects => 1 \in DOMAIN op.opnds /\ 2 \in DOMAIN op.opnds
    BY GraphAssumptions
<1>3. (\E i \in DOMAIN op.opnds : f[op.opnds[i]] = Undefined)
      <=> (\E i \in DOMAIN op.opnds : g[op.opnds[i]] = Undefined)
    BY <1>1
<1>4. CASE op.type \in Compares \cup Connects
    <2>1. f[op.opnds[1]] = g[op.opnds[1]] /\ f[op.opnds[2]] = g[op.opnds[2]]
        BY <1>1, <1>2, <1>4
    <2> QED BY <1>3, <1>4, <2>1 DEF MeaningOp
<1>5. CASE op.type \notin Compares \cup Connects
    BY <1>3, <1>5 DEF MeaningOp
<1> QED BY <1>4, <1>5

\* The recursion of evaluateConditionGraph comes to an end: what it makes of an
\* operation is what its switch makes of the results of the operands.
LEMMA EvaluateUnfolds ==
    ASSUME NEW n, NEW op \in CondOps
    PROVE  Evaluate(n, op) = EvaluateOp(n, op, [o \in CondOps |-> Evaluate(n, o)])
<1> DEFINE U == {Undefined, Val("boolean", 1), Val("boolean", 0), Val("node", 0), Val("node", 1)}
                \cup {Leaf(n, o) : o \in CondOps}
           V == SUBSET U
           make == [o \in CondOps |-> [h \in [OpndsOf(o) -> V] |-> EvaluateOp(n, o, h)]]
<1>1. ASSUME NEW o \in CondOps, NEW h \in [OpndsOf(o) -> V] PROVE EvaluateOp(n, o, h) \in V
    <2>1. \A type, a, b : Compared(type, a, b) \subseteq {Undefined, Val("boolean", 1), Val("boolean", 0)}
        BY DEF Compared, Bool
    <2>2. \A type, a, b : Bool(Connect(type, ToBoolean(a), ToBoolean(b)))
                          \in {Val("boolean", 1), Val("boolean", 0)}
        BY DEF Bool
    <2>3. \A key : AttrNode(n, key) \in {Undefined, Val("node", 0), Val("node", 1)}
        BY DEF AttrNode
    <2>4. {Undefined, Val("boolean", 1), Val("boolean", 0), Val("node", 0), Val("node", 1)} \subseteq U
          /\ Leaf(n, o) \in U
        OBVIOUS
    <2> DEFINE p(i) == h[o.opnds[i]]
               compared  == UNION {Compared(o.type, a, b) : a \in p(1), b \in p(2)}
               connected == {Bool(Connect(o.type, ToBoolean(a), ToBoolean(b))) :
                                a \in p(1), b \in p(2)}
               attr      == {AttrNode(n, key.v) : key \in p(1)}
    <2>5. EvaluateOp(n, o, h) \in {{Undefined}, compared, connected, attr, {Leaf(n, o)}}
        BY DEF EvaluateOp
    <2> HIDE DEF U
    <2>6. compared \subseteq U
        <3>1. \A A, B : UNION {Compared(o.type, a, b) : a \in A, b \in B} \subseteq U
            BY <2>1, <2>4
        <3> QED BY <3>1
    <2>7. connected \subseteq U
        <3>1. \A A, B : {Bool(Connect(o.type, ToBoolean(a), ToBoolean(b))) :
                             a \in A, b \in B} \subseteq U
            BY <2>2, <2>4
        <3> QED BY <3>1
    <2>8. attr \subseteq U
        BY <2>3, <2>4
    <2> HIDE DEF p, compared, connected, attr
    <2> QED BY <2>4, <2>5, <2>6, <2>7, <2>8
<1>2. \A o \in CondOps : \A h \in [OpndsOf(o) -> V] : make[o][h] = EvaluateOp(n, o, h)
    OBVIOUS
<1> HIDE DEF V, make
<1>3. PICK f : AreResults(f, V, make)
    <2>1. IsSwitch(V, make)
        BY <1>1, <1>2 DEF IsSwitch
    <2> QED BY <2>1, GraphRecursion
<1>4. ASSUME NEW o \in CondOps PROVE f[o] = EvaluateOp(n, o, f)
    <2>1. Looked(o, f) \in [OpndsOf(o) -> V]
        BY <1>3, OpndsAreBelow DEF Looked, AreResults
    <2>2. f[o] = EvaluateOp(n, o, Looked(o, f))
        BY <1>2, <1>3, <2>1 DEF AreResults
    <2>3. \A p \in OpndsOf(o) : Looked(o, f)[p] = f[p]
        BY DEF Looked
    <2> QED BY <2>2, <2>3, EvaluateOpLocal
<1>5. f = [o \in CondOps |-> EvaluateOp(n, o, f)]
    BY <1>3, <1>4 DEF AreResults
<1> DEFINE results == CHOOSE g : g = [o \in CondOps |-> EvaluateOp(n, o, g)]
<1>6. results = [o \in CondOps |-> EvaluateOp(n, o, results)]
    BY <1>5
<1>7. \A o : Evaluate(n, o) = results[o]
    BY DEF Evaluate
<1> HIDE DEF results
<1>8. EvaluateOp(n, op, results) = EvaluateOp(n, op, [o \in CondOps |-> Evaluate(n, o)])
    <2>1. \A o \in OpndsOf(op) : results[o] = [p \in CondOps |-> Evaluate(n, p)][o]
        BY <1>7, OpndsAreBelow
    <2> QED BY <2>1, EvaluateOpLocal
<1> QED BY <1>6, <1>7, <1>8

\* ... and so does the recursion of the meaning.
LEMMA MeaningUnfolds ==
    ASSUME NEW n, NEW op \in CondOps
    PROVE  Meaning(n, op) = MeaningOp(n, op, [o \in CondOps |-> Meaning(n, o)])
<1> DEFINE V == {Undefined, Val("boolean", 1), Val("boolean", 0), NameOf[n], ValueOf[n]}
                \cup {o.lit : o \in CondOps}
           make == [o \in CondOps |-> [h \in [OpndsOf(o) -> V] |-> MeaningOp(n, o, h)]]
<1>1. ASSUME NEW o \in CondOps, NEW h \in [OpndsOf(o) -> V] PROVE MeaningOp(n, o, h) \in V
    <2>1. \A type, a, b : Bool(Related(type, a, b)) \in {Val("boolean", 1), Val("boolean", 0)}
        BY DEF Bool
    <2>2. \A type, a, b : Bool(Connected(type, a, b)) \in {Val("boolean", 1), Val("boolean", 0)}
        BY DEF Bool
    <2> DEFINE related   == Bool(Related(o.type, h[o.opnds[1]], h[o.opnds[2]]))
               connected == Bool(Connected(o.type, h[o.opnds[1]], h[o.opnds[2]]))
    <2>3. MeaningOp(n, o, h) \in {Undefined, related, connected, NameOf[n], ValueOf[n], o.lit}
        BY DEF MeaningOp
    <2>4. {Undefined, Val("boolean", 1), Val("boolean", 0), NameOf[n], ValueOf[n], o.lit}
          \subseteq V
        OBVIOUS
    <2>5. related \in V /\ connected \in V
        <3> HIDE DEF V
        <3> QED BY <2>1, <2>2, <2>4
    <2> HIDE DEF V, related, connected
    <2> QED BY <2>3, <2>4, <2>5
<1>2. \A o \in CondOps : \A h \in [OpndsOf(o) -> V] : make[o][h] = MeaningOp(n, o, h)
    OBVIOUS
<1> HIDE DEF V, make
<1>3. PICK f : AreResults(f, V, make)
    <2>1. IsSwitch(V, make)
        BY <1>1, <1>2 DEF IsSwitch
    <2> QED BY <2>1, GraphRecursion
<1>4. ASSUME NEW o \in CondOps PROVE f[o] = MeaningOp(n, o, f)
    <2>1. Looked(o, f) \in [OpndsOf(o) -> V]
        BY <1>3, OpndsAreBelow DEF Looked, AreResults
    <2>2. f[o] = MeaningOp(n, o, Looked(o, f))
        BY <1>2, <1>3, <2>1 DEF AreResults
    <2>3. \A p \in OpndsOf(o) : Looked(o, f)[p] = f[p]
        BY DEF Looked
    <2> QED BY <2>2, <2>3, MeaningOpLocal
<1>5. f = [o \in CondOps |-> MeaningOp(n, o, f)]
    BY <1>3, <1>4 DEF AreResults
<1> DEFINE value == CHOOSE g : g = [o \in CondOps |-> MeaningOp(n, o, g)]
<1>6. value = [o \in CondOps |-> MeaningOp(n, o, value)]
    BY <1>5
<1>7. \A o : Meaning(n, o) = value[o]
    BY DEF Meaning
<1> HIDE DEF value
<1>8. MeaningOp(n, op, value) = MeaningOp(n, op, [o \in CondOps |-> Meaning(n, o)])
    <2>1. \A o \in OpndsOf(op) : value[o] = [p \in CondOps |-> Meaning(n, p)][o]
        BY <1>7, OpndsAreBelow
    <2> QED BY <2>1, MeaningOpLocal
<1> QED BY <1>6, <1>7, <1>8
-------------------------------------------------------------------------------
(* What a condition comes to.                                              *)

LEMMA NotUndefined ==
    ASSUME NEW a \in Values
    PROVE  a # Undefined
BY DEF Values, Texts, Undefined, Val

\* AND, OR and XOR of two values mean what they are called.
LEMMA ConnectsRight ==
    ASSUME NEW type \in Connects, NEW a \in Values, NEW b \in Values, Askable(a), Askable(b)
    PROVE  Bool(Connect(type, ToBoolean(a), ToBoolean(b))) = Bool(Connected(type, a, b))
<1>1. (ToBoolean(a) <=> True(a)) /\ (ToBoolean(b) <=> True(b))
    BY TruthRight
<1> DEFINE truths == {i \in {1, 2} : True(<<a, b>>[i])}
<1>2. /\ truths = {1, 2} <=> True(a) /\ True(b)
      /\ truths # {} <=> True(a) \/ True(b)
      /\ truths \in {{1}, {2}} <=> ~(True(a) <=> True(b))
    <2>1. (1 \in truths <=> True(a)) /\ (2 \in truths <=> True(b)) /\ truths \subseteq {1, 2}
        OBVIOUS
    <2> HIDE DEF truths
    <2>2. truths \in {{}, {1}, {2}, {1, 2}}
        BY <2>1
    <2>3. 1 # 2
        OBVIOUS
    <2> QED BY <2>1, <2>2, <2>3
<1>3. Connect(type, ToBoolean(a), ToBoolean(b)) <=> Connected(type, a, b)
    <2>1. CASE type = "AND"
        BY <1>1, <1>2, <2>1 DEF Connect, Connected
    <2>2. CASE type = "OR"
        BY <1>1, <1>2, <2>2 DEF Connect, Connected
    <2>3. CASE type = "XOR"
        <3>1. ASSUME NEW x PROVE ToBoolean(x) \in BOOLEAN
            <4>1. CASE x.type = "float"
                <5>1. (2 * Dist(x.v, 0) > FloatUnit) \in BOOLEAN
                    OBVIOUS
                <5> QED BY <4>1, <5>1 DEF ToBoolean
            <4>2. CASE x.type # "float"
                BY <4>2, Zenon DEF ToBoolean
            <4> QED BY <4>1, <4>2
        <3>2. (ToBoolean(a) # ToBoolean(b)) <=> ~(ToBoolean(a) <=> ToBoolean(b))
            BY <3>1
        <3>3. Connect(type, ToBoolean(a), ToBoolean(b)) <=> (ToBoolean(a) # ToBoolean(b))
            BY <2>3 DEF Connect
        <3>4. Connected(type, a, b) <=> truths \in {{1}, {2}}
            BY <2>3 DEF Connected
        <3> HIDE DEF truths
        <3> QED BY <1>1, <1>2, <3>2, <3>3, <3>4
    <2> QED BY <2>1, <2>2, <2>3 DEF Connects
<1> QED BY <1>3 DEF Bool

\* Whatever has a meaning evaluates to it: a graph of any depth.
THEOREM EvaluateRight ==
    ASSUME NEW n \in DOMAIN NameOf \cap DOMAIN ValueOf
    PROVE  \A graph \in CondOps :
              Meaning(n, graph) # Undefined =>
                 Meaning(n, graph) \in Values /\ Evaluate(n, graph) = {Meaning(n, graph)}
<1> DEFINE Right(op) == Meaning(n, op) \in Values /\ Evaluate(n, op) = {Meaning(n, op)}
           Bad       == {op \in CondOps : Meaning(n, op) # Undefined /\ ~Right(op)}
<1> SUFFICES ASSUME Bad # {} PROVE FALSE
    OBVIOUS
<1>1. PICK op \in Bad : \A o \in OpndsOf(op) : o \in CondOps /\ o \notin Bad
    <2>1. Bad \subseteq CondOps
        OBVIOUS
    <2> HIDE DEF Bad
    <2> QED BY <2>1, DeepestFirst
<1> DEFINE M == [o \in CondOps |-> Meaning(n, o)]
           E == [o \in CondOps |-> Evaluate(n, o)]
<1>2. op \in CondOps /\ Meaning(n, op) = MeaningOp(n, op, M) /\ Evaluate(n, op) = EvaluateOp(n, op, E)
    BY MeaningUnfolds, EvaluateUnfolds
<1>3. \A i \in DOMAIN op.opnds : op.opnds[i] \in OpndsOf(op) /\ op.opnds[i] \in CondOps
    BY OpndsAreBelow
<1>4. ~\E i \in DOMAIN op.opnds : M[op.opnds[i]] = Undefined
    <2> HIDE DEF M
    <2>1. MeaningOp(n, op, M) # Undefined
        BY <1>2
    <2> QED BY <2>1 DEF MeaningOp
<1>5. ASSUME NEW i \in DOMAIN op.opnds
      PROVE  M[op.opnds[i]] \in Values /\ E[op.opnds[i]] = {M[op.opnds[i]]}
    BY <1>1, <1>3, <1>4
<1>6. ~\E i \in DOMAIN op.opnds : Undefined \in E[op.opnds[i]]
    <2> HIDE DEF M, E
    <2> QED BY <1>5, NotUndefined
<1>7. MeaningOp(n, op, M) # Undefined
    BY <1>2
<1>8. ~(MeaningOp(n, op, M) \in Values /\ EvaluateOp(n, op, E) = {MeaningOp(n, op, M)})
    BY <1>2
<1> DEFINE a == M[op.opnds[1]]
           b == M[op.opnds[2]]
<1>9. op.type \in Compares \cup Connects =>
         a \in Values /\ b \in Values /\ E[op.opnds[1]] = {a} /\ E[op.opnds[2]] = {b}
    <2>1. op.type \in Compares \cup Connects => 1 \in DOMAIN op.opnds /\ 2 \in DOMAIN op.opnds
        BY <1>2, GraphAssumptions
    <2> HIDE DEF M, E
    <2> QED BY <1>5, <2>1
<1> HIDE DEF M, E, Bad
<1>10. CASE op.type \in Compares
    <2>1. MeaningOp(n, op, M) = IF Comparable(op.type, a, b)
                                THEN Bool(Related(op.type, a, b)) ELSE Undefined
        BY <1>4, <1>10 DEF MeaningOp, Compares, Connects
    <2>2. Comparable(op.type, a, b) /\ MeaningOp(n, op, M) = Bool(Related(op.type, a, b))
        BY <1>7, <2>1
    <2>3. EvaluateOp(n, op, E) = UNION {Compared(op.type, x, y) : x \in {a}, y \in {b}}
        BY <1>6, <1>9, <1>10 DEF EvaluateOp
    <2>4. EvaluateOp(n, op, E) = Compared(op.type, a, b)
        BY <2>3
    <2>5. Compared(op.type, a, b) = {Bool(Related(op.type, a, b))}
        BY <1>9, <1>10, <2>2, ComparisonsRight
    <2>6. Bool(Related(op.type, a, b)) \in Values
        BY DEF Bool, Val, Values
    <2> QED BY <1>8, <2>2, <2>4, <2>5, <2>6
<1>11. CASE op.type \in Connects
    <2>1. MeaningOp(n, op, M) = IF Askable(a) /\ Askable(b)
                                THEN Bool(Connected(op.type, a, b)) ELSE Undefined
        BY <1>4, <1>11 DEF MeaningOp, Compares, Connects
    <2>2. Askable(a) /\ Askable(b) /\ MeaningOp(n, op, M) = Bool(Connected(op.type, a, b))
        BY <1>7, <2>1
    <2>3. EvaluateOp(n, op, E) =
            {Bool(Connect(op.type, ToBoolean(x), ToBoolean(y))) : x \in {a}, y \in {b}}
        BY <1>6, <1>9, <1>11 DEF EvaluateOp, Compares, Connects
    <2>4. EvaluateOp(n, op, E) = {Bool(Connect(op.type, ToBoolean(a), ToBoolean(b)))}
        BY <2>3
    <2>5. Bool(Connect(op.type, ToBoolean(a), ToBoolean(b))) = Bool(Connected(op.type, a, b))
        BY <1>9, <1>11, <2>2, ConnectsRight
    <2>6. Bool(Connected(op.type, a, b)) \in Values
        BY DEF Bool, Val, Values
    <2> QED BY <1>8, <2>2, <2>4, <2>5, <2>6
<1>12. CASE op.type \notin Compares \cup Connects
    <2>1. op.type # "ATTR" /\ op.type # "ATTR_VALUE"
        BY <1>4, <1>7, <1>12 DEF MeaningOp
    <2>2. EvaluateOp(n, op, E) = {Leaf(n, op)}
        BY <1>6, <1>12, <2>1 DEF EvaluateOp
    <2>3. CASE op.type = "NODE_NAME"
        <3>1. NameOf[n] # NoCell /\ MeaningOp(n, op, M) = NameOf[n]
            BY <1>4, <1>7, <1>12, <2>3 DEF MeaningOp
        <3>2. NameOf[n] \in Values
            BY <3>1, ObjectAssumptions DEF Values
        <3>3. Leaf(n, op) = NameOf[n]
            BY <2>3, <3>1 DEF Leaf
        <3> QED BY <1>8, <2>2, <3>1, <3>2, <3>3
    <2>4. CASE op.type = "NODE_VALUE"
        <3>1. ValueOf[n] # NoCell /\ MeaningOp(n, op, M) = ValueOf[n]
            BY <1>4, <1>7, <1>12, <2>4 DEF MeaningOp
        <3>2. ValueOf[n] \in Values
            BY <3>1, ObjectAssumptions
        <3>3. Leaf(n, op) = ValueOf[n]
            BY <2>4, <3>1 DEF Leaf
        <3> QED BY <1>8, <2>2, <3>1, <3>2, <3>3
    <2>5. CASE op.type \in {"TEXT", "INTEGER", "FLOAT"}
        <3>1. MeaningOp(n, op, M) = op.lit
            BY <1>4, <1>12, <2>5 DEF MeaningOp
        <3>2. op.lit \in Values
            BY <1>2, <2>5, GraphAssumptions
        <3>3. Leaf(n, op) = op.lit
            BY <2>5 DEF Leaf
        <3> QED BY <1>8, <2>2, <3>1, <3>2, <3>3
    <2>6. CASE op.type \notin {"NODE_NAME", "NODE_VALUE", "TEXT", "INTEGER", "FLOAT"}
        BY <1>4, <1>7, <1>12, <2>6 DEF MeaningOp
    <2> QED BY <2>3, <2>4, <2>5, <2>6
<1> QED BY <1>10, <1>11, <1>12

\* What queryMoveNext may see of a plain condition is its meaning, and just that.
THEOREM VerdictsRight ==
    ASSUME NEW n \in DOMAIN NameOf \cap DOMAIN ValueOf, NEW cond \in CondOps, Plain(n, cond)
    PROVE  Verdicts(n, cond) = {IF True(Meaning(n, cond)) THEN "true" ELSE "false"}
<1> DEFINE m == Meaning(n, cond)
<1>1. m \in Values /\ Evaluate(n, cond) = {m} /\ Askable(m) /\ m # Undefined
    BY EvaluateRight DEF Plain
<1> HIDE DEF m
<1>2. ToBoolean(m) <=> True(m)
    BY <1>1, TruthRight
<1>3. Verdicts(n, cond) = {IF m = Undefined THEN "undefined"
                           ELSE IF ToBoolean(m) THEN "true" ELSE "false"}
    BY <1>1 DEF Verdicts
<1> QED BY <1>1, <1>2, <1>3 DEF m
-------------------------------------------------------------------------------
(* The cells a condition reads.                                            *)

\* One node, given what its operands read.
Reads(n, op, reads) ==
    {w \in {<< >>} : ReadsCell(n, op)}
    \cup UNION {{<<i>> \o w : w \in reads[op.opnds[i]]} : i \in DOMAIN op.opnds}

LEMMA ReadsLocal ==
    ASSUME NEW n, NEW op \in CondOps, NEW f, NEW g, \A o \in OpndsOf(op) : f[o] = g[o]
    PROVE  Reads(n, op, f) = Reads(n, op, g)
<1>1. \A i \in DOMAIN op.opnds : f[op.opnds[i]] = g[op.opnds[i]]
    BY OpndsAreBelow
<1>2. {{<<i>> \o w : w \in f[op.opnds[i]]} : i \in DOMAIN op.opnds}
    = {{<<i>> \o w : w \in g[op.opnds[i]]} : i \in DOMAIN op.opnds}
    BY <1>1
<1> QED BY <1>2 DEF Reads

\* The recursion over the graph comes to an end here too.
LEMMA CellReadsUnfolds ==
    ASSUME NEW n, NEW op \in CondOps
    PROVE  CellReads(n, op) = Reads(n, op, [o \in CondOps |-> CellReads(n, o)])
<1> DEFINE V == SUBSET Seq(Nat)
           make == [o \in CondOps |-> [h \in [OpndsOf(o) -> V] |-> Reads(n, o, h)]]
<1>1. ASSUME NEW o \in CondOps, NEW h \in [OpndsOf(o) -> V] PROVE Reads(n, o, h) \in V
    <2>1. ASSUME NEW i \in DOMAIN o.opnds, NEW w \in h[o.opnds[i]] PROVE <<i>> \o w \in Seq(Nat)
        <3>1. w \in Seq(Nat)
            BY OpndsAreBelow
        <3>2. i \in Nat
            BY GraphAssumptions, LenProperties
        <3>3. <<i>> \in Seq(Nat)
            BY <3>2
        <3> QED BY <3>1, <3>3
    <2>2. \A i \in DOMAIN o.opnds : {<<i>> \o w : w \in h[o.opnds[i]]} \subseteq Seq(Nat)
        BY <2>1
    <2>3. << >> \in Seq(Nat)
        OBVIOUS
    <2> QED BY <2>2, <2>3 DEF Reads
<1>2. \A o \in CondOps : \A h \in [OpndsOf(o) -> V] : make[o][h] = Reads(n, o, h)
    OBVIOUS
<1> HIDE DEF V, make
<1>3. PICK f : AreResults(f, V, make)
    <2>1. IsSwitch(V, make)
        BY <1>1, <1>2 DEF IsSwitch
    <2> QED BY <2>1, GraphRecursion
<1>4. ASSUME NEW o \in CondOps PROVE f[o] = Reads(n, o, f)
    <2>1. Looked(o, f) \in [OpndsOf(o) -> V]
        BY <1>3, OpndsAreBelow DEF Looked, AreResults
    <2>2. f[o] = Reads(n, o, Looked(o, f))
        BY <1>2, <1>3, <2>1 DEF AreResults
    <2>3. \A p \in OpndsOf(o) : Looked(o, f)[p] = f[p]
        BY DEF Looked
    <2> QED BY <2>2, <2>3, ReadsLocal
<1>5. f = [o \in CondOps |-> Reads(n, o, f)]
    BY <1>3, <1>4 DEF AreResults
<1> DEFINE reads == CHOOSE g : g = [o \in CondOps |-> Reads(n, o, g)]
<1>6. reads = [o \in CondOps |-> Reads(n, o, reads)]
    BY <1>5
<1>7. \A o : CellReads(n, o) = reads[o]
    BY DEF CellReads, Reads
<1> HIDE DEF reads
<1>8. Reads(n, op, reads) = Reads(n, op, [o \in CondOps |-> CellReads(n, o)])
    <2>1. \A o \in OpndsOf(op) : reads[o] = [p \in CondOps |-> CellReads(n, p)][o]
        BY <1>7, OpndsAreBelow
    <2> QED BY <2>1, ReadsLocal
<1> QED BY <1>6, <1>7, <1>8

\* What a set is mapped to by a function is finite if the set is.
LEMMA FiniteImage ==
    ASSUME NEW S, IsFiniteSet(S), NEW f, DOMAIN f = S
    PROVE  IsFiniteSet({f[x] : x \in S})
<1> DEFINE T == {f[x] : x \in S}
           g == [x \in S |-> f[x]]
<1>1. g \in Surjection(S, T)
    BY DEF Surjection
<1> HIDE DEF g
<1> QED BY <1>1, FS_Surjection

\* An object makes a condition read finitely many cells: so many copies are left.
LEMMA CellReadsFinite ==
    ASSUME NEW n, NEW graph \in CondOps
    PROVE  IsFiniteSet(CellReads(n, graph)) /\ Cardinality(CellReads(n, graph)) \in Nat
<1> DEFINE Bad == {op \in CondOps : ~IsFiniteSet(CellReads(n, op))}
<1>1. Bad = {}
    <2> SUFFICES ASSUME Bad # {} PROVE FALSE
        OBVIOUS
    <2>1. PICK op \in Bad : \A o \in OpndsOf(op) : o \in CondOps /\ o \notin Bad
        <3>1. Bad \subseteq CondOps
            OBVIOUS
        <3> HIDE DEF Bad
        <3> QED BY <3>1, DeepestFirst
    <2> DEFINE R  == [o \in CondOps |-> CellReads(n, o)]
               D  == DOMAIN op.opnds
               at == [i \in D |-> {<<i>> \o w : w \in R[op.opnds[i]]}]
    <2>2. op \in CondOps /\ ~IsFiniteSet(CellReads(n, op))
        OBVIOUS
    <2>3. IsFiniteSet(D)
        <3>1. D = 1 .. Len(op.opnds) /\ Len(op.opnds) \in Nat
            BY <2>2, GraphAssumptions, LenProperties
        <3> QED BY <3>1, FS_Interval
    <2>4. ASSUME NEW i \in D PROVE IsFiniteSet(at[i])
        <3>1. op.opnds[i] \in CondOps /\ IsFiniteSet(R[op.opnds[i]])
            BY <2>1, OpndsAreBelow
        <3> DEFINE S == R[op.opnds[i]]
                   f == [w \in S |-> <<i>> \o w]
        <3>2. at[i] = {f[w] : w \in S}
            OBVIOUS
        <3>3. IsFiniteSet(S) /\ DOMAIN f = S
            BY <3>1
        <3> HIDE DEF f, S, at
        <3>4. IsFiniteSet({f[w] : w \in S})
            BY <3>3, FiniteImage
        <3> QED BY <3>2, <3>4
    <2>5. IsFiniteSet(UNION {at[i] : i \in D})
        <3>1. DOMAIN at = D
            OBVIOUS
        <3> HIDE DEF at, D
        <3>2. IsFiniteSet({at[i] : i \in D})
            BY <2>3, <3>1, FiniteImage
        <3>3. \A T \in {at[i] : i \in D} : IsFiniteSet(T)
            BY <2>4
        <3> QED BY <3>2, <3>3, FS_UNION
    <2> DEFINE own == {w \in {<< >>} : ReadsCell(n, op)}
    <2>6. CellReads(n, op) = own \cup UNION {at[i] : i \in D}
        <3>1. CellReads(n, op) = Reads(n, op, R)
            BY <2>2, CellReadsUnfolds
        <3> HIDE DEF D, R
        <3> DEFINE From(i) == {<<i>> \o w : w \in R[op.opnds[i]]}
        <3>2. \A i \in D : at[i] = From(i)
            OBVIOUS
        <3>3. Reads(n, op, R) = own \cup UNION {From(i) : i \in D}
            BY DEF Reads, D
        <3> HIDE DEF at, From, own
        <3>4. {at[i] : i \in D} = {From(i) : i \in D}
            BY <3>2
        <3> QED BY <3>1, <3>3, <3>4
    <2>7. IsFiniteSet(own)
        <3>1. own \in SUBSET {<< >>} /\ IsFiniteSet({<< >>})
            BY FS_Singleton
        <3> HIDE DEF own
        <3> QED BY <3>1, FS_Subset
    <2> HIDE DEF at, R, D, own, Bad
    <2>8. IsFiniteSet(own \cup UNION {at[i] : i \in D})
        BY <2>5, <2>7, FS_Union
    <2> QED BY <2>2, <2>6, <2>8
<1> QED BY <1>1, FS_CardinalityType
===============================================================================
