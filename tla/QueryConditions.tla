---------------------------- MODULE QueryConditions ----------------------------
(***************************************************************************)
(* What evaluateConditionGraph makes of a condition on an object, and what *)
(* the condition means.  No state.  The result is a set: what C leaves     *)
(* undefined, or the model leaves out, may come out in several ways.       *)
(*                                                                         *)
(* A value is its type and a number: 0 or 1 for a truth value or a pointer *)
(* (NULL or not), an integer, a float in FloatUnit-ths, a text by its      *)
(* place among the texts in the order of strcmp (0 is the empty one).      *)
(***************************************************************************)
EXTENDS Integers, Sequences

CONSTANTS
    IntMax,     \* INT_MAX
    FloatUnit,  \* the floats that occur are multiples of 1 / FloatUnit
    NoCell,     \* an object without a name, without a value
    NameOf,     \* NameOf[n]: the name of object n
    ValueOf,    \* ValueOf[n]: its value
    KeysOf,     \* KeysOf[n]: the keys of its attributes, in order
    CondOps,    \* the nodes of the condition graphs: [type, opnds, lit]
    DepthOf     \* DepthOf[op]: how deep evaluateConditionGraph goes below op

Val(type, v) == [type |-> type, v |-> v]
Bool(p)      == Val("boolean", IF p THEN 1 ELSE 0)
Undefined    == Val("undefined", 0)

Ints    == -IntMax - 1 .. IntMax

Texts  == [type : {"text"}, v : Nat]
Values == Texts \cup [type : {"boolean"}, v : {0, 1}] \cup [type : {"integer"}, v : Ints]
                \cup [type : {"float"}, v : Int]

Compares == {"EQUALS", "N_EQUALS", "GREATER", "GR_OR_EQ", "LESS", "LS_OR_EQ"}
Connects == {"AND", "OR", "XOR"}

ASSUME ConditionAssumptions ==
    /\ IntMax \in Nat
    /\ FloatUnit \in Nat \ {0}

\* An object has one of the values cells can hold, if it has any.
ASSUME ObjectAssumptions ==
    /\ \A n \in DOMAIN NameOf : NameOf[n] = NoCell \/ NameOf[n] \in Texts
    /\ \A n \in DOMAIN ValueOf : ValueOf[n] = NoCell \/ ValueOf[n] \in Values

\* The graphs end, and an operation has the operands the code reads.
ASSUME GraphAssumptions ==
    /\ DepthOf \in [CondOps -> Nat]
    /\ \A op \in CondOps :
          /\ op.opnds \in Seq(CondOps)
          /\ \A i \in DOMAIN op.opnds : DepthOf[op.opnds[i]] < DepthOf[op]
          /\ op.type \in Compares \cup Connects => {1, 2} \subseteq DOMAIN op.opnds
          /\ op.type = "ATTR" => 1 \in DOMAIN op.opnds
          /\ op.type \in {"TEXT", "INTEGER", "FLOAT"} => op.lit \in Values

Wrap(x) == ((x + IntMax + 1) % (2 * (IntMax + 1))) - (IntMax + 1)
Dist(x, y) == IF x >= y THEN x - y ELSE y - x
-------------------------------------------------------------------------------
(* The code.                                                               *)

\* Mutant: strcmp taken for "is equal", as its name suggests to many.
ToBooleanStrcmp(a) ==
    CASE a.type = "float" -> 2 * Dist(a.v, 0) > FloatUnit
      [] a.type = "text"  -> a.v = 0
      [] OTHER            -> a.v # 0

\* toBoolean.  A float is rounded, halves to even, before it is asked.
ToBoolean(a) ==
    IF a.type = "float" THEN 2 * Dist(a.v, 0) > FloatUnit ELSE a.v # 0

\* The difference of two floats as an int: the fraction is cut off.
AsInt(x) == IF x >= 0 THEN x \div FloatUnit ELSE -((-x) \div FloatUnit)

\* cmp_values.  The second value is read as one of the first one's type: its
\* bits as a number, which the model does not know, or as an address, and then
\* there is no result.  The
\* difference of two ints may overflow: then it wraps, or the compiler has made
\* a comparison of it.  A float that is no int has no defined result.
CmpValues(a, b) ==
    IF a.type # b.type
    THEN CASE a.type = "text"    -> {}
           [] a.type = "boolean" -> {0, 1}
           [] OTHER              -> {-1, 0, 1}
    ELSE
    CASE a.type = "boolean"    -> {IF a.v = b.v THEN 0 ELSE 1}
      [] a.type = "integer"    -> {a.v - b.v, Wrap(a.v - b.v)}
      [] a.type = "float"      -> IF AsInt(a.v - b.v) \in Ints THEN {AsInt(a.v - b.v)}
                                                               ELSE {-1, 0, 1}
      [] OTHER                 -> {a.v - b.v}

\* The iterator over attributes frees each copy it made when it moves on, and
\* itself at the end.  The filter above it frees the copy it returned as well,
\* and at its end the iterator below.
AttrFrees(keys, key) == [i \in DOMAIN keys |-> IF keys[i] = key THEN 2 ELSE 1] \o <<2>>

\* Q_COND_OP_ATTR: found or NULL, if nothing was freed twice on the way.
AttrNode(n, key) ==
    IF \E i \in 1 .. Len(KeysOf[n]) + 1 : AttrFrees(KeysOf[n], key)[i] > 1
    THEN Undefined
    ELSE Val("node", IF \E i \in DOMAIN KeysOf[n] : KeysOf[n][i] = key THEN 1 ELSE 0)

\* The comparisons of the result of cmp_values with 0.
Holds(type, x) ==
    CASE type = "EQUALS"   -> x = 0
      [] type = "N_EQUALS" -> x # 0
      [] type = "GREATER"  -> x > 0
      [] type = "GR_OR_EQ" -> x >= 0
      [] type = "LESS"     -> x < 0
      [] type = "LS_OR_EQ" -> x <= 0

Compared(type, a, b) ==
    IF CmpValues(a, b) = {} THEN {Undefined}
    ELSE {Bool(Holds(type, x)) : x \in CmpValues(a, b)}

\* AND, OR and XOR, of two truth values.
Connect(type, p, q) ==
    CASE type = "AND" -> p /\ q
      [] type = "OR"  -> p \/ q
      [] type = "XOR" -> p # q

\* NODE_NAME, NODE_VALUE and the literals.  Without a name the code reads
\* through NULL; without a value the object counts as one with the value true.
\* ATTR_VALUE reads through the result of ATTR, which never comes.
Leaf(n, op) ==
    CASE op.type = "NODE_NAME"  -> IF NameOf[n] = NoCell THEN Undefined ELSE NameOf[n]
      [] op.type = "NODE_VALUE" -> IF ValueOf[n] = NoCell THEN Bool(TRUE)
                                                          ELSE ValueOf[n]
      [] op.type = "ATTR_VALUE" -> Undefined
      [] OTHER                  -> op.lit

\* The switch of evaluateConditionGraph, on what it made of the operands.
EvaluateOp(n, op, results) ==
    LET of(i) == results[op.opnds[i]]
    IN  IF \E i \in DOMAIN op.opnds : Undefined \in of(i) THEN {Undefined}
        ELSE IF op.type \in Compares
        THEN UNION {Compared(op.type, a, b) : a \in of(1), b \in of(2)}
        ELSE IF op.type \in Connects
        THEN {Bool(Connect(op.type, ToBoolean(a), ToBoolean(b))) : a \in of(1), b \in of(2)}
        ELSE IF op.type = "ATTR"
        THEN {AttrNode(n, key.v) : key \in of(1)}
        ELSE {Leaf(n, op)}

\* evaluateConditionGraph: all operands first, whatever the operation.
Evaluate(n, graph) ==
    LET results[op \in CondOps] == EvaluateOp(n, op, results) IN results[graph]

\* select_cell, for a name or a value that is there.
ReadsCell(n, op) == \/ op.type = "NODE_NAME"  /\ NameOf[n] # NoCell
                    \/ op.type = "NODE_VALUE" /\ ValueOf[n] # NoCell

\* The places of a graph, as ways down to them, where evaluateConditionGraph makes
\* a copy of the cell with the name or the value of object n: it comes to all of
\* them, and frees none of the copies (query.c:196: "Leak").
CellReads(n, graph) ==
    LET reads[op \in CondOps] ==
            {w \in {<< >>} : ReadsCell(n, op)}
            \cup UNION {{<<i>> \o w : w \in reads[op.opnds[i]]} : i \in DOMAIN op.opnds}
    IN  reads[graph]

\* What queryMoveNext may see of a condition.
Verdicts(n, graph) ==
    {IF r = Undefined THEN "undefined" ELSE IF ToBoolean(r) THEN "true" ELSE "false" :
        r \in Evaluate(n, graph)}
-------------------------------------------------------------------------------
(* The meaning: values of one type are compared as they are, anything but  *)
(* false, zero and the empty text is true.                                 *)

True(a) == a.v # 0

Related(type, a, b) ==
    CASE type = "EQUALS"   -> a = b
      [] type = "N_EQUALS" -> a # b
      [] type = "GREATER"  -> a.v > b.v
      [] type = "GR_OR_EQ" -> a.v >= b.v
      [] type = "LESS"     -> a.v < b.v
      [] type = "LS_OR_EQ" -> a.v <= b.v

\* Where the code can be relied on: ints whose difference is an int, floats that
\* are equal, or at least 1 apart by what an int holds, truth values that are only
\* asked for equality; a float asked for its truth is 0 or more than a half.
Comparable(type, a, b) ==
    /\ a.type = b.type
    /\ a.type = "boolean" => type \in {"EQUALS", "N_EQUALS"}
    /\ a.type = "integer" => a.v - b.v \in Ints
    /\ a.type = "float"   => \/ a.v = b.v
                             \/ Dist(a.v, b.v) >= FloatUnit /\ AsInt(a.v - b.v) \in Ints

Askable(a) == a.type = "float" => a.v = 0 \/ 2 * Dist(a.v, 0) > FloatUnit

\* AND, OR and XOR of two values that are true or not.
Connected(type, a, b) ==
    LET truths == {i \in {1, 2} : True(<<a, b>>[i])}
    IN  CASE type = "AND" -> truths = {1, 2}
          [] type = "OR"  -> truths # {}
          [] type = "XOR" -> truths \in {{1}, {2}}

\* What an operation means, given what its operands do.
MeaningOp(n, op, value) ==
    LET of(i) == value[op.opnds[i]]
    IN  IF \E i \in DOMAIN op.opnds : of(i) = Undefined THEN Undefined
        ELSE
        CASE op.type \in Compares ->
                IF Comparable(op.type, of(1), of(2))
                THEN Bool(Related(op.type, of(1), of(2))) ELSE Undefined
          [] op.type \in Connects ->
                IF Askable(of(1)) /\ Askable(of(2))
                THEN Bool(Connected(op.type, of(1), of(2))) ELSE Undefined
          [] op.type = "NODE_NAME" /\ NameOf[n] # NoCell   -> NameOf[n]
          [] op.type = "NODE_VALUE" /\ ValueOf[n] # NoCell -> ValueOf[n]
          [] op.type \in {"TEXT", "INTEGER", "FLOAT"}      -> op.lit
          [] OTHER -> Undefined

\* The value of a condition of which only such things are asked; Undefined, if
\* it is no such condition for object n.
Meaning(n, graph) ==
    LET value[op \in CondOps] == MeaningOp(n, op, value) IN value[graph]

\* It has a meaning and its truth can be asked.
Plain(n, graph) == Meaning(n, graph) # Undefined /\ Askable(Meaning(n, graph))
===============================================================================
