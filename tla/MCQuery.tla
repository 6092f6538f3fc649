-------------------------------- MODULE MCQuery --------------------------------
(***************************************************************************)
(* Four objects and the queries a client makes of them.                    *)
(***************************************************************************)
EXTENDS Query

\* The root has neither name nor value.  The others are linked in any order: one
\* with a name, an integer and an attribute, one with a name and the float 1.5,
\* one without a name and with the integer 0.
Names  == [n \in Nodes |-> CASE n = 1 -> Val("text", 1)
                             [] n = 2 -> Val("text", 2)
                             [] OTHER -> NoCell]
Data   == [n \in Nodes |-> CASE n = 1 -> Val("integer", 2)
                             [] n = 2 -> Val("float", 3)
                             [] n = 3 -> Val("integer", 0)
                             [] OTHER -> NoCell]
Keys   == [n \in Nodes |-> IF n = 1 THEN <<1>> ELSE << >>]

Lit(type, v) == [type |-> CASE type = "text" -> "TEXT" [] type = "integer" -> "INTEGER"
                            [] type = "float" -> "FLOAT",
                 opnds |-> << >>, lit |-> Val(type, v)]
Get(type)    == [type |-> type, opnds |-> << >>, lit |-> NoCell]
Op(type, a, b) == [type |-> type, opnds |-> <<a, b>>, lit |-> NoCell]
Attr         == [type |-> "ATTR", opnds |-> <<Lit("text", 1)>>, lit |-> NoCell]

Name  == Get("NODE_NAME")
Value == Get("NODE_VALUE")

\* The value is true: one verdict for every object.
Truthy == Op("XOR", Value, Lit("integer", 0))

\* Comparisons within the range of the code and outside of it, of two types and
\* of one, with texts that are not there; truth values of all types.
Conditions ==
    {Op(type, Value, Lit("integer", v)) : type \in Compares, v \in {-4, 1}}
    \cup {Op(type, Value, Lit("float", v)) : type \in Compares, v \in {-9, 2, 5}}
    \cup {Op(type, Name, Lit("text", 1)) : type \in Compares}
    \cup {Op("N_EQUALS", Lit("text", 1), Value), Op("EQUALS", Truthy, Truthy), Attr,
          Op("AND", Truthy, Op("EQUALS", Name, Lit("text", 1))),
          Op("OR", Lit("text", 0), Truthy), Op("XOR", Lit("float", 1), Lit("text", 1)),
          Lit("text", 0), Name, Value, Truthy}

Graphs == LET below(ops) == ops \cup UNION {ToSet(op.opnds) : op \in ops}
          IN  below(below(below(Conditions)))

Depths[op \in Graphs] ==
    CHOOSE d \in 0 .. 3 :
        /\ \A i \in DOMAIN op.opnds : Depths[op.opnds[i]] < d
        /\ d = 0 \/ \E i \in DOMAIN op.opnds : Depths[op.opnds[i]] = d - 1

Level(op)       == [op |-> op, cond |-> NoCell]
Condition(cond) == [op |-> "T_CONDITION", cond |-> cond]
Imm             == Level("T_IMM_CHILDREN")
All             == Level("T_ALL_CHILDREN")
Parent          == Level("T_PARENT")

\* Up to three levels of what works, a level of what does not at each place, and
\* every condition on the root's children.
Working == {Imm, Parent, Condition(Truthy)}
MyQueries ==
    UNION {[1 .. k -> Working] : k \in 1 .. 3}
    \cup {<<Imm, Condition(c)>> : c \in Conditions}
    \cup {<<All>>, <<All, Parent>>, <<Imm, All>>, <<Level("T_SELF")>>,
          <<Imm, Level("T_ATTRIBUTES")>>}

OnlyAll == {<<All>>}
===============================================================================
