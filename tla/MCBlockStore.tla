----------------------------- MODULE MCBlockStore -----------------------------
(***************************************************************************)
(* The values of BlockStore's constants that a .cfg cannot write.          *)
(***************************************************************************)
EXTENDS BlockStore

\* The sizes of the 64-bit build: struct cell_object and cell_attr, and
\* cell_int32 with its value counted twice (cells_get_cell_type_size).
BuildFixSize == [t \in FixTypes |-> CASE t = "CELL_OBJECT" -> 100
                                      [] t = "CELL_ATTR"   -> 52
                                      [] t = "CELL_INT32"  -> 12]

\* Small blocks in which a block holds one object, inside its page, or three
\* integers, of which the first is inside.
SmallFixSize == [t \in FixTypes |-> CASE t = "CELL_OBJECT" -> 20
                                      [] t = "CELL_INT32"  -> 10]
===============================================================================
