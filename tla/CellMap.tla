-------------------------------- MODULE CellMap --------------------------------
(***************************************************************************)
(* What the cell operations promise a client that deletes nothing and uses *)
(* each place before it asks for the next: a map from descriptors to       *)
(* values.  A cell is inserted whole, changes only when it is updated, and *)
(* is still there after the process has died and the storage was opened    *)
(* again.  BlockStore shows that the blocks keep this promise.             *)
(***************************************************************************)
CONSTANTS
    Descs,   \* the descriptors a cell may get
    Values   \* what a cell may hold

VARIABLE held   \* held[d]: the value of the cell at d

MapInit == held = [d \in {} |-> CHOOSE v \in Values : TRUE]

\* insert_cell at a place that no other cell has.
Insert(d, v) ==
    /\ d \notin DOMAIN held
    /\ held' = [e \in DOMAIN held \cup {d} |-> IF e = d THEN v ELSE held[e]]

\* A value stored through the pointer of find_cell, and update_cell.
Update(d, v) == held' = [held EXCEPT ![d] = v]

MapNext ==
    \/ \E d \in Descs, v \in Values : Insert(d, v)
    \/ \E d \in DOMAIN held, v \in Values : Update(d, v)

\* The same as [][MapNext]_held; TLC looks for an action only where held changes.
MapSpec == MapInit /\ [][held' # held => MapNext]_held
===============================================================================
