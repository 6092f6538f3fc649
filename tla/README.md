# DataStorage: a TLA+ model

DataStorage is a C library that keeps hierarchical, schema-less data in one
file. The file is a row of blocks of 4096 bytes, mapped with `MAP_SHARED`; each
block holds cells of one type; objects, attributes and strings are cells that
refer to each other by descriptor. This directory models the library in TLA+,
checks the model with TLC and proves its central invariants with TLAPS.

Paths below are relative to `src/storage/` unless they start with `src/`.

## 1. The system

| Component | Source | State it keeps | Operations |
|---|---|---|---|
| Storage file | `storage_file.c` | the file and its length | open, `ftruncate`, `mmap`, `msync`, `munmap` |
| Block layer | `blocks/blocks.c`, `blocks/block_info.c`, `blocks/blocks_pub.c` | block headers and meta cells in the file; `header_blocks_table`, `loaded_blocks_table`, `free_blocks`, `is_dirty` in memory | create, load, sync, remove, delete a block; read and write its meta cell; last descriptor; root cell |
| Placement | `blocks/block_info_pub.c` | `cell_insertion_candidates_table` | find a place for a cell (hint, candidates, new block); account for an insertion, update or deletion; offer a block as a candidate |
| Cell operations | `cells/cells.c`, `cells/cells_pub.c`, `cells/cell_types.c` | the bytes of the cells | find, select, insert, update, delete; sizes and addresses |
| Sessions | `storage.c` | the open storage | `init_storage`, `create_open_storage`, `load_header_blocks`, `fill_block_meta`, `close_storage` |
| Pins | `blocks/block_info_pub.c` | counters per cell | pin, unpin (no caller) |
| Node tree | `cells/node_pub.c` | lists of children and attributes, linked through cells | insert a full node or attribute, add a child, add an attribute |
| Iterators | `cells/cells_iterators.c`, `utils/iterators/` | the next descriptor, the current item | immediate children, all children, attributes, filter by name |
| Queries | `query/query.c`, `query/query_iterator.c` | a stack of iterators | `apply_query`, `queryMoveNext`, evaluation of a condition graph |
| Virtual blocks | `blocks/virt_blocks.c.template` | - | a template no build compiles |
| Logging, macros, sample | `utils/cli/`, `utils/mem.h`, `src/main.c` | - | printing; a program that opens and closes a storage |

**How they interact.** Everything is a direct call in the client's thread; there
are no locks and no messages, and the calls to the pin functions are commented
out. A query pulls nodes from iterators, iterators and the node tree call
`find_cell`, `select_cell`, `insert_cell` and `update_cell`, these load blocks
and store into the mapping, and every insertion, update and deletion calls
`storage_update_block_meta_info_by_cell_operation`, which stores the block's new
state and then goes through the block's meta cell in the header block, itself a
cell operation on the header block. Three things are shared between calls: the
file, `struct blocks_info`, and the pointers and descriptors a client keeps.

**What is hard.**

* *Death of the process.* The mapping is shared, so each store survives the
  process, and a call makes several: grow the file, construct the block, move
  `last_bl_desc`, write the meta cell, count it in the header. A death between
  any two leaves a state the next session starts from.
* *State read and used later.* `storage_find_new_cell_place` returns a place that
  `insert_cell` uses later; `storage_try_fit_cell_to_block` trusts meta cells
  that no insertion updates.
* *Limits.* A block becomes full, `free_cells` is unsigned, addresses leave the
  page.
* *Partial failure.* `ftruncate` fails.
* *Order of closing.* Blocks are synced only if they are in a table and dirty.

The candidate queues and the block tables look like more of the same and are not: a
queue holds one block of its type at most, since no second one is created while it
is not empty; no block leaves its table before the session ends; no descriptor is
registered twice. What is left to get right there is that a new block is
registered under its type.

The properties that make each component correct, in words:

* Storage file and block layer: the file always holds every block up to
  `last_bl_desc`, each constructed; a meta cell in use describes an allocated
  block, and its type; nothing allocated is taken back.
* Placement: a candidate is mapped, allocated and of the right type; no more
  cells are placed in a block than fit in it; a place is not given out twice; a
  type with room in some block can use it; each request is answered.
* Cell operations: what was stored last is what is read; a cell stays in its
  block.
* Sessions: a storage that was opened is usable; closing syncs every change.
* Node tree: children form one finite list per parent, each node in exactly one;
  a crash may lose the last insertion and nothing else.
* Iterators: every item once, in order, each item freed once.
* Queries: the nodes returned are those that satisfy the conditions.

`PROJECT.json` lists every component and, under `hazards`, every place where
this code is hard to test, with the properties that watch it.

## 2. The plan

Done, in this order:

1. `CellLayout`: sizes, offsets, addresses, header groups.
2. `BlockStore`: file, block layer, placement, cell operations and sessions in
   one module. They share so much state within a single call (an insertion
   touches the block, its meta cell, the header and the dirty marks) that
   separate modules would only be joined again.
3. `BlockStoreProofs`: type correctness and the invariants of allocation.
4. `NodeTree`: the tree of objects and attributes over a store of cells, with
   deaths of the process between the stores of a call, and the iterator over
   children.
5. `CellMap`, what the cell operations promise, and `Tree`, what the links
   promise; `BlockStore` implements the first and `NodeTree` the second.
6. `QueryConditions`, the condition graph with its meaning, and `Query`, the
   stack of iterators and the copies they make, over a `Tree` that grows.

7. `StoreSafetyProofs`, `StoreCellsProofs`, `StoreMapProofs`, `NodeTreeProofs`,
   `QueryProofs`, `QueryConditionsProofs`, `QueryResultsProofs`: every safety property
   of the passing runs, the action properties and both refinements, for all values of
   the constants (section 5), and what the arithmetic of addresses costs.

Left: what section 6 lists, most of it code that nothing calls; and a client that
links a node twice or deletes a linked one, once a comment says what should happen.

## 3. The modules

**`CellLayout`** has no state. `Address` is the address `cells_get_cell_ptr`
computes, counted from the start of the block: the offset times `CellStep`,
because the code adds it to a `struct cell_common *`. `InBlock` and `Overlap` say
when a cell is inside the mapping and when two cells share bytes. `GroupSize`,
`HeaderOf`, `PosInGroup` and `MetaInHeader` are the arithmetic of header groups.
The sizes are constants, so that a small block can be checked and the real one
stated (`BuildFixSize` in `MCBlockStore`, `MCRealSizes.cfg`).

**`BlockStore`** is the storage. Its state, next to the code's:

| Variable | Code |
|---|---|
| `fileLen` | length of the file, in blocks |
| `page[b]` | type, data type and `block_state` in the header of block `b` |
| `last`, `root` | `last_bl_desc`, `root_cl_desc` of header block 0 |
| `meta[b]` | the `cell_block` of block `b` in header block 0 |
| `cells` | the bytes at a descriptor: a value and a size |
| `heads`, `loaded` | `header_blocks_table`, `loaded_blocks_table` |
| `cand`, `freeq`, `dirty` | candidate queues, `free_blocks`, `is_dirty` |
| `mode`, `pc`, `job` | the session, and the call in progress with its locals |
| `place`, `live` | the client: places it was given, cells it has stored |
| `unsynced`, `sessions`, `ops`, `deletes` | history and bounds |

One call runs at a time; it is cut into actions where the file changes, and
`Crash` may happen between any two. The stores that construct one block header
are one action. The calls are paths through the labels of `pc`:

    create   select -> construct -> setlast -> meta [-> count] -> finish
    find     find [-> create ...] -> place
    insert   write -> account          (root cell: -> setroot)
    update   write -> touch
    delete   wipe -> forget

`OpenCreate` runs create for header block 0, then find and insert for the root
cell, as `create_open_storage` does. `OpenLoads`, `OpenBlank` and `OpenDies` are
what opening an existing file does, depending on what an earlier death left.

*Accesses outside the page.* The address arithmetic takes cells out of their
block. What such an access does is undefined; the model lets it hit unused memory
(`WriteCell`: the bytes can be read until the session ends), raise a signal
(`StraySignal`), or hit another mapping (`StrayWild`: `mode = "wild"`, after which
nothing happens and nothing is claimed). A stray access to a meta cell outside
the header's page has only the last two outcomes.

*The client* may ask for a place with or without a hint, hold the places it was
given, insert there, find and update or delete a cell it stored, close, or do
nothing. It uses the library as its comments say: a cell is inserted at a place
asked for with that cell, a string is updated with one of the same length.

**`MCBlockStore`** has the two functions of sizes that a `.cfg` cannot write. The
theorems are in four modules, each of which extends the one before:
**`BlockStoreProofs`** (types, allocation, meta cells), **`StoreSafetyProofs`**
(the candidate queues, and what closing has to find), **`StoreCellsProofs`** (in
which block a cell is, and how many cells a block gets), **`StoreMapProofs`** (what
the cells hold, and `CellMap`). **`NodeTreeProofs`** and
**`QueryConditionsProofs`** extend the module they are named after,
**`QueryProofs`** extends `Query` and `QueryConditionsProofs`, and
**`QueryResultsProofs`** extends `QueryProofs`.

**`NodeTree`** is `cells/node_pub.c` and the iterator over immediate children.
`node`, `attr` and `text` are the cells of the three types that form the tree,
with their links; `newNode`, `newAttr` and `newText` stand for `new_cell_start`.
A call (`pc`, `call`) asks for all its places, inserts, and links:

    cells_insert_full_node  find -> name -> value -> cell -> child -> walk ...
    cells_insert_full_attr  find -> name -> value -> cell -> attr
    cell_add_attribute      find -> cell -> attr
    cells_add_child         child -> walk ...

It takes of the store what `BlockStore` shows: a place is where the next cell of
its type goes and is not reserved; an insertion moves it on. Insertions are one
step: a cell that is written and not accounted for when the process dies is
referred to from nowhere, and after a reopening every type starts a new block.
A string as value gets the place of the name (`PlaceOfValue`), and the second
insertion stores over the first. `Crash` may happen at every step. The client
links a node once, under a node of the tree, deletes nothing, builds a list of
attributes and gives it to the node it inserts next, and may keep a copy of an
object as long as it likes (`copy`) before it adds an attribute by it or walks
over its children. `linked`, `kids`, `given` and `fault` are history: the tree as
the client built it, and why a call killed the process.

**`CellMap`** and **`Tree`** are the two interfaces of the system, as small
specifications: a map of cells that are inserted whole and updated one at a time,
and an ordered tree that grows by one object at the end of one list of children.
They say nothing of blocks, stores, calls or crashes.

    Query --EXTENDS--> Tree <--implements-- NodeTree
                    CellMap <--implements-- BlockStore

`ImplementsCellMap` maps the state of `BlockStore` to the cells the client can
read back (`Readable`): in the list of its live cells, inside their block, with
the bytes at their place. A value is taken from the file, not from the client's
memory, so a store that hits another cell shows as a step `CellMap` does not
have. `ImplementsTree` maps `NodeTree` to `KidsInFile`, the lists that a reader
finds when it follows `children` and `next_sibling`; no history variable
takes part. `cells_add_child` makes three stores (the parent in the new object,
the link to it, and before these the object itself), and the refinement says that
all a reader can see of them is one step, whether the call lives or dies.
`NodeTree` uses of `CellMap` that a cell holds what was stored in it last and that
an insertion happens whole or not at all; the two are checked apart.

**`QueryConditions`** is `evaluateConditionGraph` and what it calls, without state:
from an object and a condition to the set of results the code may produce, and
`Verdicts`, what `queryMoveNext` sees of them. A graph is a record of a type,
operands and a literal. Integers have a width (`IntMax`), floats are multiples of
`1 / FloatUnit`, so what `cmp_values` does to them (a subtraction that may
overflow, a difference cut to an int, a float rounded before its truth is asked)
is kept; texts are ranks in the order of `strcmp`. A second value of another type
is read by the type of the first: a text read so is an address that is none (no
result), anything else bits that come out in any way. `Meaning` is the reference:
what the condition says, for the questions the code can answer (`Comparable`,
`Askable`). Both `Evaluate` and `Meaning` are recursive functions on the nodes of the
graphs (`CondOps`); `EvaluateOp` and `MeaningOp` are one call of each. `DepthOf` stands
for nothing in the code: it says that the graphs end, without which
`evaluateConditionGraph` does not return.

**`Query`** is `query_iterator.c` and the iterators it pushes, over the tree of
`Tree`.

| Variable | Code |
|---|---|
| `query` | the levels: `queryTreeLevel`, a tree operation and a condition each |
| `stack` | `queryIterator.stack`: the iterator and the levels that follow it |
| `copies` | the `struct cell` copies made so far: the object, the first child as it was then, who has to free it, how often it was freed; those of names and values that a condition reads are there as well, freed by nobody |
| `current` | `me.current` |
| `pc` | where `queryMoveNext` is; `over` after it returned false, `wild` after undefined behaviour |

`start` and `returned` are history: the tree when the query was applied, and of each
object returned the objects the levels stood on (`Way`), of which it is the last, so
that an object the levels lead to in two ways is told apart from one that is
returned twice. `Ways` is what a query means: the paths that start at the root and
take one step a level (`Targets`); `Before` is their order. The steps of a move are one call of an inner `move_next`
(`ItemNext`, `ItemEnd`, `ChildNext`, `ChildrenEnd`, `AllBreaks`, `QueryEnds`) and one
pass through the `switch` (`ReturnNode`, `Condition...`, `Push...`, `Unhandled`).
An iterator over one item (`Items`: `new_array_iterator`,
`new_single_item_iterator`) does not own it; one over children owns the copy it
stands on and frees it when it goes on. An iterator over all children is one over
the immediate children first (`cells_iterators.c:149-156`); at the end of that one
it uses freed memory (`AllBreaks`). `ReadCells` is what a condition leaves in memory:
`evaluateConditionGraph` evaluates all operands, copies the cell of a name or a
value at each place of the graph that asks for one and frees none of the copies
(`query.c:191`, `202`; the comment at `196` says "Leak"). `CellReads` are these
places. After a condition that reads through `NULL` (`ConditionDies`) the copies, like
everything else, are of no interest. The client applies one query, links objects
between two moves (`LinkNode`: a whole `cells_add_child`, since all calls are of one
thread) and asks no more after false. Queries share nothing but the tree, which
they do not change, so one is enough, and since they leave nothing in the file the
death of the process is not part of the module. **`MCQuery`** has four objects with
names, values and keys, the conditions and the queries.

## 4. The runs

The runs of `BlockStore` use blocks of 40 bytes with headers of 4 and 2 bytes, one type of
object (20 bytes, so a block holds one and it is inside), one of integers
(10 bytes: three fit by `free_cells`, the first is inside), and strings; the one
exception is `MCRealSizes`. Four blocks are enough for the header, a block of
each type and one more, which a second session creates because it starts without
candidates. Nothing in the code depends on the number of blocks before a group is
full.

| Run | Bounds | Shows |
|---|---|---|
| `MCSessions` | 3 sessions, 2 operations, 1 delete, 1 handle, strings of 1 and 40 | passes: `TypeOK`, `AllocationSound`, `MetaAgrees`, `CandidatesSound`, `FreeAccounting`, `CloseLosesNothing`, `StableAllocation`, `CallReturns` |
| `MCReadBack` | 2 sessions, 3 operations, no delete, 2 values | passes: `ReadBack`, `ImplementsCellMap` |
| `MCRealSizes` | sizes of the 64-bit build, 12 operations | violates `CellsInsideBlock` |
| `MCStaleMeta` | 1 session | violates `MetaMirrorsState` |
| `MCTwoPlaces` | 2 handles | violates `PlacesReserved` |
| `MCFullBlock` | 1 session | violates `CandidateHasSpace` |
| `MCBlankHeader` | 2 sessions | violates `InitLoadsHeaders` |
| `MCTree` | 3 nodes and the root, 4 strings, 1 iterator, no attributes | passes: `TreeIsKids`, `LinksStay`, `ReadersInOrder`, `AddReturns`, `ImplementsTree` |
| `MCAttrs` | 1 node and the root, 3 attributes, 4 strings, no iterator | passes: `TypeOK`, `AttrLists`, `TextsStay` |
| `MCKeyOnly` | as `MCAttrs` | violates `KeyOnlyAttrs` |
| `MCQuery` | 3 objects and the root, 89 queries, 46 conditions, 3-bit integers | passes: `TypeOK`, `NoMisuse`, `CopiesOwned`, `ConditionsRight`, `ResultsRight`, `MoveReturns` |
| `MCAllChildren` | as `MCQuery`, one query | violates `AllChildrenReturned` |

A third session is what it takes to open a file that a session left damaged by
one death and changed by a second. Two operations and a delete reach every
action; the third operation of `MCReadBack` is there to overwrite: an insertion,
an update and another insertion in the block. A string of 40 does not fit in a
block but passes the meta cell's test, which makes `free_cells` wrap. Symmetry is
not used: `CallReturns` is a liveness property.

The runs of `NodeTree` need three nodes: with three children of one parent the
walk to the last sibling takes a step, and an iterator is between two moves when
the third is linked. Each is inserted with a name
by `cells_insert_full_node`, or without one and linked by `cells_add_child`. Three attributes are
a list of two and one more that an old copy of the object puts in its place. The
two sides are checked apart because they meet only in `attrs`, which no step of
the children reads.

The run of `Query` needs three objects for the same reason as `NodeTree`, and for
a tree of three levels: a walk over children that lie under two parents, and one
that goes down, up and down again. The objects are linked in any order, at any
place, before the query and between any two moves. The queries are all those of
up to three levels of immediate children, parent and a condition that is true for
some objects; the levels that do not work, at the start and behind one that does;
and every condition on the children of the root. The conditions are each
comparison of integers whose difference is an `int` (against 1) and of some whose
difference is not (2 against -4, with `IntMax` 3), of floats that are equal, less
than 1 apart, at least 1 apart, and so far that the difference is no `int`, of texts, of values of two types, of values that are
not there, and each connective over truth values of each type. Three levels make
each iterator lie on top of each other kind, and a copy be the item of two
iterators above its owner. Conditions read up to two names or values of an object, so
`CopiesOwned` tells the copies they leave from those of the objects passed.
`ConditionsRight` speaks of the questions the code can answer only: what the
subtraction of `cmp_values` and the rounding of `toBoolean` do to the others is in the
model (`CmpValues`, `ToBoolean`), excluded by `Comparable` and `Askable`, and promised by
no comment.

*Deadlock* is not checked: the client may stop calling, the bounds end the
sessions, and `"wild"` has no successor. `CallReturns` says instead that a call
in progress does not stop.

*Fairness.* `FairSpec` adds weak fairness of `Library`, the steps a call takes by
itself: the thread that runs a call keeps running until the call returns or the
process dies. Nothing is assumed of the client or of `Open`. A call waits for
nothing (no locks, no retries), so weak fairness of the disjunction is enough.
`NodeTree` assumes the same, for the same reason; `AddReturns` rests on the list
of children having an end as well, because the walk takes a step for each child.
So does `Query`: `MoveReturns` rests on the list of children having an end and on
the levels being used up, and holds although objects are linked between moves,
because none is linked during one.

*The violations* are places where the code does not do what its comments say;
each has an entry under `findings` in `PROJECT.json` with both quoted:

* `CellsInsideBlock` (`cells/cells.c:123`): byte offsets are added to a pointer
  to 4-byte elements. With real sizes the 11th object of a block that promises 40
  lies past the end of the mapping. In particular a block of such cells becomes
  full only in a process that survives stray accesses, which is why the other
  runs use a type of which a block holds one.
* `MetaMirrorsState` (`blocks/block_info.c:87`): the update of a meta cell copies
  one pointer wrapper over another; the meta cell keeps the free size of the empty
  block.
* `PlacesReserved` (`blocks/block_info_pub.c:329`): a place that was asked for is
  not reserved. The same hits `cells_insert_full_node` (`cells/node_pub.c:91`): the place of a
  string value is asked for before the name is inserted, and the value is stored
  over the name.
* `CandidateHasSpace` (`blocks/block_info_pub.c:258`): a full block stays in its
  queue, and as long as the queue is not empty no block is created.
* `InitLoadsHeaders` (`storage.c:180`): `&&` where either failure should count. A
  header that cannot be loaded is reported as success. The other half of it is that
  after a successful load `fill_block_meta` is skipped, so the candidate queues
  stay empty and every session starts new blocks (`OpenLoads`).
* `KeyOnlyAttrs` (`cells/node_pub.c:50`): an attribute without a value passes
  `NULL` to `insert_cell`.
* `AllChildrenReturned` (`cells/cells_iterators.c:157`): after the immediate
  children the iterator over all children takes its first iterator, which is freed,
  for its queue.

The first four are why some properties have the form they have: `FreeAccounting` and
`ReadBack` are stated for a client that uses each place before it asks for the
next (one handle), `ReadBack` for cells inside their block and without deletes
(in a full block `new_cell_start` is -1 and `delete_cell` adds the size of a cell
to it, so the next place lies across cells that are alive), and `MetaAgrees`
speaks of the type in a meta cell, not of its free size. In the same way
`TextsStay` speaks of the value alone when the value is a string.

## 5. The proofs

TLAPS proves the theorems below for every value of the constants that satisfies
the assumptions of the modules. Those are: in `CellLayout`, that sizes are natural
numbers and a block has room for its header and a meta cell (`SizesAreNat`), that
types are distinct (`TypesAreApart`), that cells of fixed size have one
(`FixSizesAreNat`) and that a block has room for one of them (`CellsFit`); in
`BlockStore`, that the root's type has fixed size and that `free_cells` of an empty
block fits its integer (`StoreAssumptions`); in `NodeTree`, that the markers for no
name and no value are not words (`TreeAssumptions`); in `Tree`, that the root is an
object and `None` is not (`TreeConstants`); in `QueryConditions`, that there are
integers and a unit of floats (`ConditionAssumptions`), that the name of an object
is a text and its value one that a cell can hold, if it has any
(`ObjectAssumptions`), that condition graphs end and their operations have the operands
the code reads (`GraphAssumptions`); in `Query`, that queries are sequences of levels
and every object has a name and a value or none (`QueryAssumptions`). Every run
evaluates the ones of its modules.

### The storage

| Theorem | Module | States | For a client |
|---|---|---|---|
| `Inductive` | `BlockStoreProofs` | `Spec => []IInv` | any |
| `TypeCorrect` | | `Spec => []TypeOK` | any |
| `AllocationIsSound` | | `Spec => []AllocationSound` | any |
| `MetaIsRight` | | `Spec => []MetaAgrees` | any |
| `AllocationIsStable` | | `Spec => StableAllocation` | any |
| `CandidatesAreSound` | `StoreSafetyProofs` | `Spec => []CandidatesSound` | any |
| `ClosingLosesNothing` | | `Spec => []CloseLosesNothing` | any |
| `FreeIsAccounted` | `StoreCellsProofs` | `Spec => []FreeAccounting` | `OneHandle` |
| `StoredIsRead` | `StoreMapProofs` | `Spec => []ReadBack` | `OneHandle`, `NoDeletes` |
| `StoreImplementsMap` | | `Spec => ImplementsCellMap` | `OneHandle`, `NoDeletes` |

`OneHandle` is a client that uses each place before it asks for the next,
`NoDeletes` one that deletes nothing. Without the first a place is given out twice
(run `two_places`), without the second a deletion from a full block moves
`new_cell_start` to a place across cells that are alive (section 4). The runs
`sessions` and `read_back` have such clients.

*Allocation.* `AllocationSound` and `MetaAgrees` are not inductive: whether
`CreateSetLast` may move `last` depends on what earlier steps of the same call have
done. `IInv` adds, label by label, how far a creation has come (`CreateOK`: at
`construct` the file is one block longer than `last` says; at `setlast` the block
is constructed as well; from `meta` on it is counted by `last`), what each label
is reached for (`CallOK`) and when a header block is in memory (`HeadsOK`). The
argument that a crash does no harm is then short: the parts that speak of the call
and of memory hold trivially with no session, and the parts that speak of the file
are about what `last` covers, which a creation moves only after the block is
there. `AllocationIsStable` needs one more invariant (`RootOK`: while
`create_open_storage` runs there is no root cell yet) so that `SetRoot` happens
once.

*Queues and closing.* `CandidatesSound` becomes inductive with `FreshOK`: the block
a call is creating is in no queue yet, so that offering it does not queue it twice,
although the search for duplicates never finds one. `CloseLosesNothing` speaks of
the moments between two calls; within one, a store may be ahead of its mark.
`SyncOK` says which blocks (`Pending`) a call has stored into and has yet to mark,
label by label: the header once `last_bl_desc` has moved, the block of a cell from its
store to its accounting; and that the header is marked already when the root cell is
stored there. `MappedOK` says that the block a call or
a place refers to is in a table.

*Room.* `WhereOK` puts each cell, place and call into an allocated block of its
type. `CountOK` is `FreeAccounting` with the cell a deletion has taken from the
client and not counted yet (`Leaving`). It is kept because of `PromiseOK`: where
`new_cell_start` points somewhere, `free_cells` is not 0, and that is still so when
the cell is accounted for. This is the one place where two fields that the code
never compares have to agree, and `WaitOK` is why they do: a client that holds a
place starts no other insertion.

*Cells.* `LayoutInv` says that the cells of a block lie in a row, in the order of
their insertion, before `new_cell_start` (`RowOK`), that a place and a cell on its
way are just there (`StartOK`), and that the bytes are stored before the client is
told (`StoredOK`, of which `ReadBack` is part). A cell inside its page is then missed
by every store: an update hits its own cell, an insertion lies behind all others.
`CellStep` matters here: offsets count in steps of several bytes, so cells lie
further apart than they need to, and the lemma `Apart` uses only that a step is not
less than a byte. What the steps cost is stated by two theorems about the operators of
`CellLayout`, at the end of `StoreCellsProofs`: `LastCellInside` (the last cell of a block that
counts room for two or more is outside its page if a step is more than a byte; and
since cells start behind the header (`CreateData`) and `Address` adds the header
again, it is inside with steps of one byte only if there is room for two headers),
`BuildCellsInside` (with the sizes of the build just the first 10 of 40 objects, 20 of 78
attributes and 84 of 340 integers are inside) and `MetaCellsInside` (with the sizes of the build just the first 42 meta cells of the 168 of a
group are in the page). For the refinement each action is shown to be an `Insert`
(`InsertAccount`, of a cell inside its page), an `Update` (`WriteCell` of such a
cell) or to leave `held` as it is.

### The tree

`NodeTreeProofs` proves `TypesHold`, `FileHoldsTree` (`TreeIsKids`), `LinksAreKept`
(`LinksStay`), `ReadersAreRight` (`ReadersInOrder`), `TextsAreKept` (`TextsStay`),
`AttrListsAreRight` (`AttrLists`) and `FileImplementsTree` (`ImplementsTree`).

The invariant says label by label what a call knows: the places it holds are the
next ones of their type and nothing refers to them (`PlacesOK`), the walk of
`cells_add_child` stands on a child of the parent (`WalkOK`), and at the link the
new object already has its parent. `TreeShape` says that the lists of children are a
tree of the linked nodes and `TreeInFile` that the file holds these lists
(`IsListOf`). The client acts between two calls only, so what it holds, an old copy
(`CopyOK`) or an iterator, is related to the tree alone: what it knows is the
beginning of a list that grows at its end. The lists of attributes end because each
attribute points to one that was inserted after it (`LinksOK`, `ChainOK`). The refinement rests
on `FileIsKids`: a parent has at most one list of children in the file, so the lists
that a reader finds are those of the client's calls.

### Queries

`QueryProofs` proves `Inductive`, `QueryTyped` (`TypeOK`), `NothingMisused`
(`NoMisuse`) and `CopiesAreOwned` (`CopiesOwned`) for any tree, any way it grows
between two moves, any conditions and any queries. `NoMisuse` alone is not
inductive: that the copy looked at next is alive depends on who else may free it.
The invariant gives each copy made by an iterator over children one owner on the
stack (`OwnersOK`, `NoneLost`), and says that an array iterator that holds a copy
lies above its owner (`ItemsOK`), so that the owner, which frees it, moves only
when everything above has been popped. `CopiesOwned` needs the other side as well: no
step frees a copy that nobody is to free (`OthersKept`), those of parents and those that
conditions make. Of the latter a condition makes a finite number (`CellReadsFinite`,
from `DeepestFirst`, below), so that `copies` stays a sequence.

`QueryConditionsProofs` proves what the meaning of a condition rests on:
`ComparisonsRight` (each comparison answers what it is called for if its values are
`Comparable`, for every width of integers and every unit of floats), `TruthRight`
(`toBoolean` takes a value for what it means exactly if it is `Askable`) and
`AttributeNeverFound`; and what a whole graph comes to: `EvaluateRight` (if a graph has
a meaning, that is all it evaluates to) and `VerdictsRight`. `Evaluate` and `Meaning`
are functions defined by recursion over nodes of any kind, of which the library's
theorems say nothing. Since every operand is less deep than its operation
(`DepthOf`), a set of nodes that is not empty has one of which no operand is in the set
(`DeepestFirst`, from `WFMin`). Applied to the nodes at which the recursion fails it shows
that the functions exist (`EvaluateUnfolds`, `MeaningUnfolds`), applied to the nodes at
which the two differ it shows that there are none. `ConditionsAreRight`
(`ConditionsRight`, in `QueryProofs`) carries this to the object a query has in hand.
Proving `ComparisonsRight` showed that an earlier `Comparable` was too
weak: two floats so far apart that their difference is no `int` were called
comparable, and what `cmp_values` makes of such a difference is undefined. The
conditions of `MCQuery` have had a pair of such floats since.

`QueryResultsProofs` proves `ResultsAreRight` (`ResultsRight`): for any tree, any way it
grows between two moves, and any query of immediate children, parents and conditions that
have a verdict (`Regular`). `ResultsRight` is a statement about a search that is over or
between two objects; within the search it says nothing. The invariant (`RInv`) reads
the stack as a place in the search. The objects the levels stand on (`Stands`) are the
beginning of a way, and divide all ways: one is `Passed` if at the first level where it
differs it goes to an object that is `Earlier` in the list that level walks through,
and `Ahead` if it goes to one that is `Left`. The invariant is then

* `Standing`: each level stands on an object of its list and goes on to the next one, and
  if it goes on to none, the list it was given when the query was applied has ended;
* `Sound`, `InOrder`: what was returned are ways of the tree of now, all passed, in order;
* `Complete`: a way of the tree of then was returned or is ahead;
* `Shaped`: level `h` has the rest of the query from `h` on, and the iterator that the
  operation before it calls for.

For each step it is enough to show how it divides the ways anew: `AdvanceDivides` (an
iterator goes on), `PopDivides` (one that has ended is taken away), `PushDivides` (a level
begins), `SkipDivides` (a condition that is false), `ReturnDivides` (the way in hand comes
after all that are passed, and is then one of them) and `GrowDivides` (an object is
linked). The last is why the theorem holds for a tree that grows: an iterator keeps the next
child from when it last moved and a copy keeps the first child from when it was made, so
both can be old (`CopiesKnow`); what they know is the beginning of a list that has
grown at its end (`Begins`, `Grown`), and if they know of no next one, there was none when
the query was applied. When the stack is empty nothing is ahead, and `Complete` is the last
part of `ResultsRight`. That the result is stated by ways, not by the list of objects they
lead to, makes this possible without an induction over the levels, and tells the two
times apart that a query may select one object.

### What stays with TLC

* The liveness properties `CallReturns`, `AddReturns` and `MoveReturns`: the prover
  has no rule for fairness. So `ResultsAreRight` says what was returned when a query is
  over, and only the run says that it gets there.
* What the runs that expect a violation show. A counterexample is one instance.

## 6. What is not modelled

* Failures of `malloc`, `mmap`, `msync` and `munmap`. (`load_file_region` would
  report a failed `mmap` as success: `storage_file.c:28`; the process then dies
  with the first access, which is a `Crash`.)
* A power failure: only the process dies, the kernel keeps the stores. What
  `msync` adds is therefore only visible in `CloseLosesNothing`.
* `blocks_delete_block` and the queue of freed blocks: no caller, although
  `src/README.md` says that a block is deleted with its last cell. The branch of
  `blocks_create_block` that reuses a freed block is in the model and never taken.
* Header groups beyond the first. No code creates a second header block
  (`blocks/block_types.h:21` says it is created), and the meta cells of the first
  leave its page from block 42 on.
* Of the node tree: the getters at the end of `node_pub.c`, which select a cell;
  `cells_add_sibling`, which returns -1; a node that is linked twice (as a last
  child it becomes its own sibling, `node_pub.c:146`) and a linked node that is
  deleted: no comment says what should happen then. An insertion whose accounting
  fails.
* Of the iterators: `new_filter_iterator` and `for_each`, which nothing calls; the
  iterator over attributes as a process of its own. Only the lookup of a
  condition uses it, through the filter by name, and there `AttrFrees` counts what
  the two free: always something twice, so the lookup is undefined
  (`ConditionDies`) and the values of attributes are never reached. That
  names in cells do not end with a zero byte does not matter before that.
* Of queries: the constructors of `query.c` (`newQueryValue`, the levels, the
  operands), which allocate a record each and are represented by the queries of
  the run; `toInteger` and `toString`, which nothing calls; `exec_query`, which
  returns `NULL`; `T_SELF` and `T_ATTRIBUTES` beyond that they end a move like the
  end of the query; calls of `move_next` after it returned false.
* Of floats: NaN, infinities and the rounding of the subtraction itself. Of values
  of two types: which bits one type shows as another.
* The memory behind a text: the characters that a condition copies out of a name or a
  value, and the arrays of operand values, are not freed either, but are no cells and
  not in `copies`.
* Pins: the calls of `storage_pin_block` are comments, and so are those of
  `cells_release_cell_ptr`, the one caller of `storage_unpin_block`.
* Virtual blocks: a template that no build compiles. Logging, the allocation
  macros and the sample program: no state.
