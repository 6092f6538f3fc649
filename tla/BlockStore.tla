------------------------------ MODULE BlockStore ------------------------------
(***************************************************************************)
(* The block layer and the cell operations that drive it: one storage      *)
(* file, the process that has it open, and the client of the storage       *)
(* library.  The library runs in the client's thread, so one call runs at  *)
(* a time; what interleaves with its steps is the death of the process.    *)
(* A call is cut where the file changes, because the mapping is MAP_SHARED *)
(* and every store to it survives the process (not a power failure).       *)
(*                                                                         *)
(* All blocks of the model are in the group of header block 0: the code    *)
(* never makes a second header block, and the meta cells of a group leave  *)
(* the header's page long before the group is full.                        *)
(***************************************************************************)
EXTENDS CellLayout, Sequences, FiniteSets

CONSTANTS
    RootType,     \* CELL_OBJECT: the type of the cell create_open_storage inserts
    StrLens,      \* the lengths of the strings a client stores
    Vals,         \* the values of a cell
    NoVal,        \* ... and what an empty cell, such as the new root, holds
    Handles,      \* the places found and not used yet a client can hold at once
    MaxCand,      \* INSERT_CAND_QUEUE_LEN
    UIntMax,      \* 2^w: bl_free_space is an unsigned int
    MaxBlocks,    \* bound: blocks of the file
    MaxSessions,  \* bound: times the storage is opened
    MaxOps,       \* bound: inserts, updates and deletes
    MaxDeletes    \* bound: deletes among them

ASSUME StoreAssumptions ==
    /\ RootType \in FixTypes
    /\ StrLens \subseteq Nat
    /\ NoVal \notin Vals
    /\ Handles # {}
    /\ MaxCand \in Nat \ {0}
    /\ UIntMax \in Nat \ {0}
    /\ BlockSize < UIntMax
    /\ MaxBlocks \in Nat \ {0, 1}
    /\ MaxSessions \in Nat /\ MaxOps \in Nat /\ MaxDeletes \in Nat

UNDEF   == -1        \* UNDEF_BL_DESC, UNDEF_CL_DESC, UNDEF_BL_OFFSET
NoDesc  == [bd |-> UNDEF, off |-> UNDEF]    \* cells_get_default_cld()
Blocks  == 0 .. MaxBlocks - 1

\* The sizes of the cells of type t.
SizesOf(t) == IF t \in DynTypes THEN {StrHeadSize + l : l \in StrLens} ELSE {FixSize[t]}

(***************************************************************************)
(* State.                                                                  *)
(***************************************************************************)
VARIABLES
    \* -- the file: what survives the process
    fileLen,  \* blocks the file is long; UNDEF: there is no file
    page,     \* page[b]: the header of block b
    last,     \* last_bl_desc in header block 0; UNDEF while there is no header block
    root,     \* root_cl_desc in header block 0
    meta,     \* meta[b]: the cell_block that describes block b
    cells,    \* [bd, off] -> the cell bytes there
    \* -- struct blocks_info: what dies with the process
    mode,     \* "down", "init": in create_open_storage, "up", "wild": see StrayWild
    heads,    \* header_blocks_table
    loaded,   \* loaded_blocks_table
    cand,     \* cell_insertion_candidates_table
    freeq,    \* free_blocks
    dirty,    \* the loaded blocks whose is_dirty is set
    \* -- the call in progress and the client
    pc,       \* where the call is
    job,      \* its local variables
    place,    \* place[h]: the cell place handle h holds
    live,     \* the cells the client has inserted and not deleted
    \* -- what the properties and the bounds need to remember
    unsynced, \* blocks this session has changed since it last synced them
    sessions, ops, deletes

file   == <<fileLen, page, last, root, meta>>
info   == <<heads, loaded, cand, freeq>>
bounds == <<sessions, ops, deletes>>
vars   == <<file, cells, mode, info, dirty, pc, job, place, live, unsynced, bounds>>

BlankPage == [type |-> "BLOCK_UNDEF", dtype |-> "CELL_UNDEF", free |-> 0, start |-> 0]
BlankMeta == [stype |-> "CELL_UNDEF", free |-> 0, rbd |-> 0]
NoPlace   == [bd |-> UNDEF, off |-> UNDEF, t |-> "CELL_UNDEF", size |-> 0]
NoJob     == [for |-> "none", h |-> CHOOSE h \in Handles : TRUE, t |-> "CELL_UNDEF",
              size |-> 0, hint |-> UNDEF, bd |-> UNDEF, off |-> UNDEF, val |-> NoVal, grown |-> FALSE]

AllTypes == CellTypes \cup {"CELL_BLOCK"}

Init ==
    /\ fileLen = UNDEF /\ last = UNDEF /\ root = NoDesc
    /\ page = [b \in Blocks |-> BlankPage]
    /\ meta = [b \in Blocks |-> BlankMeta]
    /\ cells = << >>
    /\ mode = "down"
    /\ heads = {} /\ loaded = {} /\ dirty = {}
    /\ cand = [t \in AllTypes |-> << >>] /\ freeq = << >>
    /\ pc = "idle" /\ job = NoJob
    /\ place = [h \in Handles |-> NoPlace]
    /\ live = << >>
    /\ unsynced = {} /\ sessions = 0 /\ ops = 0 /\ deletes = 0

(***************************************************************************)
(* Mutations of the helpers below, each a bug of the kind the property it  *)
(* is listed with in PROJECT.json has to notice.  Nothing else uses them.  *)
(***************************************************************************)
NewDescByCount     == Cardinality(heads \cup loaded)  \* counts the blocks in memory
GrownToStart(bd)   == bd                              \* grows to where the block starts
MovesLastOnReuse   == ~job.grown                      \* is_truncated the wrong way round
RegisteredNot(b)   == loaded                          \* forgets loaded_blocks_table
DirtiedNot(S)      == dirty                           \* forgets is_dirty
InsertedSigned(free, t, size) ==                      \* a signed free_cells
    free - IF t \in DynTypes THEN size ELSE 1
AccountNoEnd(p, free, size) ==                        \* never UNDEF_BL_OFFSET
    [p EXCEPT !.free = free, !.start = @ + size]
AccountStill(p, free, size) == [p EXCEPT !.free = free]  \* new_cell_start stays
AccountByOne(p, free, size) ==                        \* moves on by one, not by size
    [p EXCEPT !.free = free, !.start = IF free > 0 THEN @ + 1 ELSE UNDEF]
FindNoneRetries ==                                    \* looks again for ever
    pc = "find" /\ UNCHANGED vars

(***************************************************************************)
(* Helpers.                                                                *)
(***************************************************************************)
\* storage_get_last_bl_desc: read from any header block that is loaded.
LastDesc == IF heads = {} THEN UNDEF ELSE last

\* The descriptor of the next block: a freed one or the next of the file, and
\* the length the file is given for it (calc_file_offset of the block's end).
NewDesc     == IF freeq = << >> THEN LastDesc + 1 ELSE Head(freeq)
GrownTo(bd) == bd + 1

\* The call in progress has grown the file and a header block is there to say so.
MovesLast == job.grown /\ heads # {}

\* storage_append_desc_of_loaded_bl for a data block, blocks_set_block_dirty.
Registered(b) == loaded \cup {b}
Dirtied(S)    == dirty \cup S

\* The desc of the cell the call works on, and whether its bytes are in its page.
JobDesc == [bd |-> job.bd, off |-> job.off]
JobCellInBlock == InBlock(page[job.bd].type, job.off, job.size)

CellInBlock(d, size) == InBlock(page[d.bd].type, d.off, size)

\* The cells that a store of size bytes at d leaves as they were.
Untouched(d, size) ==
    {e \in DOMAIN cells : e.bd = d.bd => ~Overlap(e.off, cells[e].size, d.off, size)}

\* free_cells after one insertion or deletion: an unsigned int.
Inserted(free, t, size) == (free - Need(t, size)) % UIntMax
Deleted(free, t, size)  == (free + Need(t, size)) % UIntMax

\* The page of a block after free_cells has become free and a cell of size
\* bytes was inserted or deleted.
Account(p, free, size) ==
    [p EXCEPT !.free = free,
              !.start = IF free > 0 THEN p.start + size ELSE UNDEF]

\* storage_try_fit_cell_to_block: it asks the meta cell, not the block.
Fits(b, t, size) ==
    /\ heads # {}
    /\ meta[b].stype = t
    /\ meta[b].free >= Need(t, size)

\* storage_try_append_insert_cand_by_bl_desc.  g_queue_find compares pointers,
\* so it never finds the descriptor in the queue.
Appended(q, b, free) ==
    IF free = 0 THEN q
    ELSE <<b>> \o (IF Len(q) >= MaxCand THEN SubSeq(q, 1, Len(q) - 1) ELSE q)

\* The process is gone: memory is lost, and with it what was stored outside
\* the pages of the file.
EndSession ==
    /\ mode' = "down" /\ pc' = "idle" /\ job' = NoJob
    /\ place' = [h \in Handles |-> NoPlace]
    /\ heads' = {} /\ loaded' = {} /\ dirty' = {} /\ unsynced' = {}
    /\ cand' = [t \in AllTypes |-> << >>] /\ freeq' = << >>
    /\ cells' = [d \in {e \in DOMAIN cells : CellInBlock(e, cells[e].size)} |-> cells[d]]
    /\ UNCHANGED <<file, live, bounds>>

\* The process is running and the call is at label l.
Running == mode \in {"init", "up"}
At(l)   == Running /\ pc = l

\* The call goes on at label l, or returns to the client.
Goto(l) == pc' = l /\ UNCHANGED job
Return  == pc' = "idle" /\ job' = NoJob

Ready == mode = "up" /\ pc = "idle"
-------------------------------------------------------------------------------
(* init_storage.                                                           *)

\* No such file: create_open_storage opens it with O_CREAT and goes on to
\* create header block 0.
OpenCreate ==
    /\ mode = "down" /\ fileLen = UNDEF /\ sessions < MaxSessions
    /\ fileLen' = 0
    /\ mode' = "init" /\ pc' = "select"
    /\ job' = [NoJob EXCEPT !.for = "head"]
    /\ sessions' = sessions + 1
    /\ UNCHANGED <<page, last, root, meta, cells, info, dirty, place, live, unsynced,
                   ops, deletes>>

\* load_header_blocks.  last_bl_desc is read before any header is loaded, so
\* the loop ends after header block 0.  It returns 0, and `&&' then skips
\* fill_block_meta: the candidate queues stay empty.
OpenLoads ==
    /\ mode = "down" /\ fileLen > 0 /\ sessions < MaxSessions
    /\ page[0].type = "BLOCK_HEAD"
    /\ mode' = "up" /\ heads' = {0}
    /\ sessions' = sessions + 1
    /\ UNCHANGED <<file, cells, loaded, cand, freeq, dirty, pc, job, place, live,
                   unsynced, ops, deletes>>

\* Block 0 was never constructed.  blocks_load_block fails, load_header_blocks
\* returns 1, fill_block_meta has no header to walk and returns 0: the
\* condition is false and init_storage reports success.
OpenBlank ==
    /\ mode = "down" /\ fileLen > 0 /\ sessions < MaxSessions
    /\ page[0].type = "BLOCK_UNDEF"
    /\ mode' = "up"
    /\ sessions' = sessions + 1
    /\ UNCHANGED <<file, cells, info, dirty, pc, job, place, live, unsynced, ops, deletes>>

\* An empty file: reading the type of the mapped block is a SIGBUS.  A data
\* block where header 0 belongs: the assertion of load_header_blocks fails.
OpenDies ==
    /\ mode = "down" /\ fileLen >= 0 /\ sessions < MaxSessions
    /\ fileLen = 0 \/ page[0].type \in {"BLOCK_DATA_FIX", "BLOCK_DATA_DYN"}
    /\ sessions' = sessions + 1
    /\ UNCHANGED <<file, cells, mode, info, dirty, pc, job, place, live, unsynced,
                   ops, deletes>>
-------------------------------------------------------------------------------
(* blocks_create_block, called for header 0, for the root cell's block and *)
(* by find_block_for_cell.                                                 *)

\* The place of the block: a freed one, or a new one the file grows by.  The
\* file is never longer than that, so ftruncate never shrinks it (FileLength).
CreateSelect ==
    /\ At("select")
    /\ job' = [job EXCEPT !.bd = NewDesc, !.grown = (freeq = << >>)]
    /\ IF freeq = << >> THEN fileLen' = GrownTo(NewDesc) /\ UNCHANGED freeq
                        ELSE freeq' = Tail(freeq) /\ UNCHANGED fileLen
    /\ pc' = "construct"
    /\ UNCHANGED <<page, last, root, meta, cells, mode, heads, loaded, cand, dirty,
                   place, live, unsynced, bounds>>

\* ftruncate fails: a find returns its error, init_storage gives up with 2.
TruncFailsInFind ==
    /\ At("select") /\ job.for = "find" /\ freeq = << >>
    /\ Return
    /\ UNCHANGED <<file, cells, mode, info, dirty, place, live, unsynced, bounds>>

TruncFailsInInit ==
    /\ At("select") /\ mode = "init" /\ freeq = << >>
    /\ EndSession

\* mmap, construct_block, new_block_wrapper and storage_append_desc_of_loaded_bl
\* for header block 0, whose last_bl_desc and root cell come from the header
\* blocks that are loaded: none.
CreateHead ==
    /\ At("construct") /\ job.for = "head"
    /\ page' = [page EXCEPT ![job.bd] =
                  [type |-> "BLOCK_HEAD", dtype |-> "CELL_BLOCK",
                   free |-> GroupSize, start |-> HeadSize]]
    /\ last' = 0 /\ root' = NoDesc
    /\ heads' = heads \cup {job.bd}
    /\ dirty' = Dirtied({job.bd}) /\ unsynced' = unsynced \cup {job.bd}
    /\ Goto("setlast")
    /\ UNCHANGED <<fileLen, meta, cells, mode, loaded, cand, freeq, place, live, bounds>>

\* The same for a data block.  A descriptor that is in the table already makes
\* the call fail after the page is written.
CreateData ==
    /\ At("construct") /\ job.for \in {"root", "find"}
    /\ page' = [page EXCEPT ![job.bd] =
                  [type |-> BlockTypeOf(job.t), dtype |-> job.t,
                   free |-> InitialFree(job.t), start |-> DataSize]]
    /\ loaded' = Registered(job.bd)
    /\ dirty' = Dirtied({job.bd}) /\ unsynced' = unsynced \cup {job.bd}
    /\ IF job.bd \in loaded THEN Return ELSE Goto("setlast")
    /\ UNCHANGED <<fileLen, last, root, meta, cells, mode, heads, cand, freeq, place,
                   live, bounds>>

\* storage_set_last_bl_desc.  It does not mark the header dirty.
CreateSetLast ==
    /\ At("setlast")
    /\ last' = IF MovesLast THEN job.bd ELSE last
    /\ unsynced' = unsynced \cup heads
    /\ Goto("meta")
    /\ UNCHANGED <<fileLen, page, root, meta, cells, mode, info, dirty, place, live, bounds>>

\* storage_update_block_meta_info for header 0: its own meta cell is counted
\* in its state and never written.
CreateMetaHead ==
    /\ At("meta") /\ job.for = "head"
    /\ page' = [page EXCEPT ![job.bd].free = @ - 1, ![job.bd].start = @ + CellBlockSize]
    /\ dirty' = Dirtied({job.bd}) /\ unsynced' = unsynced \cup {job.bd}
    /\ Goto("finish")
    /\ UNCHANGED <<fileLen, last, root, meta, cells, mode, info, place, live, bounds>>

\* ... and for a data block: its meta cell is filled in if it is unused.  If it
\* is not, the found wrapper is copied over itself and the cell stays as it is.
MetaReachable == heads # {} /\ MetaInHeader(job.bd)

CreateMetaData ==
    /\ At("meta") /\ job.for # "head" /\ MetaReachable
    /\ IF meta[job.bd].stype = "CELL_UNDEF"
       THEN /\ meta' = [meta EXCEPT ![job.bd] =
                          [stype |-> page[job.bd].dtype, free |-> page[job.bd].free,
                           rbd |-> job.bd]]
            /\ dirty' = Dirtied({job.bd})
            /\ unsynced' = unsynced \cup heads
            /\ Goto("count")
       ELSE /\ dirty' = Dirtied({job.bd} \cup heads)
            /\ Goto("finish")
            /\ UNCHANGED <<meta, unsynced>>
    /\ UNCHANGED <<fileLen, page, last, root, cells, mode, info, place, live, bounds>>

\* The insertion of that meta cell is counted in the header's state.
CreateCount ==
    /\ At("count")
    /\ page' = [page EXCEPT ![0] = Account(@, Inserted(@.free, "CELL_BLOCK", CellBlockSize), CellBlockSize)]
    /\ dirty' = Dirtied(heads) /\ unsynced' = unsynced \cup heads
    /\ Goto("finish")
    /\ UNCHANGED <<fileLen, last, root, meta, cells, mode, info, place, live, bounds>>

\* blocks_sync_block and storage_try_append_insertion_candidates.
Created ==
    LET p == page[job.bd]
    IN  /\ cand' = [cand EXCEPT ![p.dtype] = Appended(@, job.bd, p.free)]
        /\ dirty' = dirty \ {job.bd} /\ unsynced' = unsynced \ {job.bd}
        /\ UNCHANGED <<file, cells, mode, heads, loaded, freeq, place, live, bounds>>

\* Header 0 is there: create_open_storage looks for a place for the root cell.
CreateHeadDone ==
    /\ At("finish") /\ job.for = "head"
    /\ Created
    /\ job' = [NoJob EXCEPT !.for = "root", !.t = RootType, !.size = FixSize[RootType]]
    /\ pc' = "find"

CreateDataDone ==
    /\ At("finish") /\ job.for # "head"
    /\ Created
    /\ Goto("place")
-------------------------------------------------------------------------------
(* storage_find_new_cell_place and find_block_for_cell.                    *)

\* The client asks for a place for a cell, with the block of a cell it knows
\* as the hint, or without one.
FindStart(h, t, size, hint) ==
    /\ Ready /\ place[h] = NoPlace
    /\ LastDesc + 1 < MaxBlocks
    /\ job' = [NoJob EXCEPT !.for = "find", !.h = h, !.t = t, !.size = size, !.hint = hint]
    /\ pc' = "find"
    /\ UNCHANGED <<file, cells, mode, info, dirty, place, live, unsynced, bounds>>

HintFits  == job.hint # UNDEF /\ Fits(job.hint, job.t, job.size)
Fitting   == {i \in 1 .. Len(cand[job.t]) : Fits(cand[job.t][i], job.t, job.size)}

FindHint ==
    /\ At("find") /\ HintFits
    /\ job' = [job EXCEPT !.bd = job.hint]
    /\ pc' = "place"
    /\ UNCHANGED <<file, cells, mode, info, dirty, place, live, unsynced, bounds>>

\* No candidate at all: a new block.
FindCreate ==
    /\ At("find") /\ ~HintFits /\ cand[job.t] = << >>
    /\ Goto("select")
    /\ UNCHANGED <<file, cells, mode, info, dirty, place, live, unsynced, bounds>>

\* The first candidate whose meta cell promises room.
FindCandidate ==
    /\ At("find") /\ ~HintFits
    /\ \E i \in Fitting :
         /\ \A j \in Fitting : i <= j
         /\ job' = [job EXCEPT !.bd = cand[job.t][i]]
    /\ pc' = "place"
    /\ UNCHANGED <<file, cells, mode, info, dirty, place, live, unsynced, bounds>>

\* Candidates, and none of them fits: the call fails, no block is created.
FindNone ==
    /\ At("find") /\ ~HintFits /\ cand[job.t] # << >> /\ Fitting = {}
    /\ Return
    /\ UNCHANGED <<file, cells, mode, info, dirty, place, live, unsynced, bounds>>

\* The block is loaded (if it is in no table yet) and the place is where its
\* new_cell_start points.  Nothing is reserved.
PlaceFound ==
    /\ At("place") /\ job.for = "find" /\ page[job.bd].start # UNDEF
    /\ loaded' = loaded \cup {job.bd}
    /\ place' = [place EXCEPT ![job.h] =
                   [bd |-> job.bd, off |-> page[job.bd].start, t |-> job.t, size |-> job.size]]
    /\ Return
    /\ UNCHANGED <<file, cells, mode, heads, cand, freeq, dirty, live, unsynced, bounds>>

\* create_open_storage goes straight on to insert the root cell there.
PlaceForRoot ==
    /\ At("place") /\ job.for = "root" /\ page[job.bd].start # UNDEF
    /\ job' = [job EXCEPT !.off = page[job.bd].start]
    /\ pc' = "write"
    /\ UNCHANGED <<file, cells, mode, info, dirty, place, live, unsynced, bounds>>

\* new_cell_start is UNDEF_BL_OFFSET: find_cell gives NULL and the call fails.
PlaceNone ==
    /\ At("place") /\ page[job.bd].start = UNDEF
    /\ loaded' = loaded \cup {job.bd}
    /\ Return
    /\ UNCHANGED <<file, cells, mode, heads, cand, freeq, dirty, place, live, unsynced, bounds>>
-------------------------------------------------------------------------------
(* insert_cell, update_cell, delete_cell.                                  *)

\* The client calls insert_cell with the cell it asked the place for.
InsertStart(h, v) ==
    /\ Ready /\ place[h] # NoPlace /\ ops < MaxOps
    /\ job' = [NoJob EXCEPT !.for = "insert", !.t = place[h].t, !.size = place[h].size,
                            !.bd = place[h].bd, !.off = place[h].off, !.val = v]
    /\ place' = [place EXCEPT ![h] = NoPlace]
    /\ pc' = "write" /\ ops' = ops + 1
    /\ UNCHANGED <<file, cells, mode, info, dirty, live, unsynced, sessions, deletes>>

JobFor(what, d, v) ==
    [NoJob EXCEPT !.for = what, !.t = live[d].t, !.size = live[d].size,
                  !.bd = d.bd, !.off = d.off, !.val = v]

\* The client finds a cell (its block is loaded), stores a new value of the
\* same size through the pointer and calls update_cell.
UpdateStart(d, v) ==
    /\ Ready /\ ops < MaxOps
    /\ loaded' = loaded \cup {d.bd}
    /\ job' = JobFor("update", d, v)
    /\ pc' = "write" /\ ops' = ops + 1
    /\ UNCHANGED <<file, cells, mode, heads, cand, freeq, dirty, place, live, unsynced,
                   sessions, deletes>>

\* The client finds a cell and calls delete_cell; it uses the descriptor no more.
DeleteStart(d) ==
    /\ Ready /\ ops < MaxOps /\ deletes < MaxDeletes
    /\ loaded' = loaded \cup {d.bd}
    /\ job' = JobFor("delete", d, NoVal)
    /\ live' = [e \in DOMAIN live \ {d} |-> live[e]]
    /\ pc' = "wipe" /\ ops' = ops + 1 /\ deletes' = deletes + 1
    /\ UNCHANGED <<file, cells, mode, heads, cand, freeq, dirty, place, unsynced, sessions>>

\* The memcpy of insert_cell, or the client's own store.  Outside the page it
\* may hit memory nothing else uses: it can be read back until the session ends.
WriteCell ==
    /\ At("write")
    /\ cells' = [e \in Untouched(JobDesc, job.size) \cup {JobDesc} |->
                   IF e = JobDesc THEN [val |-> job.val, size |-> job.size] ELSE cells[e]]
    /\ live' = IF job.for = "update" THEN [live EXCEPT ![JobDesc].val = job.val] ELSE live
    /\ unsynced' = IF JobCellInBlock THEN unsynced \cup {job.bd} ELSE unsynced
    /\ Goto(IF job.for = "update" THEN "touch" ELSE "account")
    /\ UNCHANGED <<file, mode, info, dirty, place, bounds>>

\* storage_update_block_meta_info_by_cell_operation(CL_INSERT): the state of
\* the block as it is now, moved on by one cell.  Its meta cell is in use, so
\* the header block is only marked dirty.
InsertAccount ==
    /\ At("account")
    /\ page' = [page EXCEPT ![job.bd] =
                  Account(@, Inserted(@.free, job.t, job.size), job.size)]
    /\ dirty' = Dirtied({job.bd} \cup heads)
    /\ unsynced' = unsynced \cup {job.bd}
    /\ live' = [e \in DOMAIN live \cup {JobDesc} |->
                  IF e = JobDesc THEN [t |-> job.t, val |-> job.val, size |-> job.size]
                                 ELSE live[e]]
    /\ IF job.for = "root" THEN Goto("setroot") ELSE Return
    /\ UNCHANGED <<fileLen, last, root, meta, cells, mode, info, place, bounds>>

\* storage_set_root_cell.  It does not mark the header dirty.
SetRoot ==
    /\ At("setroot")
    /\ root' = JobDesc
    /\ unsynced' = unsynced \cup heads
    /\ mode' = "up" /\ Return
    /\ UNCHANGED <<fileLen, page, last, meta, cells, info, dirty, place, live, bounds>>

\* The same with CL_UPDATE: the block's state is stored unchanged.
UpdateTouch ==
    /\ At("touch")
    /\ dirty' = Dirtied({job.bd} \cup heads)
    /\ Return
    /\ UNCHANGED <<file, cells, mode, info, place, live, unsynced, bounds>>

\* delete_cell zeroes the cell.
WipeCell ==
    /\ At("wipe")
    /\ cells' = [e \in Untouched(JobDesc, job.size) |-> cells[e]]
    /\ unsynced' = IF JobCellInBlock THEN unsynced \cup {job.bd} ELSE unsynced
    /\ Goto("forget")
    /\ UNCHANGED <<file, mode, info, dirty, place, live, bounds>>

\* ... and CL_DELETE counts it as free.  The size is asked of the zeroed cell,
\* so a string is as long as its header; new_cell_start moves on, never back.
DeletedSize == IF job.t \in DynTypes THEN StrHeadSize ELSE job.size

DeleteAccount ==
    /\ At("forget")
    /\ page' = [page EXCEPT ![job.bd] =
                  Account(@, Deleted(@.free, job.t, DeletedSize), DeletedSize)]
    /\ dirty' = Dirtied({job.bd} \cup heads)
    /\ unsynced' = unsynced \cup {job.bd}
    /\ Return
    /\ UNCHANGED <<fileLen, last, root, meta, cells, mode, info, place, live, bounds>>
-------------------------------------------------------------------------------
(* The end of a session.                                                   *)

\* close_storage syncs the dirty blocks and unmaps all of them.
Close == Ready /\ EndSession

\* The process is killed: the file keeps what was stored into the mappings.
Crash == Running /\ EndSession

\* An access outside the page is undefined.  Besides hitting unused memory
\* (WriteCell) it kills the process, or hits another mapping: nothing is known
\* of the storage after that.  Without a header block the data block at 0 is
\* taken for one: the same, or a recursion that ends when the stack is full.
Stray == \/ pc \in {"write", "wipe"} /\ ~JobCellInBlock
         \/ pc = "meta" /\ job.for # "head" /\ ~MetaReachable

StraySignal == Running /\ Stray /\ EndSession

StrayWild ==
    /\ Running /\ Stray
    /\ mode' = "wild"
    /\ UNCHANGED <<file, cells, info, dirty, pc, job, place, live, unsynced, bounds>>
-------------------------------------------------------------------------------
Open   == OpenCreate \/ OpenLoads \/ OpenBlank \/ OpenDies
Create == \/ CreateSelect \/ TruncFailsInFind \/ TruncFailsInInit
          \/ CreateHead \/ CreateData \/ CreateSetLast
          \/ CreateMetaHead \/ CreateMetaData \/ CreateCount
          \/ CreateHeadDone \/ CreateDataDone
Find   == FindHint \/ FindCreate \/ FindCandidate \/ FindNone
          \/ PlaceFound \/ PlaceForRoot \/ PlaceNone
Cell   == WriteCell \/ InsertAccount \/ SetRoot \/ UpdateTouch \/ WipeCell \/ DeleteAccount

\* The steps the library takes by itself once it is called.
Library == Create \/ Find \/ Cell \/ StraySignal \/ StrayWild

Client ==
    \/ \E h \in Handles, t \in CellTypes : \E size \in SizesOf(t),
          hint \in {UNDEF} \cup {d.bd : d \in DOMAIN live} : FindStart(h, t, size, hint)
    \/ \E h \in Handles, v \in Vals : InsertStart(h, v)
    \/ \E d \in DOMAIN live, v \in Vals : UpdateStart(d, v)
    \/ \E d \in DOMAIN live : DeleteStart(d)
    \/ Close

Next == Open \/ Library \/ Client \/ Crash

Spec == Init /\ [][Next]_vars

\* The thread of the process runs on until the call is over.
FairSpec == Spec /\ WF_vars(Library)
-------------------------------------------------------------------------------
(* What the steps keep.                                                    *)

Desc    == [bd : Blocks, off : Int]
AnyType == AllTypes \cup {"CELL_UNDEF"}
AnyVal  == Vals \cup {NoVal}

PageType  == [type : BlockTypes, dtype : AnyType, free : Nat, start : Int]
MetaType  == [stype : AnyType, free : Nat, rbd : Blocks]
PlaceType == [bd : Blocks, off : Int, t : CellTypes, size : Nat]
JobType   == [for : {"none", "head", "root", "find", "insert", "update", "delete"},
              h : Handles, t : CellTypes \cup {"CELL_UNDEF"}, size : Nat,
              hint : Blocks \cup {UNDEF}, bd : Blocks \cup {UNDEF}, off : Int,
              val : AnyVal, grown : BOOLEAN]

FileType ==
    /\ fileLen \in 0 .. MaxBlocks \cup {UNDEF}
    /\ page \in [Blocks -> PageType]
    /\ last \in Blocks \cup {UNDEF}
    /\ root \in Desc \cup {NoDesc}
    /\ meta \in [Blocks -> MetaType]

CellsType ==
    /\ DOMAIN cells \subseteq Desc
    /\ \A d \in DOMAIN cells : cells[d] \in [val : AnyVal, size : Nat]

InfoType ==
    /\ mode \in {"down", "init", "up", "wild"}
    /\ heads \subseteq {0} /\ loaded \subseteq Blocks
    /\ dirty \subseteq Blocks /\ unsynced \subseteq Blocks
    /\ cand \in [AllTypes -> Seq(Blocks)]
    /\ freeq \in Seq(Blocks)

CallType ==
    /\ pc \in {"idle", "select", "construct", "setlast", "meta", "count", "finish", "find",
               "place", "write", "account", "setroot", "touch", "wipe", "forget"}
    /\ job \in JobType

ClientType ==
    /\ place \in [Handles -> PlaceType \cup {NoPlace}]
    /\ DOMAIN live \subseteq Desc
    /\ \A d \in DOMAIN live : live[d] \in [t : CellTypes, val : AnyVal, size : Nat]
    /\ sessions \in Nat /\ ops \in Nat /\ deletes \in Nat

\* Every variable has the type its declaration announces.
TypeOK == FileType /\ CellsType /\ InfoType /\ CallType /\ ClientType

\* However the process dies, the file holds every block up to last_bl_desc and
\* each of them is constructed: block 0 as the header, the others as data.
\* blocks_create_block grows the file, then constructs, then moves the last
\* descriptor.  The file is never more than one block longer.
FileLength ==
    \/ fileLen = UNDEF /\ last = UNDEF
    \/ fileLen \in {last + 1, last + 2}

BlocksConstructed ==
    \A b \in 0 .. last :
        IF b = 0 THEN page[b].type = "BLOCK_HEAD"
                 ELSE /\ page[b].dtype \in CellTypes
                      /\ page[b].type = BlockTypeOf(page[b].dtype)

AllocationSound == FileLength /\ BlocksConstructed

\* A meta cell that is in use describes an allocated block, and the block: the
\* type find_block_for_cell trusts is the type of the cells in the block, after
\* any crash.
MetaAgrees ==
    \A b \in Blocks : meta[b].stype # "CELL_UNDEF" =>
        /\ 0 < b /\ b <= last
        /\ meta[b].rbd = b
        /\ meta[b].stype = page[b].dtype

\* The blocks find_block_for_cell may choose for a cell of type t are mapped,
\* allocated and hold cells of type t, none is queued twice, and a queue keeps
\* its bound.
CandidatesSound ==
    \A t \in AllTypes :
        /\ Len(cand[t]) <= MaxCand
        /\ \A i \in 1 .. Len(cand[t]) :
              /\ cand[t][i] \in loaded \cup heads
              /\ cand[t][i] <= last
              /\ page[cand[t][i]].dtype = t
              /\ \A j \in 1 .. Len(cand[t]) : cand[t][i] = cand[t][j] => i = j

\* A client that uses each place before it asks for the next never gets more
\* cells of a block than the block has: free_cells and the live cells together
\* stay within the capacity, so free_cells does not wrap below zero.
LiveIn(b) == {d \in DOMAIN live : d.bd = b}

FreeAccounting ==
    \A b \in 1 .. last : page[b].type = "BLOCK_DATA_FIX" =>
        page[b].free + Cardinality(LiveIn(b)) <= Capacity(page[b].dtype)

\* ... and without deletes what it reads back from a cell inside its block is
\* what it stored there last, in this session and after any crash.
ReadBack ==
    \A d \in DOMAIN live : CellInBlock(d, live[d].size) =>
        /\ d \in DOMAIN cells
        /\ cells[d] = [val |-> live[d].val, size |-> live[d].size]

\* Between calls every block changed since its last sync is mapped and marked
\* dirty, so close_storage syncs it.  last_bl_desc and root_cl_desc are stored
\* without the mark: the steps after them set it.
CloseLosesNothing == Ready => unsynced \subseteq dirty \cap (loaded \cup heads)

\* What a step never takes back.
KeepsAllocated ==
    /\ last <= last'
    /\ \A b \in 0 .. last : page'[b].type = page[b].type /\ page'[b].dtype = page[b].dtype
    /\ \A b \in Blocks : meta[b].stype # "CELL_UNDEF" => meta'[b] = meta[b]
    /\ root # NoDesc => root' = root

\* Once allocated, a block keeps its type, a meta cell in use keeps its
\* contents, the last descriptor never goes back and the root cell, once set,
\* stays: across sessions and crashes.
StableAllocation == [][KeepsAllocated]_vars

\* Every call comes back, unless an access went wild: a find that has to create
\* a block does not start over or wait.
CallReturns == (pc # "idle") ~> (pc = "idle" \/ mode = "wild")
-------------------------------------------------------------------------------
(* BlockStore implements CellMap.                                          *)

\* What the client can read back: the cells it was told are inserted, inside
\* their blocks, with the bytes the file has for them.
Readable == {d \in DOMAIN live \cap DOMAIN cells : CellInBlock(d, live[d].size)}

Store == INSTANCE CellMap WITH
            Descs  <- [bd : Blocks, off : 0 .. BlockSize \div CellStep],
            Values <- AnyVal,
            held   <- [d \in Readable |-> cells[d].val]

\* To its client the storage is a map from descriptors to values: an insertion
\* happens when its block is accounted for, an update when its bytes are stored,
\* whatever else these calls do to blocks, meta cells and queues changes no cell,
\* and neither does a crash in the middle or the opening that follows it.
ImplementsCellMap == Store!MapSpec
-------------------------------------------------------------------------------
(* What comments of the code say, and the code does not do (see README).   *)

\* block_info_pub.c:249, when the queue of a type is not empty: "assume it
\* always contains some blocks with free space".
CandidateHasSpace ==
    Ready => \A t \in CellTypes : cand[t] # << >> =>
                 \E i \in 1 .. Len(cand[t]) : page[cand[t][i]].free > 0

\* block_info.c:106: "update block's corresponding meta-info in `block_header`".
MetaMirrorsState ==
    Ready => \A b \in Blocks : meta[b].stype # "CELL_UNDEF" => meta[b].free = page[b].free

\* block_info_pub.c:286: "cell place will be reserved there".
PlacesReserved ==
    \A g, h \in Handles :
        /\ g # h /\ place[g] # NoPlace /\ place[h] # NoPlace
        /\ place[g].bd = place[h].bd
        => ~Overlap(place[g].off, place[g].size, place[h].off, place[h].size)

\* cell_types.c:185: cells "are positioned sequentially", in a block whose
\* free_cells counts those that fit between its header and its end.
CellsInsideBlock == \A d \in DOMAIN live : CellInBlock(d, live[d].size)

\* storage.c:155: "all header blocks from storage are being loaded into memory"
\* when init_storage returns success.
InitLoadsHeaders == mode = "up" => heads # {}
===============================================================================
