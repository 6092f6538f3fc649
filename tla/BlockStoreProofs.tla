--------------------------- MODULE BlockStoreProofs ---------------------------
(***************************************************************************)
(* Proofs about BlockStore, for every value of its constants.              *)
(*                                                                         *)
(* The inductive invariant ties the label of a call to the state of the    *)
(* file: what has been grown, constructed and recorded at each step of     *)
(* blocks_create_block.  With it a crash at any label leaves AllocationSound*)
(* and MetaAgrees true, because neither speaks of the call.                *)
(***************************************************************************)
EXTENDS BlockStore, SequenceTheorems, TLAPS

\* What each label is reached for, and what the call knows by then.
CallOK ==
    /\ freeq = << >>
    /\ pc \in {"select", "construct", "setlast", "meta", "finish"}
          => job.for \in {"head", "root", "find"}
    /\ pc \in {"find", "place", "count"} => job.for \in {"root", "find"}
    /\ pc \in {"write", "account"} => job.for \in {"root", "insert", "update"}
    /\ pc # "idle" /\ job.for # "head" => job.t \in CellTypes
    /\ pc \notin {"idle", "select", "find"} => job.bd \in Blocks

\* A header block is in memory exactly when there is one and a session to hold it.
HeadsOK ==
    /\ mode = "down" => heads = {} /\ pc = "idle"
    /\ heads # {} => last # UNDEF
    /\ mode # "down" /\ heads = {} => last = UNDEF
    /\ page[0].type = "BLOCK_HEAD" <=> last # UNDEF

\* How far the creation of a block has come, label by label.
CreateOK ==
    /\ pc \in {"select", "find"} => LastDesc + 1 < MaxBlocks
    /\ job.for = "head" /\ pc \in {"select", "construct"} => last = UNDEF
    /\ job.for = "head" /\ pc \in {"setlast", "meta", "finish"}
          => last = 0 /\ job.bd = 0 /\ heads = {0}
    /\ job.for = "head" /\ pc \in {"setlast", "meta"} => page[0].free = GroupSize
    /\ pc = "construct" => job.bd = LastDesc + 1 /\ fileLen = job.bd + 1 /\ job.grown
    /\ pc = "setlast" => job.grown /\ fileLen = job.bd + 1
    /\ pc = "setlast" /\ job.for # "head" =>
          /\ job.bd = LastDesc + 1
          /\ page[job.bd].dtype \in CellTypes
          /\ page[job.bd].type = BlockTypeOf(page[job.bd].dtype)
    /\ pc \in {"meta", "count", "finish"} /\ job.for # "head" /\ heads # {}
          => 0 < job.bd /\ job.bd <= last
    /\ pc \in {"count", "finish"} => heads # {}

IInv == TypeOK /\ CallOK /\ HeadsOK /\ CreateOK /\ AllocationSound /\ MetaAgrees
-------------------------------------------------------------------------------
(* The operators the steps are built from.                                 *)

\* A quotient and a remainder by a positive number.
LEMMA DivMod ==
    ASSUME NEW m \in Int, NEW n \in Nat \ {0}
    PROVE  /\ m % n \in Nat /\ m % n < n
           /\ m >= 0 => m \div n \in Nat
           /\ m >= n => m \div n >= 1
<1>1. m \div n \in Int /\ m = (n * (m \div n)) + (m % n) /\ m % n \in 0 .. n - 1
    OBVIOUS
<1> QED BY <1>1

\* What a fresh block offers is a natural number, and a header block has room
\* for a meta cell.
LEMMA FreshBlock ==
    /\ GroupSize \in Nat \ {0}
    /\ \A t \in CellTypes : InitialFree(t) \in Nat
<1>1. GroupSize \in Nat \ {0}
    BY SizesAreNat, DivMod DEF GroupSize
<1>2. ASSUME NEW t \in FixTypes PROVE Capacity(t) \in Nat
    <2>1. FixSize[t] \in Nat \ {0}
        BY FixSizesAreNat
    <2>2. BlockSize - DataSize \in Int /\ BlockSize - DataSize >= 0
        BY SizesAreNat
    <2> QED BY <2>1, <2>2, DivMod DEF Capacity
<1>3. BlockSize - DataSize \in Nat
    BY SizesAreNat
<1> QED BY <1>1, <1>2, <1>3 DEF InitialFree, CellTypes

\* free_cells stays an unsigned int.
LEMMA FreeStaysNat ==
    ASSUME NEW free \in Nat, NEW t, NEW size \in Nat
    PROVE  Inserted(free, t, size) \in Nat /\ Deleted(free, t, size) \in Nat
<1>1. Need(t, size) \in Nat
    BY DEF Need
<1>2. free - Need(t, size) \in Int /\ free + Need(t, size) \in Int
    BY <1>1
<1> QED BY <1>2, StoreAssumptions, DivMod DEF Inserted, Deleted

\* Accounting for a cell changes neither the type of a block nor that of its cells.
LEMMA AccountIsPage ==
    ASSUME NEW p \in PageType, NEW free \in Nat, NEW size \in Nat
    PROVE  /\ Account(p, free, size) \in PageType
           /\ Account(p, free, size).type = p.type
           /\ Account(p, free, size).dtype = p.dtype
<1>1. p.start \in Int /\ UNDEF \in Int
    BY DEF PageType, UNDEF
<1>2. (IF free > 0 THEN p.start + size ELSE UNDEF) \in Int
    BY <1>1
<1> QED BY <1>2 DEF Account, PageType

\* A candidate queue stays a sequence of blocks.
LEMMA AppendedIsQueue ==
    ASSUME NEW q \in Seq(Blocks), NEW b \in Blocks, NEW free
    PROVE  Appended(q, b, free) \in Seq(Blocks)
<1>1. SubSeq(q, 1, Len(q) - 1) \in Seq(Blocks)
    BY SubSeqProperties, ElementOfSeq, LenProperties
<1>2. <<b>> \in Seq(Blocks)
    OBVIOUS
<1> QED BY <1>1, <1>2, ConcatProperties DEF Appended

\* The idle call has the type of a call, and no place is the empty place.
LEMMA NoJobIsJob ==
    /\ NoJob \in JobType
    /\ NoPlace \notin PlaceType
    /\ NoJob.for = "none" /\ NoJob.t = "CELL_UNDEF" /\ NoJob.bd = UNDEF
<1>1. (CHOOSE h \in Handles : TRUE) \in Handles
    BY StoreAssumptions
<1> QED BY <1>1 DEF NoJob, JobType, NoPlace, PlaceType, UNDEF, Blocks, AnyVal

\* What the invariant says of the variables, field by field.
LEMMA Fields ==
    ASSUME IInv
    PROVE  /\ last \in Int /\ -1 <= last /\ last < MaxBlocks
           /\ fileLen \in Int
           /\ heads = {} \/ heads = {0}
           /\ mode # "down" => LastDesc = last
           /\ freeq = << >>
           /\ \A b \in Blocks : /\ page[b] \in PageType
                                 /\ page[b].free \in Nat /\ page[b].dtype \in AnyType
                                 /\ meta[b] \in MetaType
           /\ job.bd \in Int /\ job.size \in Nat /\ job.off \in Int
           /\ 0 \in Blocks
<1> USE StoreAssumptions DEF IInv, TypeOK
<1>1. /\ last \in Int /\ -1 <= last /\ last < MaxBlocks /\ fileLen \in Int /\ 0 \in Blocks
    BY DEF FileType, Blocks, UNDEF
<1>2. (heads = {} \/ heads = {0}) /\ freeq = << >>
    BY DEF InfoType, CallOK
<1>3. mode # "down" => LastDesc = last
    BY <1>2 DEF HeadsOK, LastDesc
<1>4. ASSUME NEW b \in Blocks
      PROVE  /\ page[b] \in PageType /\ page[b].free \in Nat /\ page[b].dtype \in AnyType
             /\ meta[b] \in MetaType
    BY DEF FileType, PageType
<1>5. job.bd \in Int /\ job.size \in Nat /\ job.off \in Int
    BY DEF CallType, JobType, Blocks, UNDEF
<1> QED BY <1>1, <1>2, <1>3, <1>4, <1>5

\* A step that moves neither the length of the file, nor the last descriptor, a
\* meta cell or the type of a block leaves the allocation as it was.
LEMMA SameAllocation ==
    ASSUME IInv, UNCHANGED <<fileLen, last, meta>>,
           \A b \in Blocks : page'[b].type = page[b].type /\ page'[b].dtype = page[b].dtype
    PROVE  AllocationSound' /\ MetaAgrees'
<1>1. FileLength'
    BY DEF IInv, AllocationSound, FileLength
<1>2. BlocksConstructed'
    <2>1. 0 .. last \subseteq Blocks
        BY Fields, StoreAssumptions DEF Blocks
    <2> QED BY <2>1 DEF IInv, AllocationSound, BlocksConstructed
<1>3. MetaAgrees'
    BY DEF IInv, MetaAgrees
<1> QED BY <1>1, <1>2, <1>3 DEF AllocationSound

\* The end of a session, by close_storage, a crash or a failure, leaves the
\* file as it is and forgets the rest.
LEMMA SessionEnds == IInv /\ EndSession => IInv'
<1> SUFFICES ASSUME IInv, EndSession PROVE IInv'
    OBVIOUS
<1> USE StoreAssumptions DEF IInv, EndSession, file, bounds
<1>1. TypeOK'
    <2> USE DEF TypeOK
    <2>1. FileType'
        BY DEF FileType
    <2>2. CellsType'
        BY DEF CellsType
    <2>3. InfoType'
        BY EmptySeq DEF InfoType
    <2>4. CallType'
        BY NoJobIsJob DEF CallType
    <2>5. ClientType'
        BY DEF ClientType
    <2> QED BY <2>1, <2>2, <2>3, <2>4, <2>5
<1>2. CallOK' /\ HeadsOK' /\ CreateOK'
    BY NoJobIsJob DEF CallOK, HeadsOK, CreateOK
<1>3. AllocationSound' /\ MetaAgrees'
    BY SameAllocation
<1> QED BY <1>1, <1>2, <1>3

\* init_storage: what it finds in the file is what the last session left.
LEMMA OpenStep == IInv /\ Open => IInv'
<1> SUFFICES ASSUME IInv, Open PROVE IInv'
    OBVIOUS
<1> USE DEF IInv
<1>1. CASE OpenCreate
    <2> USE <1>1 DEF OpenCreate
    <2>1. last = UNDEF /\ last' = UNDEF /\ fileLen' = 0
        BY Fields DEF AllocationSound, FileLength, UNDEF
    <2>2. heads' = {} /\ page' = page /\ meta' = meta /\ freeq' = << >>
        BY DEF HeadsOK, CallOK, info
    <2>3. FileType' /\ CellsType'
        BY <2>1, StoreAssumptions DEF TypeOK, FileType, CellsType, UNDEF
    <2>4. InfoType' /\ ClientType'
        BY DEF TypeOK, InfoType, ClientType, info
    <2>5. job' \in JobType /\ job'.for = "head"
        BY NoJobIsJob DEF JobType
    <2>6. CallType' /\ CallOK'
        BY <2>2, <2>5 DEF CallType, CallOK
    <2>7. HeadsOK' /\ CreateOK'
        BY <2>1, <2>2, <2>5, StoreAssumptions DEF HeadsOK, CreateOK, LastDesc, UNDEF
    <2>8. AllocationSound' /\ MetaAgrees'
        BY <2>1, <2>2 DEF AllocationSound, FileLength, BlocksConstructed, MetaAgrees, UNDEF
    <2> QED BY <2>3, <2>4, <2>6, <2>7, <2>8 DEF TypeOK
<1>2. CASE OpenLoads
    <2> USE <1>2 DEF OpenLoads
    <2>1. TypeOK'
        BY DEF TypeOK, FileType, CellsType, InfoType, CallType, ClientType, file
    <2>2. CallOK' /\ HeadsOK' /\ CreateOK'
        BY DEF CallOK, HeadsOK, CreateOK, file
    <2>3. AllocationSound' /\ MetaAgrees'
        BY SameAllocation DEF file
    <2> QED BY <2>1, <2>2, <2>3
<1>3. CASE OpenBlank
    <2> USE <1>3 DEF OpenBlank
    <2>1. TypeOK'
        BY DEF TypeOK, FileType, CellsType, InfoType, CallType, ClientType, file, info
    <2>2. CallOK' /\ HeadsOK' /\ CreateOK'
        BY DEF CallOK, HeadsOK, CreateOK, file, info
    <2>3. AllocationSound' /\ MetaAgrees'
        BY SameAllocation DEF file
    <2> QED BY <2>1, <2>2, <2>3
<1>4. CASE OpenDies
    <2> USE <1>4 DEF OpenDies
    <2>1. TypeOK'
        BY DEF TypeOK, FileType, CellsType, InfoType, CallType, ClientType, file, info
    <2>2. CallOK' /\ HeadsOK' /\ CreateOK'
        BY DEF CallOK, HeadsOK, CreateOK, LastDesc, file, info
    <2>3. AllocationSound' /\ MetaAgrees'
        BY SameAllocation DEF file
    <2> QED BY <2>1, <2>2, <2>3
<1> QED BY <1>1, <1>2, <1>3, <1>4 DEF Open

\* The local variables of a call, with a block or an offset filled in.
LEMMA JobUpdates ==
    ASSUME job \in JobType
    PROVE  /\ \A b \in Blocks : /\ [job EXCEPT !.bd = b] \in JobType
                                 /\ [job EXCEPT !.bd = b, !.grown = TRUE] \in JobType
           /\ \A off \in Int : [job EXCEPT !.off = off] \in JobType
BY DEF JobType

\* A page that is constructed anew, and one whose state alone is stored.
LEMMA PageUpdates ==
    ASSUME IInv, NEW b \in Blocks, NEW p \in PageType, page' = [page EXCEPT ![b] = p]
    PROVE  /\ page' \in [Blocks -> PageType]
           /\ page'[b] = p
           /\ \A c \in Blocks \ {b} : page'[c] = page[c]
BY DEF IInv, TypeOK, FileType

\* Storing the state of one block keeps the pages typed and what they are for.
LEMMA StateStored ==
    ASSUME IInv, NEW b \in Blocks, NEW free \in Nat, NEW size \in Nat,
           page' = [page EXCEPT ![b] = Account(@, free, size)]
    PROVE  /\ page' \in [Blocks -> PageType]
           /\ \A c \in Blocks : page'[c].type = page[c].type /\ page'[c].dtype = page[c].dtype
           /\ \A c \in Blocks \ {b} : page'[c] = page[c]
<1>1. page[b] \in PageType
    BY Fields
<1>2. page' = [page EXCEPT ![b] = Account(page[b], free, size)]
    BY DEF IInv, TypeOK, FileType
<1>3. /\ Account(page[b], free, size) \in PageType
      /\ Account(page[b], free, size).type = page[b].type
      /\ Account(page[b], free, size).dtype = page[b].dtype
    BY <1>1, AccountIsPage
<1> QED BY <1>2, <1>3, PageUpdates

\* blocks_create_block grows the file by the block that follows the last one,
\* whether header 0 is in memory or the storage has none.
LEMMA CreateSelectStep == IInv /\ CreateSelect => IInv'
<1> SUFFICES ASSUME IInv, CreateSelect PROVE IInv'
    OBVIOUS
<1> USE DEF IInv, CreateSelect, At, Running
<1>1. NewDesc = last + 1 /\ LastDesc = last /\ fileLen' = last + 2 /\ freeq' = << >> /\ last \in Int
    BY Fields DEF NewDesc, GrownTo
<1>2. last + 1 \in Blocks
    BY <1>1, Fields, StoreAssumptions DEF CreateOK, Blocks
<1>3. job' = [job EXCEPT !.bd = last + 1, !.grown = TRUE]
    BY <1>1, Fields
<1>4. job \in JobType /\ job' \in JobType
    BY <1>2, <1>3, JobUpdates DEF TypeOK, CallType
<1>5. job'.bd = last + 1 /\ job'.grown /\ job'.for = job.for /\ job'.t = job.t
    BY <1>3, <1>4 DEF JobType
<1>6. FileType'
    <2>1. fileLen' \in 0 .. MaxBlocks
        <3> HIDE DEF IInv, CreateSelect
        <3> QED BY <1>1, <1>2, StoreAssumptions DEF Blocks
    <2> QED BY <2>1 DEF TypeOK, FileType
<1>7. CellsType' /\ InfoType' /\ CallType' /\ ClientType'
    BY <1>1, <1>4, Fields DEF TypeOK, CellsType, InfoType, CallType, ClientType, bounds
<1>8. CallOK'
    BY <1>1, <1>2, <1>5 DEF CallOK
<1>9. HeadsOK'
    BY DEF HeadsOK
<1>10. CreateOK'
    BY <1>1, <1>5, Fields DEF CreateOK, LastDesc
<1>11. AllocationSound' /\ MetaAgrees'
    BY <1>1, Fields DEF AllocationSound, FileLength, BlocksConstructed, MetaAgrees
<1> QED BY <1>6, <1>7, <1>8, <1>9, <1>10, <1>11 DEF TypeOK

\* Header block 0 is constructed: until now the storage had no block at all.
LEMMA CreateHeadStep == IInv /\ CreateHead => IInv'
<1> SUFFICES ASSUME IInv, CreateHead PROVE IInv'
    OBVIOUS
<1> USE DEF IInv, CreateHead, At, Running, Goto
<1>1. last = UNDEF /\ job.bd = 0 /\ fileLen = 1 /\ job.grown
    BY Fields DEF CreateOK, UNDEF
<1>2. last' = 0 /\ heads' = {0} /\ pc' = "setlast" /\ job' = job
    BY <1>1, Fields
<1> DEFINE p == [type |-> "BLOCK_HEAD", dtype |-> "CELL_BLOCK", free |-> GroupSize, start |-> HeadSize]
<1>3. p \in PageType
    BY FreshBlock, SizesAreNat DEF PageType, BlockTypes, AnyType, AllTypes
<1>4. page' \in [Blocks -> PageType] /\ page'[0] = p
    BY <1>1, <1>3, Fields, PageUpdates
<1>5. FileType' /\ CellsType'
    BY <1>2, <1>4, Fields DEF TypeOK, FileType, CellsType
<1>6. InfoType' /\ CallType' /\ ClientType'
    BY <1>1, <1>2, Fields DEF TypeOK, InfoType, CallType, ClientType, Dirtied, bounds
<1>7. CallOK' /\ HeadsOK' /\ CreateOK'
    BY <1>1, <1>2, <1>4, Fields DEF CallOK, HeadsOK, CreateOK, UNDEF
<1>8. AllocationSound'
    BY <1>1, <1>2, <1>4 DEF AllocationSound, FileLength, BlocksConstructed, UNDEF
<1>9. MetaAgrees'
    BY <1>1 DEF MetaAgrees, Blocks, UNDEF
<1> QED BY <1>5, <1>6, <1>7, <1>8, <1>9 DEF TypeOK

\* A data block is constructed after the last block, so no block that is
\* allocated changes.
LEMMA CreateDataStep == IInv /\ CreateData => IInv'
<1> SUFFICES ASSUME IInv, CreateData PROVE IInv'
    OBVIOUS
<1> USE DEF IInv, CreateData, At, Running, Goto, Return
<1>1. job.bd = last + 1 /\ job.bd = LastDesc + 1 /\ job.bd \in Blocks /\ fileLen = job.bd + 1 /\ job.grown
    BY Fields DEF CreateOK, CallOK
<1>2. job.t \in CellTypes /\ job.for # "head"
    BY DEF CallOK
<1> DEFINE p == [type |-> BlockTypeOf(job.t), dtype |-> job.t, free |-> InitialFree(job.t), start |-> DataSize]
<1>3. p \in PageType
    BY <1>2, FreshBlock, SizesAreNat DEF PageType, BlockTypes, BlockTypeOf, AnyType, AllTypes
<1>4. /\ page' \in [Blocks -> PageType] /\ page'[job.bd] = p
      /\ \A c \in Blocks \ {job.bd} : page'[c] = page[c]
    BY <1>1, <1>3, PageUpdates
<1>5. p.type # "BLOCK_HEAD"
    BY DEF BlockTypeOf
<1>6. FileType' /\ CellsType'
    BY <1>4 DEF TypeOK, FileType, CellsType
<1>7. InfoType' /\ CallType' /\ ClientType'
    BY <1>1, NoJobIsJob DEF TypeOK, InfoType, CallType, ClientType, Dirtied, Registered, bounds
<1>8. CallOK'
    BY <1>1, <1>2, NoJobIsJob DEF CallOK
<1>9. HeadsOK'
    <2>1. CASE job.bd = 0
        BY <1>1, <1>4, <1>5, <2>1, Fields DEF HeadsOK, UNDEF
    <2>2. CASE job.bd # 0
        BY <1>4, <2>2, Fields DEF HeadsOK
    <2> QED BY <2>1, <2>2
<1>10. CreateOK'
    BY <1>1, <1>2, <1>4, NoJobIsJob DEF CreateOK, LastDesc
<1>11. AllocationSound'
    BY <1>1, <1>4, Fields, StoreAssumptions DEF AllocationSound, FileLength, BlocksConstructed, Blocks
<1>12. MetaAgrees'
    BY <1>1, <1>4, Fields DEF MetaAgrees
<1> QED BY <1>6, <1>7, <1>8, <1>9, <1>10, <1>11, <1>12 DEF TypeOK

\* The last descriptor moves to a block that is constructed.
LEMMA CreateSetLastStep == IInv /\ CreateSetLast => IInv'
<1> SUFFICES ASSUME IInv, CreateSetLast PROVE IInv'
    OBVIOUS
<1> USE DEF IInv, CreateSetLast, At, Running, Goto
<1>1. job.bd \in Blocks /\ job.grown /\ fileLen = job.bd + 1
    BY DEF CallOK, CreateOK
<1>2. last' = IF heads = {} THEN last ELSE job.bd
    BY <1>1 DEF MovesLast
<1>3. /\ job.for = "head" => job.bd = last /\ last = 0 /\ heads = {0}
      /\ job.for # "head" => job.bd = last + 1
    BY Fields DEF CreateOK
<1>4. last' \in Blocks \cup {UNDEF} /\ last <= last' /\ (heads = {} => last = -1)
    BY <1>1, <1>2, <1>3, Fields DEF TypeOK, FileType, HeadsOK, Blocks, UNDEF
<1>5. FileType' /\ CellsType' /\ CallType' /\ ClientType'
    BY <1>4 DEF TypeOK, FileType, CellsType, CallType, ClientType, bounds
<1>12. InfoType'
    BY Fields DEF TypeOK, InfoType, info
<1>6. CallOK'
    BY DEF CallOK, info
<1>7. HeadsOK'
    BY <1>2, <1>3, Fields DEF HeadsOK, UNDEF, info
<1>8. CreateOK'
    BY <1>2, <1>3, Fields DEF CreateOK, HeadsOK, UNDEF, info
<1>9. FileLength'
    BY <1>1, <1>2, <1>3, <1>4, Fields DEF FileLength
<1>10. BlocksConstructed'
    BY <1>2, <1>3, Fields, StoreAssumptions DEF AllocationSound, BlocksConstructed, CreateOK, HeadsOK, UNDEF
<1>11. MetaAgrees'
    BY <1>4, Fields DEF MetaAgrees, Blocks
<1> QED BY <1>5, <1>12, <1>6, <1>7, <1>8, <1>9, <1>10, <1>11 DEF TypeOK, AllocationSound

\* storage_update_block_meta_info, for the header block.
LEMMA CreateMetaHeadStep == IInv /\ CreateMetaHead => IInv'
<1> SUFFICES ASSUME IInv, CreateMetaHead PROVE IInv'
    OBVIOUS
<1> USE DEF IInv, CreateMetaHead, At, Running, Goto
<1>1. job.bd = 0 /\ page[0].free = GroupSize /\ page[0] \in PageType /\ 0 \in Blocks
    BY Fields DEF CreateOK
<1> DEFINE p == [page[0] EXCEPT !.free = @ - 1, !.start = @ + CellBlockSize]
<1>2. page' = [page EXCEPT ![0] = p]
    BY <1>1 DEF TypeOK, FileType
<1>3. p \in PageType /\ p.type = page[0].type /\ p.dtype = page[0].dtype
    <2>1. page[0].free - 1 \in Nat
        BY <1>1, FreshBlock
    <2>2. page[0].start + CellBlockSize \in Int
        BY <1>1, SizesAreNat DEF PageType
    <2> QED BY <1>1, <2>1, <2>2 DEF PageType
<1> HIDE DEF p
<1>4. /\ page' \in [Blocks -> PageType]
      /\ \A c \in Blocks : page'[c].type = page[c].type /\ page'[c].dtype = page[c].dtype
    BY <1>1, <1>2, <1>3, PageUpdates
<1>5. FileType' /\ CellsType' /\ CallType' /\ ClientType'
    BY <1>4 DEF TypeOK, FileType, CellsType, CallType, ClientType, bounds
<1>6. InfoType'
    BY <1>1 DEF TypeOK, InfoType, Dirtied, info
<1>7. CallOK' /\ HeadsOK' /\ CreateOK'
    BY <1>1, <1>4 DEF CallOK, HeadsOK, CreateOK, info
<1>8. AllocationSound' /\ MetaAgrees'
    BY <1>4, SameAllocation
<1> QED BY <1>5, <1>6, <1>7, <1>8 DEF TypeOK

\* ... and for a data block: the meta cell is filled in from its page.
LEMMA CreateMetaDataStep == IInv /\ CreateMetaData => IInv'
<1> SUFFICES ASSUME IInv, CreateMetaData PROVE IInv'
    OBVIOUS
<1> USE DEF IInv, CreateMetaData, At, Running, Goto
<1>1. heads = {0} /\ job.bd \in Blocks /\ 0 < job.bd /\ job.bd <= last /\ job' = job
    BY Fields DEF MetaReachable, CallOK, CreateOK
<1> DEFINE m == [stype |-> page[job.bd].dtype, free |-> page[job.bd].free, rbd |-> job.bd]
<1>2. m \in MetaType
    BY <1>1, Fields DEF MetaType
<1>3. meta' = meta \/ meta' = [meta EXCEPT ![job.bd] = m]
    OBVIOUS
<1>4. /\ meta' \in [Blocks -> MetaType]
      /\ \A b \in Blocks : meta'[b] = meta[b] \/ (b = job.bd /\ meta'[b] = m)
    BY <1>2, <1>3 DEF TypeOK, FileType
<1>5. FileType' /\ CellsType' /\ CallType' /\ ClientType'
    BY <1>4 DEF TypeOK, FileType, CellsType, CallType, ClientType, bounds
<1>6. InfoType'
    BY <1>1, Fields DEF TypeOK, InfoType, Dirtied, info
<1>7. CallOK' /\ HeadsOK'
    BY <1>1 DEF CallOK, HeadsOK, info
<1>8. CreateOK'
    BY <1>1 DEF CreateOK, info
<1>9. AllocationSound'
    BY DEF AllocationSound, FileLength, BlocksConstructed
<1>10. MetaAgrees'
    BY <1>1, <1>4 DEF MetaAgrees
<1> QED BY <1>5, <1>6, <1>7, <1>8, <1>9, <1>10 DEF TypeOK

\* A step that stores the state of a block and moves the call on.
LEMMA StateStep ==
    ASSUME IInv, mode # "down",
           page' \in [Blocks -> PageType],
           \A c \in Blocks : page'[c].type = page[c].type /\ page'[c].dtype = page[c].dtype,
           \/ pc' = "idle" /\ job' = NoJob
           \/ pc' = "finish" /\ pc = "count" /\ job' = job
           \/ pc' = "setroot" /\ pc = "account" /\ job' = job,
           UNCHANGED <<fileLen, last, root, meta, mode, info>>
    PROVE  FileType' /\ CallType' /\ CallOK' /\ HeadsOK' /\ CreateOK' /\ AllocationSound' /\ MetaAgrees'
<1> USE DEF IInv
<1>1. FileType' /\ CallType'
    BY NoJobIsJob DEF TypeOK, FileType, CallType
<1>2. CallOK'
    BY NoJobIsJob DEF CallOK, info
<1>3. HeadsOK'
    BY Fields DEF HeadsOK, info
<1>4. CreateOK'
    BY NoJobIsJob DEF CallOK, CreateOK, info
<1>5. AllocationSound' /\ MetaAgrees'
    BY SameAllocation
<1> QED BY <1>1, <1>2, <1>3, <1>4, <1>5

\* The insertion of a meta cell is counted in the header's page.
LEMMA CreateCountStep == IInv /\ CreateCount => IInv'
<1> SUFFICES ASSUME IInv, CreateCount PROVE IInv'
    OBVIOUS
<1> USE DEF CreateCount, At, Running, Goto
<1>1. 0 \in Blocks /\ page[0].free \in Nat /\ (heads = {} \/ heads = {0})
    BY Fields
<1> DEFINE free == Inserted(page[0].free, "CELL_BLOCK", CellBlockSize)
<1>2. free \in Nat /\ CellBlockSize \in Nat
    BY <1>1, FreeStaysNat, SizesAreNat
<1>3. page' = [page EXCEPT ![0] = Account(@, free, CellBlockSize)]
    BY <1>1 DEF IInv, TypeOK, FileType
<1> HIDE DEF free
<1>4. /\ page' \in [Blocks -> PageType]
      /\ \A c \in Blocks : page'[c].type = page[c].type /\ page'[c].dtype = page[c].dtype
    BY <1>1, <1>2, <1>3, StateStored
<1>5. FileType' /\ CallType' /\ CallOK' /\ HeadsOK' /\ CreateOK' /\ AllocationSound' /\ MetaAgrees'
    BY <1>4, StateStep
<1>6. CellsType' /\ InfoType' /\ ClientType'
    BY <1>1 DEF IInv, TypeOK, CellsType, InfoType, ClientType, Dirtied, info, bounds
<1> QED BY <1>5, <1>6 DEF IInv, TypeOK

\* The block is ready: it becomes a candidate, and the call goes on.
LEMMA CreatedStep ==
    ASSUME IInv, Created, job.bd \in Blocks
    PROVE  InfoType'
<1>1. ASSUME NEW t \in AllTypes, NEW free
      PROVE  Appended(cand[t], job.bd, free) \in Seq(Blocks)
    BY AppendedIsQueue DEF IInv, TypeOK, InfoType
<1>2. cand' \in [AllTypes -> Seq(Blocks)]
    BY <1>1 DEF IInv, TypeOK, InfoType, Created
<1> QED BY <1>2 DEF IInv, TypeOK, InfoType, Created

\* Header block 0 is done: the root cell's block is next.
LEMMA CreateHeadDoneStep == IInv /\ CreateHeadDone => IInv'
<1> SUFFICES ASSUME IInv, CreateHeadDone PROVE IInv'
    OBVIOUS
<1> USE DEF IInv, CreateHeadDone, At, Running
<1>1. /\ job.bd \in Blocks /\ last = 0 /\ heads = {0}
      /\ heads' = heads /\ mode' = mode /\ freeq' = freeq /\ pc' = "find"
      /\ UNCHANGED <<file, cells, place, live, bounds>>
    BY DEF CallOK, CreateOK, Created
<1>2. FixSize[RootType] \in Nat /\ RootType \in CellTypes
    BY FixSizesAreNat, StoreAssumptions DEF CellTypes
<1>3. job' \in JobType /\ job'.for = "root" /\ job'.t = RootType
    BY <1>2, NoJobIsJob DEF JobType
<1>4. FileType' /\ CellsType' /\ CallType' /\ ClientType'
    BY <1>1, <1>3 DEF TypeOK, FileType, CellsType, CallType, ClientType, file, bounds
<1>5. InfoType'
    BY <1>1, CreatedStep
<1>6. CallOK' /\ HeadsOK'
    BY <1>1, <1>2, <1>3 DEF CallOK, HeadsOK, file
<1>7. CreateOK'
    BY <1>1, <1>3, StoreAssumptions DEF CreateOK, LastDesc, file
<1>8. AllocationSound' /\ MetaAgrees'
    BY <1>1, SameAllocation DEF file
<1> QED BY <1>4, <1>5, <1>6, <1>7, <1>8 DEF TypeOK

\* A data block is done: the call goes on to look for the place in it.
LEMMA CreateDataDoneStep == IInv /\ CreateDataDone => IInv'
<1> SUFFICES ASSUME IInv, CreateDataDone PROVE IInv'
    OBVIOUS
<1> USE DEF IInv, CreateDataDone, At, Running, Goto
<1>1. /\ job.bd \in Blocks
      /\ heads' = heads /\ mode' = mode /\ freeq' = freeq /\ pc' = "place" /\ job' = job
      /\ UNCHANGED <<file, cells, place, live, bounds>>
    BY DEF CallOK, Created
<1>2. FileType' /\ CellsType' /\ CallType' /\ ClientType'
    BY <1>1 DEF TypeOK, FileType, CellsType, CallType, ClientType, file, bounds
<1>3. InfoType'
    BY <1>1, CreatedStep
<1>4. CallOK' /\ HeadsOK' /\ CreateOK'
    BY <1>1 DEF CallOK, HeadsOK, CreateOK, file
<1>5. AllocationSound' /\ MetaAgrees'
    BY <1>1, SameAllocation DEF file
<1> QED BY <1>2, <1>3, <1>4, <1>5 DEF TypeOK

\* ftruncate fails in a find: the call is over, and nothing has changed.
LEMMA TruncFailsInFindStep == IInv /\ TruncFailsInFind => IInv'
<1> SUFFICES ASSUME IInv, TruncFailsInFind PROVE IInv'
    OBVIOUS
<1> USE DEF IInv, TruncFailsInFind, At, Running, Return
<1>1. TypeOK'
    BY NoJobIsJob DEF TypeOK, FileType, CellsType, InfoType, CallType, ClientType, file, info, bounds
<1>2. CallOK' /\ HeadsOK' /\ CreateOK'
    BY NoJobIsJob DEF CallOK, HeadsOK, CreateOK, file, info
<1>3. AllocationSound' /\ MetaAgrees'
    BY SameAllocation DEF file
<1> QED BY <1>1, <1>2, <1>3

\* blocks_create_block: every step of it keeps the invariant.
LEMMA CreateStep == IInv /\ Create => IInv'
<1>1. TruncFailsInInit => EndSession
    BY DEF TruncFailsInInit
<1> QED
    BY <1>1, SessionEnds, CreateSelectStep, TruncFailsInFindStep, CreateHeadStep, CreateDataStep,
       CreateSetLastStep, CreateMetaHeadStep, CreateMetaDataStep, CreateCountStep,
       CreateHeadDoneStep, CreateDataDoneStep
    DEF Create

\* A step of a call that leaves the file alone.
LEMMA FileAlone ==
    ASSUME IInv, mode \in {"init", "up"}, mode' \in {"init", "up"}, UNCHANGED <<file, heads>>
    PROVE  FileType' /\ HeadsOK' /\ AllocationSound' /\ MetaAgrees'
<1>1. FileType' /\ HeadsOK'
    BY DEF IInv, TypeOK, FileType, HeadsOK, file
<1>2. AllocationSound' /\ MetaAgrees'
    BY SameAllocation DEF file
<1> QED BY <1>1, <1>2

\* ... and ends it: with nothing in progress little is left to show.
LEMMA CallEnds ==
    ASSUME IInv, Return, UNCHANGED freeq
    PROVE  CallType' /\ CallOK' /\ CreateOK'
BY NoJobIsJob DEF IInv, Return, TypeOK, CallType, CallOK, CreateOK

\* storage_find_new_cell_place: every step of it keeps the invariant.
LEMMA FindStep == IInv /\ Find => IInv'
<1> SUFFICES ASSUME IInv, Find PROVE IInv'
    OBVIOUS
<1> USE DEF At, Running
<1>1. /\ mode \in {"init", "up"} /\ mode' = mode /\ UNCHANGED <<file, heads, freeq, cand, cells, live, bounds>>
      /\ dirty' = dirty /\ unsynced' = unsynced
    BY DEF Find, FindHint, FindCreate, FindCandidate, FindNone, PlaceFound, PlaceForRoot, PlaceNone,
           info, Goto, Return
<1>2. job \in JobType /\ (pc \in {"find", "place"} => job.t \in CellTypes /\ job.for \in {"root", "find"})
    BY DEF IInv, TypeOK, CallType, CallOK
<1>3. pc = "place" => job.bd \in Blocks /\ page[job.bd].start \in Int
    BY Fields DEF IInv, CallOK, PageType
<1>4. FileType' /\ CellsType' /\ HeadsOK' /\ AllocationSound' /\ MetaAgrees'
    BY <1>1, FileAlone DEF IInv, TypeOK, CellsType
<1>5. loaded' = loaded \/ (pc = "place" /\ loaded' = loaded \cup {job.bd})
    BY DEF Find, FindHint, FindCreate, FindCandidate, FindNone, PlaceFound, PlaceForRoot, PlaceNone, info
<1>6. InfoType'
    BY <1>1, <1>3, <1>5 DEF IInv, TypeOK, InfoType
<1>7. ClientType'
    <2>1. CASE PlaceFound
        <3>1. [bd |-> job.bd, off |-> page[job.bd].start, t |-> job.t, size |-> job.size] \in PlaceType
            BY <1>2, <1>3, <2>1, Fields DEF PlaceFound, PlaceType
        <3> QED BY <1>1, <2>1, <3>1 DEF IInv, TypeOK, ClientType, PlaceFound, bounds
    <2>2. CASE ~PlaceFound
        BY <1>1, <2>2 DEF Find, FindHint, FindCreate, FindCandidate, FindNone, PlaceForRoot, PlaceNone,
                          IInv, TypeOK, ClientType, bounds
    <2> QED BY <2>1, <2>2
<1> SUFFICES CallType' /\ CallOK' /\ CreateOK'
    BY <1>4, <1>6, <1>7 DEF IInv, TypeOK
<1>8. ASSUME NEW b \in Blocks, pc = "find", pc' = "place", job' = [job EXCEPT !.bd = b]
      PROVE  CallType' /\ CallOK' /\ CreateOK'
    <2>1. job' \in JobType /\ job'.bd = b /\ job'.for = job.for /\ job'.t = job.t
        BY <1>2, <1>8, JobUpdates DEF JobType
    <2> QED BY <1>1, <1>2, <1>8, <2>1 DEF IInv, CallType, CallOK, CreateOK
<1>9. CASE FindHint
    <2>1. job.hint \in Blocks
        BY <1>2, <1>9 DEF FindHint, HintFits, JobType
    <2> QED BY <1>8, <1>9, <2>1 DEF FindHint
<1>10. CASE FindCandidate
    <2>1. PICK i \in Fitting : job' = [job EXCEPT !.bd = cand[job.t][i]]
        BY <1>10 DEF FindCandidate
    <2>2. pc = "find" /\ pc' = "place"
        BY <1>10 DEF FindCandidate
    <2>3. cand[job.t] \in Seq(Blocks)
        BY <1>2, <2>2 DEF IInv, TypeOK, InfoType, AllTypes
    <2>4. cand[job.t][i] \in Blocks
        BY <2>1, <2>3, ElementOfSeq DEF Fitting
    <2> QED BY <1>8, <2>1, <2>2, <2>4
<1>11. CASE FindCreate
    BY <1>1, <1>2, <1>11, Fields DEF FindCreate, Goto, IInv, CallType, CallOK, CreateOK, LastDesc, file
<1>12. CASE FindNone
    BY <1>1, <1>12, CallEnds DEF FindNone
<1>13. CASE PlaceFound
    BY <1>1, <1>13, CallEnds DEF PlaceFound
<1>14. CASE PlaceForRoot
    <2>1. job' = [job EXCEPT !.off = page[job.bd].start] /\ pc = "place" /\ pc' = "write" /\ job.for = "root"
        BY <1>14 DEF PlaceForRoot
    <2>2. job' \in JobType /\ job'.bd = job.bd /\ job'.for = job.for /\ job'.t = job.t
        BY <1>2, <1>3, <2>1, JobUpdates DEF JobType
    <2> QED BY <1>1, <1>2, <1>3, <2>1, <2>2 DEF IInv, CallType, CallOK, CreateOK
<1>15. CASE PlaceNone
    BY <1>1, <1>15, CallEnds DEF PlaceNone
<1> QED BY <1>9, <1>10, <1>11, <1>12, <1>13, <1>14, <1>15 DEF Find

\* The cell the call works on is a cell of some block.
LEMMA JobFields ==
    ASSUME IInv, pc \in {"write", "account", "setroot", "touch", "wipe", "forget"}
    PROVE  /\ job \in JobType /\ job.bd \in Blocks /\ JobDesc \in Desc
           /\ job.size \in Nat /\ job.val \in AnyVal
           /\ job.for # "head" => job.t \in CellTypes
<1>1. job \in JobType /\ job.bd \in Blocks /\ (job.for # "head" => job.t \in CellTypes)
    BY DEF IInv, TypeOK, CallType, CallOK
<1> QED BY <1>1 DEF JobType, JobDesc, Desc

\* The memcpy of insert_cell and the store of an update.
LEMMA WriteCellStep == IInv /\ WriteCell => IInv'
<1> SUFFICES ASSUME IInv, WriteCell PROVE IInv'
    OBVIOUS
<1> USE DEF IInv, WriteCell, At, Running, Goto
<1>1. /\ job.bd \in Blocks /\ JobDesc \in Desc /\ job.size \in Nat /\ job.val \in AnyVal
      /\ mode \in {"init", "up"} /\ mode' = mode /\ job' = job
      /\ UNCHANGED <<file, info, dirty, place, bounds>>
    BY JobFields
<1>2. FileType' /\ HeadsOK' /\ AllocationSound' /\ MetaAgrees'
    BY <1>1, FileAlone DEF info
<1>3. CellsType'
    <2> DEFINE new == [val |-> job.val, size |-> job.size]
    <2>1. cells' = [e \in Untouched(JobDesc, job.size) \cup {JobDesc} |-> IF e = JobDesc THEN new ELSE cells[e]]
        OBVIOUS
    <2>2. new \in [val : AnyVal, size : Nat]
        BY <1>1
    <2>3. Untouched(JobDesc, job.size) \subseteq DOMAIN cells
        BY DEF Untouched
    <2> HIDE DEF new
    <2> QED BY <1>1, <2>1, <2>2, <2>3 DEF TypeOK, CellsType
<1>4. InfoType'
    BY <1>1 DEF TypeOK, InfoType, info
<1>5. ClientType'
    <2>1. live' = live \/ live' = [live EXCEPT ![JobDesc].val = job.val]
        OBVIOUS
    <2>2. DOMAIN live' = DOMAIN live
        BY <2>1
    <2>3. ASSUME NEW d \in DOMAIN live PROVE live'[d] \in [t : CellTypes, val : AnyVal, size : Nat]
        BY <1>1, <2>1 DEF TypeOK, ClientType
    <2> QED BY <1>1, <2>2, <2>3 DEF TypeOK, ClientType, bounds
<1>6. CallType' /\ CallOK' /\ CreateOK'
    BY <1>1 DEF TypeOK, CallType, CallOK, CreateOK, info
<1> QED BY <1>2, <1>3, <1>4, <1>5, <1>6 DEF TypeOK

\* delete_cell zeroes the cell.
LEMMA WipeCellStep == IInv /\ WipeCell => IInv'
<1> SUFFICES ASSUME IInv, WipeCell PROVE IInv'
    OBVIOUS
<1> USE DEF IInv, WipeCell, At, Running, Goto
<1>1. /\ job.bd \in Blocks /\ mode \in {"init", "up"} /\ mode' = mode /\ job' = job
      /\ UNCHANGED <<file, info, dirty, place, live, bounds>>
    BY JobFields
<1>2. FileType' /\ HeadsOK' /\ AllocationSound' /\ MetaAgrees'
    BY <1>1, FileAlone DEF info
<1>3. CellsType'
    BY DEF Untouched, TypeOK, CellsType
<1>4. InfoType' /\ ClientType'
    BY <1>1 DEF TypeOK, InfoType, ClientType, info, bounds
<1>5. CallType' /\ CallOK' /\ CreateOK'
    BY <1>1 DEF TypeOK, CallType, CallOK, CreateOK, info
<1> QED BY <1>2, <1>3, <1>4, <1>5 DEF TypeOK

\* storage_update_block_meta_info_by_cell_operation, for CL_INSERT and CL_DELETE.
LEMMA InsertAccountStep == IInv /\ InsertAccount => IInv'
<1> SUFFICES ASSUME IInv, InsertAccount PROVE IInv'
    OBVIOUS
<1> USE DEF InsertAccount, At, Running, Goto, Return
<1>1. job.bd \in Blocks /\ page[job.bd].free \in Nat /\ job.size \in Nat
    BY Fields, JobFields
<1>2. heads \subseteq Blocks /\ JobDesc \in Desc /\ job.val \in AnyVal /\ (job.for # "head" => job.t \in CellTypes)
    BY Fields, JobFields
<1> DEFINE free == Inserted(page[job.bd].free, job.t, job.size)
<1>3. free \in Nat
    BY <1>1, FreeStaysNat
<1>4. page' = [page EXCEPT ![job.bd] = Account(@, free, job.size)]
    BY <1>1 DEF IInv, TypeOK, FileType
<1> HIDE DEF free
<1>5. /\ page' \in [Blocks -> PageType]
      /\ \A c \in Blocks : page'[c].type = page[c].type /\ page'[c].dtype = page[c].dtype
    <2> HIDE DEF InsertAccount
    <2> QED BY <1>1, <1>3, <1>4, StateStored
<1>6. FileType' /\ CallType' /\ CallOK' /\ HeadsOK' /\ CreateOK' /\ AllocationSound' /\ MetaAgrees'
    BY <1>5, StateStep
<1>7. CellsType' /\ InfoType'
    BY <1>1, <1>2 DEF IInv, TypeOK, CellsType, InfoType, Dirtied, info
<1>8. ClientType'
    <2> DEFINE new == [t |-> job.t, val |-> job.val, size |-> job.size]
    <2>1. live' = [e \in DOMAIN live \cup {JobDesc} |-> IF e = JobDesc THEN new ELSE live[e]]
        OBVIOUS
    <2>2. job.for # "head"
        BY DEF IInv, CallOK
    <2>3. new \in [t : CellTypes, val : AnyVal, size : Nat]
        BY <1>1, <1>2, <2>2
    <2> HIDE DEF new
    <2> QED BY <1>2, <2>1, <2>3 DEF IInv, TypeOK, ClientType, bounds
<1> QED BY <1>6, <1>7, <1>8 DEF IInv, TypeOK

\* The state of the block after a deletion.
LEMMA DeleteAccountStep == IInv /\ DeleteAccount => IInv'
<1> SUFFICES ASSUME IInv, DeleteAccount PROVE IInv'
    OBVIOUS
<1> USE DEF DeleteAccount, At, Running, Return
<1>1. /\ job.bd \in Blocks /\ page[job.bd].free \in Nat /\ DeletedSize \in Nat
    BY Fields, JobFields, SizesAreNat DEF DeletedSize
<1>2. heads \subseteq Blocks
    BY Fields
<1> DEFINE free == Deleted(page[job.bd].free, job.t, DeletedSize)
<1>3. free \in Nat
    BY <1>1, FreeStaysNat
<1>4. page' = [page EXCEPT ![job.bd] = Account(@, free, DeletedSize)]
    BY <1>1 DEF IInv, TypeOK, FileType
<1> HIDE DEF free
<1>5. /\ page' \in [Blocks -> PageType]
      /\ \A c \in Blocks : page'[c].type = page[c].type /\ page'[c].dtype = page[c].dtype
    BY <1>1, <1>3, <1>4, StateStored
<1>6. FileType' /\ CallType' /\ CallOK' /\ HeadsOK' /\ CreateOK' /\ AllocationSound' /\ MetaAgrees'
    BY <1>5, StateStep
<1>7. CellsType' /\ InfoType' /\ ClientType'
    BY <1>1, <1>2 DEF IInv, TypeOK, CellsType, InfoType, ClientType, Dirtied, info, bounds
<1> QED BY <1>6, <1>7 DEF IInv, TypeOK

\* storage_set_root_cell: the root cell is a cell, and the storage is open.
LEMMA SetRootStep == IInv /\ SetRoot => IInv'
<1> SUFFICES ASSUME IInv, SetRoot PROVE IInv'
    OBVIOUS
<1> USE DEF SetRoot, At, Running
<1>1. JobDesc \in Desc /\ (heads = {} \/ heads = {0}) /\ 0 \in Blocks
    BY Fields, JobFields
<1>2. FileType' /\ HeadsOK'
    BY <1>1 DEF IInv, TypeOK, FileType, HeadsOK, info
<1>3. CellsType' /\ InfoType' /\ ClientType'
    BY <1>1 DEF IInv, TypeOK, CellsType, InfoType, ClientType, info, bounds
<1>4. CallType' /\ CallOK' /\ CreateOK'
    BY CallEnds DEF info
<1>5. AllocationSound' /\ MetaAgrees'
    BY SameAllocation
<1> QED BY <1>2, <1>3, <1>4, <1>5 DEF IInv, TypeOK

\* An update changes no state of the block.
LEMMA UpdateTouchStep == IInv /\ UpdateTouch => IInv'
<1> SUFFICES ASSUME IInv, UpdateTouch PROVE IInv'
    OBVIOUS
<1> USE DEF UpdateTouch, At, Running
<1>1. job.bd \in Blocks /\ heads \subseteq Blocks
    BY Fields, JobFields
<1>2. FileType' /\ HeadsOK' /\ AllocationSound' /\ MetaAgrees'
    BY FileAlone DEF info
<1>3. CellsType' /\ InfoType' /\ ClientType'
    BY <1>1 DEF IInv, TypeOK, CellsType, InfoType, ClientType, Dirtied, info, bounds
<1>4. CallType' /\ CallOK' /\ CreateOK'
    BY CallEnds DEF info
<1> QED BY <1>2, <1>3, <1>4 DEF IInv, TypeOK

\* insert_cell, update_cell and delete_cell, once they are called.
LEMMA CellStepIsSafe == IInv /\ Cell => IInv'
BY WriteCellStep, InsertAccountStep, SetRootStep, UpdateTouchStep, WipeCellStep, DeleteAccountStep DEF Cell

\* An access that goes wild is the last thing known of the storage.
LEMMA StrayWildStep == IInv /\ StrayWild => IInv'
<1> SUFFICES ASSUME IInv, StrayWild PROVE IInv'
    OBVIOUS
<1> USE DEF StrayWild, Running
<1>1. TypeOK'
    BY DEF IInv, TypeOK, FileType, CellsType, InfoType, CallType, ClientType, file, info, bounds
<1>2. CallOK' /\ HeadsOK' /\ CreateOK'
    BY DEF IInv, CallOK, HeadsOK, CreateOK, LastDesc, file, info
<1>3. AllocationSound' /\ MetaAgrees'
    BY SameAllocation DEF file
<1> QED BY <1>1, <1>2, <1>3 DEF IInv

\* The client asks for places, uses them, and updates and deletes cells.
LEMMA SizesAreSizes ==
    ASSUME NEW t \in CellTypes, NEW size \in SizesOf(t)
    PROVE  size \in Nat
BY SizesAreNat, FixSizesAreNat, StoreAssumptions DEF SizesOf, CellTypes

\* The client asks for a place.
LEMMA FindStartStep ==
    ASSUME IInv, NEW h \in Handles, NEW t \in CellTypes, NEW size \in SizesOf(t),
           NEW hint \in {UNDEF} \cup {d.bd : d \in DOMAIN live}, FindStart(h, t, size, hint)
    PROVE  IInv'
<1> USE DEF FindStart, Ready
<1>1. hint \in Blocks \cup {UNDEF}
    BY DEF IInv, TypeOK, ClientType, Desc
<1>2. job' \in JobType /\ job'.for = "find" /\ job'.t = t
    BY <1>1, SizesAreSizes, NoJobIsJob DEF JobType
<1>3. FileType' /\ HeadsOK' /\ AllocationSound' /\ MetaAgrees'
    BY FileAlone DEF info
<1>4. CellsType' /\ InfoType' /\ CallType' /\ ClientType'
    BY <1>2 DEF IInv, TypeOK, CellsType, InfoType, CallType, ClientType, info, bounds
<1>5. CallOK' /\ CreateOK'
    BY <1>2 DEF IInv, CallOK, CreateOK, LastDesc, file, info
<1> QED BY <1>3, <1>4, <1>5 DEF IInv, TypeOK

\* The client inserts a cell at a place it was given.
LEMMA InsertStartStep ==
    ASSUME IInv, NEW h \in Handles, NEW v \in Vals, InsertStart(h, v)
    PROVE  IInv'
<1> USE DEF InsertStart, Ready
<1>1. place[h] \in PlaceType
    BY DEF IInv, TypeOK, ClientType
<1>2. job' \in JobType /\ job'.for = "insert" /\ job'.t \in CellTypes /\ job'.bd \in Blocks
    BY <1>1, NoJobIsJob DEF JobType, PlaceType, AnyVal
<1>3. FileType' /\ HeadsOK' /\ AllocationSound' /\ MetaAgrees'
    BY FileAlone DEF info
<1>4. CellsType' /\ InfoType' /\ CallType'
    BY <1>2 DEF IInv, TypeOK, CellsType, InfoType, CallType, info
<1>5. ClientType'
    BY DEF IInv, TypeOK, ClientType
<1>6. CallOK' /\ CreateOK'
    BY <1>2 DEF IInv, CallOK, CreateOK, info
<1> QED BY <1>3, <1>4, <1>5, <1>6 DEF IInv, TypeOK

\* The call that updates or deletes a live cell.
LEMMA JobForIsJob ==
    ASSUME IInv, NEW d \in DOMAIN live, NEW v \in AnyVal, NEW what \in {"update", "delete"}
    PROVE  /\ JobFor(what, d, v) \in JobType
           /\ JobFor(what, d, v).for = what
           /\ JobFor(what, d, v).t \in CellTypes
           /\ JobFor(what, d, v).bd = d.bd /\ d.bd \in Blocks
<1>1. d.bd \in Blocks /\ d.off \in Int /\ live[d] \in [t : CellTypes, val : AnyVal, size : Nat]
    BY DEF IInv, TypeOK, ClientType, Desc
<1> QED BY <1>1, NoJobIsJob DEF JobFor, JobType

\* The client updates a cell.
LEMMA UpdateStartStep ==
    ASSUME IInv, NEW d \in DOMAIN live, NEW v \in Vals, UpdateStart(d, v)
    PROVE  IInv'
<1> USE DEF UpdateStart, Ready
<1>1. job' \in JobType /\ job'.for = "update" /\ job'.t \in CellTypes /\ job'.bd \in Blocks /\ d.bd \in Blocks
    BY JobForIsJob DEF AnyVal
<1>2. FileType' /\ HeadsOK' /\ AllocationSound' /\ MetaAgrees'
    BY FileAlone
<1>3. CellsType' /\ InfoType' /\ CallType' /\ ClientType'
    BY <1>1 DEF IInv, TypeOK, CellsType, InfoType, CallType, ClientType
<1>4. CallOK' /\ CreateOK'
    BY <1>1 DEF IInv, CallOK, CreateOK
<1> QED BY <1>2, <1>3, <1>4 DEF IInv, TypeOK

\* The client deletes a cell.
LEMMA DeleteStartStep ==
    ASSUME IInv, NEW d \in DOMAIN live, DeleteStart(d)
    PROVE  IInv'
<1> USE DEF DeleteStart, Ready
<1>1. job' \in JobType /\ job'.for = "delete" /\ job'.t \in CellTypes /\ job'.bd \in Blocks /\ d.bd \in Blocks
    BY JobForIsJob DEF AnyVal
<1>2. FileType' /\ HeadsOK' /\ AllocationSound' /\ MetaAgrees'
    BY FileAlone
<1>3. CellsType' /\ InfoType' /\ CallType' /\ ClientType'
    BY <1>1 DEF IInv, TypeOK, CellsType, InfoType, CallType, ClientType
<1>4. CallOK' /\ CreateOK'
    BY <1>1 DEF IInv, CallOK, CreateOK
<1> QED BY <1>2, <1>3, <1>4 DEF IInv, TypeOK

\* Whatever the client calls.
LEMMA ClientStep == IInv /\ Client => IInv'
BY FindStartStep, InsertStartStep, UpdateStartStep, DeleteStartStep, SessionEnds DEF Client, Close

\* Nothing happens.
LEMMA StutterStep == IInv /\ UNCHANGED vars => IInv'
<1> SUFFICES ASSUME IInv, UNCHANGED vars PROVE IInv'
    OBVIOUS
<1> USE DEF vars, file, info, bounds
<1>1. TypeOK'
    BY DEF IInv, TypeOK, FileType, CellsType, InfoType, CallType, ClientType
<1>2. CallOK' /\ HeadsOK' /\ CreateOK'
    BY DEF IInv, CallOK, HeadsOK, CreateOK, LastDesc
<1>3. AllocationSound' /\ MetaAgrees'
    BY SameAllocation
<1> QED BY <1>1, <1>2, <1>3 DEF IInv
-------------------------------------------------------------------------------
(* The inductive invariant, and what follows from it.                      *)

\* Before there is a file.
LEMMA InitIsSafe == Init => IInv
<1> SUFFICES ASSUME Init PROVE IInv
    OBVIOUS
<1> USE StoreAssumptions DEF Init
<1>1. BlankPage \in PageType /\ BlankMeta \in MetaType
    BY DEF BlankPage, BlankMeta, PageType, MetaType, BlockTypes, AnyType, Blocks
<1>2. FileType /\ CellsType
    BY <1>1 DEF FileType, CellsType, UNDEF
<1>3. InfoType /\ CallType /\ ClientType
    BY NoJobIsJob, EmptySeq DEF InfoType, CallType, ClientType
<1>4. page[0].type = "BLOCK_UNDEF" /\ \A b \in Blocks : meta[b].stype = "CELL_UNDEF"
    BY DEF BlankPage, BlankMeta, Blocks
<1>5. CallOK /\ HeadsOK /\ CreateOK
    BY <1>4, NoJobIsJob DEF CallOK, HeadsOK, CreateOK, UNDEF
<1>6. AllocationSound /\ MetaAgrees
    BY <1>4 DEF AllocationSound, FileLength, BlocksConstructed, MetaAgrees, UNDEF
<1> QED BY <1>2, <1>3, <1>5, <1>6 DEF IInv, TypeOK

\* Every step keeps the invariant.
LEMMA NextIsSafe == IInv /\ [Next]_vars => IInv'
<1>1. Library => Create \/ Find \/ Cell \/ EndSession \/ StrayWild
    BY DEF Library, StraySignal
<1>2. Crash => EndSession
    BY DEF Crash
<1> QED
    BY <1>1, <1>2, OpenStep, CreateStep, FindStep, CellStepIsSafe, SessionEnds, StrayWildStep, ClientStep, StutterStep
    DEF Next

\* IInv holds in every reachable state: a call at any label, and a file that any
\* number of crashes has left behind.
THEOREM Inductive == Spec => []IInv
BY InitIsSafe, NextIsSafe, PTL DEF Spec

\* Every variable keeps its type; in particular no counter of a page or a meta
\* cell is ever negative, and the file never outgrows MaxBlocks.
THEOREM TypeCorrect == Spec => []TypeOK
BY Inductive, PTL DEF IInv

\* However the process dies, every block up to last_bl_desc is in the file and
\* constructed (blocks_create_block's order of ftruncate, construct_block and
\* storage_set_last_bl_desc).
THEOREM AllocationIsSound == Spec => []AllocationSound
BY Inductive, PTL DEF IInv

\* However the process dies, a meta cell in use is the meta cell of an allocated
\* block and names the type of the cells that are in it, as find_block_for_cell
\* assumes.
THEOREM MetaIsRight == Spec => []MetaAgrees
BY Inductive, PTL DEF IInv
-------------------------------------------------------------------------------
(* The root cell is set once: create_open_storage runs only for a storage  *)
(* that has no header block, and then no root cell either.                 *)

RootOK ==
    /\ last = UNDEF => root = NoDesc
    /\ job.for \in {"head", "root"} => root = NoDesc
    /\ job.for = "root" => heads # {}
    /\ pc = "setroot" => job.for = "root"

\* Before there is a file there is no root cell.
LEMMA RootInit == Init => RootOK
BY NoJobIsJob DEF Init, RootOK

\* create_open_storage sets the root cell once, while the storage has none.
LEMMA RootStep == IInv /\ RootOK /\ [Next]_vars => RootOK'
<1> SUFFICES ASSUME IInv, RootOK, [Next]_vars PROVE RootOK'
    OBVIOUS
<1> USE DEF RootOK, At, Goto, Return, Ready
<1>1. CASE OpenCreate
    <2>1. last = UNDEF
        BY <1>1, Fields DEF OpenCreate, IInv, AllocationSound, FileLength, UNDEF
    <2> QED BY <1>1, <2>1, NoJobIsJob DEF OpenCreate
<1>2. CASE OpenLoads \/ OpenBlank \/ OpenDies
    BY <1>2 DEF OpenLoads, OpenBlank, OpenDies, file, info
<1>3. CASE CreateSelect
    <2>1. job' = [job EXCEPT !.bd = NewDesc, !.grown = (freeq = << >>)] /\ job \in JobType
        BY <1>3 DEF CreateSelect, IInv, TypeOK, CallType
    <2>2. job'.for = job.for
        BY <2>1 DEF JobType
    <2> QED BY <1>3, <2>2 DEF CreateSelect
<1>4. CASE TruncFailsInFind \/ CreateHead \/ CreateData \/ CreateMetaHead \/ CreateMetaData \/ CreateCount
    BY <1>4, NoJobIsJob DEF TruncFailsInFind, CreateHead, CreateData, CreateMetaHead, CreateMetaData, CreateCount, file, info
<1>5. CASE CreateSetLast
    <2>1. last # UNDEF => last' # UNDEF
        BY <1>5, Fields DEF CreateSetLast, IInv, CallOK, Blocks, UNDEF
    <2> QED BY <1>5, <2>1 DEF CreateSetLast, info
<1>6. CASE CreateHeadDone
    <2>1. job'.for = "root" /\ UNCHANGED <<last, root, heads>> /\ root = NoDesc /\ heads # {}
        BY <1>6, NoJobIsJob DEF CreateHeadDone, Created, file, JobType, IInv, CreateOK
    <2> QED BY <1>6, <2>1, Fields DEF CreateHeadDone
<1>7. CASE CreateDataDone
    BY <1>7 DEF CreateDataDone, Created, file, info
<1>8. CASE FindHint \/ FindCandidate \/ PlaceForRoot
    <2>1. job \in JobType
        BY DEF IInv, TypeOK, CallType
    <2>2. job'.for = job.for
        BY <1>8, <2>1 DEF FindHint, FindCandidate, PlaceForRoot, JobType
    <2>3. pc' # "setroot" /\ UNCHANGED <<last, root, heads>>
        BY <1>8 DEF FindHint, FindCandidate, PlaceForRoot, file, info
    <2> QED BY <2>2, <2>3
<1>9. CASE FindCreate \/ FindNone \/ PlaceFound \/ PlaceNone
    BY <1>9, NoJobIsJob DEF FindCreate, FindNone, PlaceFound, PlaceNone, file, info
<1>10. CASE WriteCell \/ UpdateTouch \/ WipeCell \/ DeleteAccount \/ StrayWild
    BY <1>10, NoJobIsJob DEF WriteCell, UpdateTouch, WipeCell, DeleteAccount, StrayWild, file, info
<1>11. CASE InsertAccount
    BY <1>11, NoJobIsJob DEF InsertAccount, info
<1>12. CASE SetRoot
    <2>1. last # UNDEF
        BY <1>12 DEF SetRoot, IInv, HeadsOK
    <2> QED BY <1>12, <2>1, NoJobIsJob DEF SetRoot
<1>13. CASE Client /\ ~Close
    <2>1. UNCHANGED <<last, root, heads>>
        BY <1>13 DEF Client, FindStart, InsertStart, UpdateStart, DeleteStart, file, info
    <2>2. job'.for \in {"find", "insert", "update", "delete"} /\ pc' # "setroot"
        <3>1. ASSUME NEW h \in Handles, NEW t \in CellTypes, NEW size, NEW hint,
                     FindStart(h, t, size, hint)
              PROVE  job'.for = "find" /\ pc' # "setroot"
            BY <3>1, NoJobIsJob DEF FindStart, JobType
        <3>2. ASSUME NEW h \in Handles, NEW v \in Vals, InsertStart(h, v)
              PROVE  job'.for = "insert" /\ pc' # "setroot"
            BY <3>2, NoJobIsJob DEF InsertStart, JobType
        <3>3. ASSUME NEW d \in DOMAIN live, NEW v \in Vals, UpdateStart(d, v)
              PROVE  job'.for = "update" /\ pc' # "setroot"
            BY <3>3, NoJobIsJob DEF UpdateStart, JobFor, JobType
        <3>4. ASSUME NEW d \in DOMAIN live, DeleteStart(d)
              PROVE  job'.for = "delete" /\ pc' # "setroot"
            BY <3>4, NoJobIsJob DEF DeleteStart, JobFor, JobType
        <3> QED BY <1>13, <3>1, <3>2, <3>3, <3>4 DEF Client
    <2> QED BY <2>1, <2>2
<1>14. CASE EndSession
    BY <1>14, NoJobIsJob DEF EndSession, file
<1>15. CASE UNCHANGED vars
    BY <1>15 DEF vars, file, info
<1> QED
    BY <1>1, <1>2, <1>3, <1>4, <1>5, <1>6, <1>7, <1>8, <1>9, <1>10, <1>11, <1>12, <1>13, <1>14, <1>15
    DEF Next, Open, Library, Create, Find, Cell, TruncFailsInInit, StraySignal, Close, Crash

\* The root cell's invariant holds in every state.
LEMMA RootInductive == Spec => []RootOK
BY Inductive, RootInit, RootStep, PTL DEF Spec
-------------------------------------------------------------------------------
(* What is allocated stays allocated.                                      *)

\* A step that stores states, or nothing at all, in the file.
LEMMA KeepsIfStill ==
    ASSUME IInv, UNCHANGED <<last, meta, root>>,
           \A b \in Blocks : page'[b].type = page[b].type /\ page'[b].dtype = page[b].dtype
    PROVE  KeepsAllocated
<1>1. 0 .. last \subseteq Blocks /\ last <= last'
    BY Fields, StoreAssumptions DEF Blocks
<1> QED BY <1>1 DEF KeepsAllocated

\* No step takes back what it or an earlier one has allocated.
LEMMA KeepsStep == IInv /\ RootOK /\ [Next]_vars => KeepsAllocated
<1> SUFFICES ASSUME IInv, RootOK, [Next]_vars PROVE KeepsAllocated
    OBVIOUS
<1> USE DEF At, Running
<1>1. CASE CreateHead
    <2>1. last = -1 /\ last' = 0 /\ meta' = meta /\ root = NoDesc
        BY <1>1, Fields DEF CreateHead, IInv, CreateOK, RootOK, UNDEF
    <2> QED BY <2>1 DEF KeepsAllocated
<1>2. CASE CreateData
    <2>1. /\ job.bd = last + 1 /\ UNCHANGED <<last, meta, root>>
          /\ \E p : page' = [page EXCEPT ![job.bd] = p]
        BY <1>2, Fields DEF CreateData, IInv, CreateOK
    <2>2. \A b \in 0 .. last : page'[b] = page[b]
        BY <2>1, Fields, StoreAssumptions DEF IInv, TypeOK, FileType, Blocks
    <2> QED BY <2>1, <2>2, Fields DEF KeepsAllocated
<1>3. CASE CreateSetLast
    <2>1. last <= last' /\ UNCHANGED <<page, meta, root>>
        BY <1>3, Fields DEF CreateSetLast, MovesLast, IInv, CallOK, CreateOK
    <2> QED BY <2>1 DEF KeepsAllocated
<1>4. CASE CreateMetaHead
    <2>1. UNCHANGED <<last, meta, root>> /\ job.bd \in Blocks /\ page \in [Blocks -> PageType]
        BY <1>4 DEF CreateMetaHead, IInv, CallOK, TypeOK, FileType
    <2>2. page' = [page EXCEPT ![job.bd].free = @ - 1, ![job.bd].start = @ + CellBlockSize]
        BY <1>4 DEF CreateMetaHead
    <2>3. \A b \in Blocks : page'[b].type = page[b].type /\ page'[b].dtype = page[b].dtype
        BY <2>1, <2>2 DEF PageType
    <2> QED BY <2>1, <2>3, KeepsIfStill
<1>5. CASE CreateMetaData
    <2>1. UNCHANGED <<last, page, root>> /\ \A b \in Blocks : meta[b].stype # "CELL_UNDEF" => meta'[b] = meta[b]
        BY <1>5 DEF CreateMetaData, IInv, TypeOK, FileType
    <2> QED BY <2>1, Fields DEF KeepsAllocated
<1>6. CASE CreateCount \/ InsertAccount \/ DeleteAccount
    <2>1. page \in [Blocks -> PageType]
        BY DEF IInv, TypeOK, FileType
    <2>2. \A c \in Blocks : page'[c].type = page[c].type /\ page'[c].dtype = page[c].dtype
        <3>1. ASSUME NEW p \in PageType, NEW free, NEW size
              PROVE  Account(p, free, size).type = p.type /\ Account(p, free, size).dtype = p.dtype
            BY DEF Account, PageType
        <3>2. CASE CreateCount
            BY <2>1, <3>1, <3>2 DEF CreateCount
        <3>3. CASE InsertAccount
            BY <2>1, <3>1, <3>3 DEF InsertAccount
        <3>4. CASE DeleteAccount
            BY <2>1, <3>1, <3>4 DEF DeleteAccount
        <3> QED BY <1>6, <3>2, <3>3, <3>4
    <2>3. UNCHANGED <<last, meta, root>>
        BY <1>6 DEF CreateCount, InsertAccount, DeleteAccount
    <2> QED BY <2>2, <2>3, KeepsIfStill
<1>7. CASE SetRoot
    <2>1. root = NoDesc /\ UNCHANGED <<last, page, meta>>
        BY <1>7 DEF SetRoot, RootOK
    <2> QED BY <2>1, Fields DEF KeepsAllocated
<1>8. CASE UNCHANGED <<last, page, meta, root>>
    BY <1>8, KeepsIfStill
<1>9. CASE Open \/ Find \/ Client \/ Crash \/ StraySignal \/ StrayWild
    <2>1. UNCHANGED <<last, page, meta, root>>
        BY <1>9 DEF Open, OpenCreate, OpenLoads, OpenBlank, OpenDies, Find, FindHint, FindCreate, FindCandidate,
                    FindNone, PlaceFound, PlaceForRoot, PlaceNone, Client, FindStart, InsertStart, UpdateStart,
                    DeleteStart, Close, Crash, StraySignal, StrayWild, EndSession, file
    <2> QED BY <1>8, <2>1
<1>10. CASE CreateSelect \/ TruncFailsInFind \/ TruncFailsInInit \/ CreateHeadDone \/ CreateDataDone
            \/ WriteCell \/ UpdateTouch \/ WipeCell \/ UNCHANGED vars
    <2>1. UNCHANGED <<last, page, meta, root>>
        BY <1>10 DEF CreateSelect, TruncFailsInFind, TruncFailsInInit, CreateHeadDone, CreateDataDone, Created,
                     WriteCell, UpdateTouch, WipeCell, EndSession, vars, file
    <2> QED BY <1>8, <2>1
<1> QED
    BY <1>1, <1>2, <1>3, <1>4, <1>5, <1>6, <1>7, <1>9, <1>10 DEF Next, Library, Create, Cell

\* What blocks_create_block and create_open_storage have put into the file is
\* there for good: the last descriptor never goes back, no block changes its
\* type, no meta cell in use and no root cell is written again, in this session
\* or after any crash.
THEOREM AllocationIsStable == Spec => StableAllocation
BY Inductive, RootInductive, KeepsStep, PTL DEF Spec, StableAllocation
===============================================================================
