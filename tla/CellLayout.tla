------------------------------ MODULE CellLayout ------------------------------
(***************************************************************************)
(* Where a block keeps its cells.  Sizes and offsets only, no state: the   *)
(* sizeof arithmetic of cells/cell_types.c, the address computed by        *)
(* cells_get_cell_ptr and the header-group arithmetic of                   *)
(* blocks/block_info.c.  The sizes are constants; BuildFixSize in          *)
(* MCBlockStore and MCRealSizes.cfg give the ones of a 64-bit build.       *)
(***************************************************************************)
EXTENDS Integers

CONSTANTS
    BlockSize,      \* bytes of a block and of its mapping
    HeadSize,       \* sizeof(struct block_header)
    DataSize,       \* sizeof(struct block_data_fix) = sizeof(struct block_data_dyn)
    CellBlockSize,  \* sizeof(struct cell_block): a meta cell of the header block
    CellStep,       \* sizeof(struct cell_common): what one step of a cell
                    \* descriptor's offset moves the address by
    FixTypes,       \* cell types of fixed size a client stores
    FixSize,        \* ... and the size of each
    DynTypes,       \* cell types of variable size (CELL_STRING)
    StrHeadSize     \* sizeof(struct cell_string): a string without its characters

CellTypes == FixTypes \cup DynTypes

ASSUME SizesAreNat ==
    /\ BlockSize \in Nat /\ HeadSize \in Nat /\ DataSize \in Nat
    /\ CellBlockSize \in Nat \ {0} /\ CellStep \in Nat \ {0}
    /\ StrHeadSize \in Nat \ {0}
    /\ HeadSize + CellBlockSize <= BlockSize
    /\ DataSize <= BlockSize

ASSUME TypesAreApart ==
    /\ FixTypes \cap DynTypes = {}
    /\ "CELL_UNDEF" \notin CellTypes
    /\ "CELL_BLOCK" \notin CellTypes

ASSUME FixSizesAreNat == FixSize \in [FixTypes -> Nat \ {0}]

\* A block holds one cell of any fixed size at least.
ASSUME CellsFit == \A t \in FixTypes : DataSize + FixSize[t] <= BlockSize
-------------------------------------------------------------------------------
BlockTypes == {"BLOCK_UNDEF", "BLOCK_HEAD", "BLOCK_DATA_FIX", "BLOCK_DATA_DYN"}

BlockTypeOf(t) == IF t \in DynTypes THEN "BLOCK_DATA_DYN" ELSE "BLOCK_DATA_FIX"

HeaderSize(bt) == CASE bt = "BLOCK_HEAD"  -> HeadSize
                    [] bt = "BLOCK_UNDEF" -> 0
                    [] OTHER              -> DataSize

\* What construct_block writes into state.free_cells: cells for a block of
\* fixed-size cells, bytes for a block of strings.
Capacity(t)   == (BlockSize - DataSize) \div FixSize[t]
InitialFree(t) == IF t \in DynTypes THEN BlockSize - DataSize ELSE Capacity(t)

\* How much of free_cells a cell of the given size needs.
Need(t, size) == IF t \in DynTypes THEN size ELSE 1
-------------------------------------------------------------------------------
(* Header groups: the header block at a multiple of GroupSize describes    *)
(* the blocks that follow it.                                              *)

GroupSize        == (BlockSize - HeadSize) \div CellBlockSize
PosInGroup(b)    == b % GroupSize
HeaderOf(b)      == b - PosInGroup(b)
-------------------------------------------------------------------------------
(* Addresses, counted from the first byte of the block.  The code adds the *)
(* offset to a `struct cell_common*', so it moves CellStep bytes a unit.   *)

Address(bt, off)       == HeaderSize(bt) + CellStep * off
InBlock(bt, off, size) == /\ 0 <= Address(bt, off)
                          /\ Address(bt, off) + size <= BlockSize

\* Two cells of one block share a byte.
Overlap(off1, size1, off2, size2) ==
    /\ CellStep * off1 < CellStep * off2 + size2
    /\ CellStep * off2 < CellStep * off1 + size1

\* The meta cell of block b is inside the first header block's page.
MetaInHeader(b) == /\ HeaderOf(b) = 0
                   /\ InBlock("BLOCK_HEAD", CellBlockSize * PosInGroup(b), CellBlockSize)
===============================================================================
