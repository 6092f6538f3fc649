----------------------------- MODULE StoreMapProofs -----------------------------
(***************************************************************************)
(* Proofs that a client of BlockStore that uses each place before it asks  *)
(* for the next (OneHandle) and deletes nothing (NoDeletes) reads back     *)
(* what it has stored, and that to this client the storage is the map of   *)
(* CellMap.                                                                *)
(***************************************************************************)
EXTENDS StoreCellsProofs

\* A client that deletes no cell.
NoDeletes == MaxDeletes = 0

\* Places are where new_cell_start points, and cells have a size.
StartOK ==
    /\ \A b \in 1 .. last : page[b].start \in Nat \cup {UNDEF}
    /\ \A h \in Handles : place[h] # NoPlace =>
          place[h].off = page[place[h].bd].start /\ place[h].off # UNDEF /\ place[h].size > 0
    /\ Inserting => job.off = page[job.bd].start /\ job.off # UNDEF
    /\ job.for \in {"root", "find", "insert", "update"} => job.size > 0

\* The cells of a block lie in a row, before new_cell_start.
RowOK ==
    /\ \A d \in DOMAIN live :
          /\ d.off \in Nat /\ live[d].size > 0
          /\ page[d.bd].start # UNDEF => d.off + live[d].size <= page[d.bd].start
    /\ \A d, e \in DOMAIN live :
          d.bd = e.bd /\ d # e => ~Overlap(d.off, live[d].size, e.off, live[e].size)

\* Their bytes are what the client stored, and those of the cell it is told of
\* next are there before it is told.
StoredOK ==
    /\ pc = "account" => JobDesc \in DOMAIN cells /\ cells[JobDesc] = [val |-> job.val, size |-> job.size]
    /\ pc = "write" /\ job.for = "update" => JobDesc \in DOMAIN live /\ live[JobDesc].size = job.size
    /\ pc \notin {"wipe", "forget"}
    /\ ReadBack

LayoutInv == WaitOK /\ MakeOK /\ StartOK /\ RowOK /\ StoredOK
-------------------------------------------------------------------------------
(* Cells in a row.                                                         *)

\* Cells that lie one after the other in units of CellStep bytes share no byte.
LEMMA Apart ==
    ASSUME NEW o1 \in Nat, NEW s1 \in Nat, NEW o2 \in Nat, NEW s2 \in Nat, o1 + s1 <= o2
    PROVE  ~Overlap(o1, s1, o2, s2) /\ ~Overlap(o2, s2, o1, s1)
<1>1. CellStep \in Nat /\ CellStep >= 1
    BY SizesAreNat
<1> DEFINE gap == o2 - o1
<1>2. gap \in Nat /\ s1 <= gap /\ o2 = o1 + gap
    OBVIOUS
<1> HIDE DEF gap
<1>3. CellStep * o2 = CellStep * o1 + CellStep * gap /\ CellStep * gap >= gap
    BY <1>1, <1>2
<1>4. CellStep * o1 \in Int /\ CellStep * o2 \in Int /\ CellStep * gap \in Int
    BY <1>1, <1>2
<1>5. CellStep * o2 >= CellStep * o1 + s1
    BY <1>2, <1>3, <1>4
<1> QED BY <1>4, <1>5 DEF Overlap

\* With nothing deleted, no call deletes.
LEMMA NothingDeleted ==
    ASSUME NoDeletes, IInv, [Next]_vars, pc \notin {"wipe", "forget"}
    PROVE  /\ pc' \notin {"wipe", "forget"} /\ ~DeleteAccount /\ ~WipeCell
           /\ DOMAIN live \subseteq DOMAIN live'
<1>1. \A d \in DOMAIN live : ~DeleteStart(d)
    BY DEF DeleteStart, NoDeletes, IInv, TypeOK, ClientType
<1>2. ~DeleteAccount /\ ~WipeCell
    BY DEF DeleteAccount, WipeCell, At
<1> QED BY <1>1, <1>2, LiveDomains

\* An insertion moves new_cell_start on by the size of the cell, or to nowhere.
LEMMA InsertionMoves ==
    ASSUME IInv, WhereOK, StartOK, InsertAccount
    PROVE  /\ job.bd \in 1 .. last /\ job.off \in Nat /\ job.size \in Nat /\ job.size > 0
           /\ page[job.bd].start = job.off
           /\ page'[job.bd].start \in {job.off + job.size, UNDEF}
<1>1. job.bd \in 1 .. last /\ Inserting
    BY DEF InsertAccount, At, WhereOK, JobOK, Works, IInv, CallOK, Inserting
<1>2. job.off \in Nat /\ page[job.bd].start = job.off /\ job.size \in Nat /\ job.size > 0
    BY <1>1, Fields DEF StartOK, Inserting
<1>3. job.bd \in Blocks /\ page \in [Blocks -> PageType] /\ page[job.bd] \in PageType
    BY <1>1, Fields, StoreAssumptions DEF Blocks, IInv, TypeOK, FileType
<1>4. page' = [page EXCEPT ![job.bd] = Account(@, Inserted(@.free, job.t, job.size), job.size)]
    BY DEF InsertAccount
<1>5. page'[job.bd] = Account(page[job.bd], Inserted(page[job.bd].free, job.t, job.size), job.size)
    BY <1>3, <1>4
<1>6. page'[job.bd].start \in {page[job.bd].start + job.size, UNDEF}
    BY <1>3, <1>5, AccountFields
<1> QED BY <1>1, <1>2, <1>6

\* Only an insertion moves new_cell_start of an allocated block.
LEMMA StartsStay ==
    ASSUME IInv, [Next]_vars, ~DeleteAccount, NEW b \in 1 .. last
    PROVE  page'[b] = page[b] \/ (InsertAccount /\ b = job.bd)
BY PageCases

\* What a step does to the size of the cell a call is for.
LEMMA SizeCases ==
    IInv /\ [Next]_vars =>
        \/ job'.for \in {"none", "head"}
        \/ job'.for = job.for /\ job'.size = job.size
        \/ CreateHeadDone \/ Client
<1> SUFFICES ASSUME IInv, [Next]_vars
             PROVE  \/ job'.for \in {"none", "head"}
                    \/ job'.for = job.for /\ job'.size = job.size
                    \/ CreateHeadDone \/ Client
    OBVIOUS
<1>1. NoJob.for = "none" /\ job \in JobType
    BY NoJobIsJob DEF IInv, TypeOK, CallType
<1>2. CASE CreateSelect
    BY <1>1, <1>2 DEF CreateSelect, JobType
<1>3. CASE FindHint
    BY <1>1, <1>3 DEF FindHint, JobType
<1>4. CASE FindCandidate
    BY <1>1, <1>4 DEF FindCandidate, JobType
<1>5. CASE PlaceForRoot
    BY <1>1, <1>5 DEF PlaceForRoot, JobType
<1>6. CASE Create /\ ~CreateSelect /\ ~CreateHeadDone
    <2>1. job' \in {job, NoJob}
        BY <1>6 DEF Create, TruncFailsInFind, TruncFailsInInit, EndSession, CreateHead, CreateData, CreateSetLast,
                    CreateMetaHead, CreateMetaData, CreateCount, CreateDataDone, Goto, Return
    <2> QED BY <1>1, <2>1
<1>7. CASE FindCreate \/ FindNone \/ PlaceFound \/ PlaceNone \/ Cell \/ EndSession \/ StrayWild \/ UNCHANGED vars
    <2>1. job' \in {job, NoJob}
        BY <1>7 DEF FindCreate, FindNone, PlaceFound, PlaceNone, Cell, WriteCell, InsertAccount, SetRoot,
                    UpdateTouch, WipeCell, DeleteAccount, EndSession, StrayWild, Goto, Return, vars
    <2> QED BY <1>1, <2>1
<1>8. CASE OpenCreate
    BY <1>8, NewJobs DEF OpenCreate
<1>9. CASE OpenLoads \/ OpenBlank \/ OpenDies
    BY <1>9 DEF OpenLoads, OpenBlank, OpenDies
<1> QED BY <1>2, <1>3, <1>4, <1>5, <1>6, <1>7, <1>8, <1>9 DEF Next, Open, Library, Find, StraySignal, Crash

\* Every call for a cell is for one that has bytes.
LEMMA SizeStep ==
    IInv /\ StartOK /\ RowOK /\ [Next]_vars =>
        (job'.for \in {"root", "find", "insert", "update"} => job'.size > 0)
<1> SUFFICES ASSUME IInv, StartOK, RowOK, [Next]_vars, job'.for \in {"root", "find", "insert", "update"}
             PROVE  job'.size > 0
    OBVIOUS
<1>1. CASE CreateHeadDone
    <2>1. job'.size = FixSize[RootType]
        BY <1>1 DEF CreateHeadDone, NoJob
    <2> QED BY <2>1, FixSizesAreNat, StoreAssumptions
<1>2. ASSUME NEW h \in Handles, NEW t \in CellTypes, NEW size \in SizesOf(t), NEW hint, FindStart(h, t, size, hint)
      PROVE  job'.size > 0
    <2>1. job'.size = size
        BY <1>2 DEF FindStart, NoJob
    <2>2. size > 0
        <3>1. CASE t \in DynTypes
            <4>1. PICK l \in StrLens : size = StrHeadSize + l
                BY <3>1 DEF SizesOf
            <4> QED BY <4>1, SizesAreNat, StoreAssumptions
        <3>2. CASE t \notin DynTypes
            <4>1. size = FixSize[t] /\ t \in FixTypes
                BY <3>2 DEF SizesOf, CellTypes
            <4> QED BY <4>1, FixSizesAreNat
        <3> QED BY <3>1, <3>2
    <2> QED BY <2>1, <2>2
<1>3. ASSUME NEW h \in Handles, NEW v \in Vals, InsertStart(h, v) PROVE job'.size > 0
    <2>1. job'.size = place[h].size /\ place[h] # NoPlace
        BY <1>3 DEF InsertStart, NoJob
    <2> QED BY <2>1 DEF StartOK
<1>4. ASSUME NEW d \in DOMAIN live, NEW v \in Vals, UpdateStart(d, v) PROVE job'.size > 0
    <2>1. job'.size = live[d].size
        BY <1>4 DEF UpdateStart, JobFor, NoJob
    <2> QED BY <2>1 DEF RowOK
<1>5. ASSUME NEW d \in DOMAIN live, DeleteStart(d) PROVE FALSE
    <2>1. job'.for = "delete"
        BY <1>5, JobForIsJob DEF DeleteStart, AnyVal
    <2> QED BY <2>1
<1>6. CASE Close
    <2>1. job'.for = "none"
        BY <1>6, NoJobIsJob DEF Close, EndSession
    <2> QED BY <2>1
<1>7. CASE job'.for = job.for /\ job'.size = job.size
    BY <1>7 DEF StartOK
<1> QED BY <1>1, <1>2, <1>3, <1>4, <1>5, <1>6, <1>7, SizeCases DEF Client

\* Every place is where new_cell_start points, and stays so until it is used.
LEMMA StartStep ==
    /\ NoDeletes /\ IInv /\ IInv' /\ KeepsAllocated /\ WhereOK /\ LayoutInv /\ [Next]_vars
    => StartOK'
<1> SUFFICES ASSUME NoDeletes, IInv, IInv', KeepsAllocated, WhereOK, LayoutInv, [Next]_vars PROVE StartOK'
    OBVIOUS
<1>1. ~DeleteAccount /\ StartOK /\ WaitOK /\ MakeOK /\ RowOK
    BY NothingDeleted DEF LayoutInv, StoredOK
<1>2. ASSUME NEW b \in 1 .. last' PROVE page'[b].start \in Nat \cup {UNDEF}
    <2>1. CASE b \notin 1 .. last
        <3>1. CreateSetLast /\ b = job.bd /\ job.for # "head" /\ page' = page
            BY <2>1, NewBlock
        <3>2. page'[b].start = DataSize
            BY <1>1, <3>1 DEF CreateSetLast, At, MakeOK
        <3> QED BY <3>2, SizesAreNat
    <2>2. CASE b \in 1 .. last /\ page'[b] = page[b]
        BY <1>1, <2>2 DEF StartOK
    <2>3. CASE InsertAccount /\ b = job.bd
        <3>1. job.off \in Nat /\ job.size \in Nat /\ page'[b].start \in {job.off + job.size, UNDEF}
            BY <1>1, <2>3, InsertionMoves
        <3> QED BY <3>1
    <2> QED BY <1>1, <2>1, <2>2, <2>3, StartsStay
<1>3. ASSUME NEW h \in Handles, place'[h] # NoPlace
      PROVE  /\ place'[h].off = page'[place'[h].bd].start
             /\ place'[h].off # UNDEF /\ place'[h].size > 0
    <2>1. CASE place'[h] = place[h]
        <3>1. /\ place[h].bd \in 1 .. last /\ place[h].off = page[place[h].bd].start
              /\ place[h].off # UNDEF /\ place[h].size > 0
            BY <1>1, <1>3, <2>1 DEF WhereOK, PlaceOK, StartOK
        <3>2. ~InsertAccount
            BY <1>1, <1>3, <2>1 DEF WaitOK, Held, InsertAccount, At, IInv, CallOK, WhereOK, JobOK
        <3>3. page'[place[h].bd] = page[place[h].bd]
            BY <1>1, <3>1, <3>2, StartsStay
        <3> QED BY <2>1, <3>1, <3>3
    <2>2. CASE PlaceFound /\ place'[h] = FoundPlace
        <3>1. /\ place'[h].off = page[job.bd].start /\ place'[h].bd = job.bd /\ place'[h].size = job.size
              /\ page' = page /\ page[job.bd].start # UNDEF /\ job.for = "find"
            BY <2>2 DEF PlaceFound, FoundPlace, At, file
        <3> QED BY <1>1, <3>1 DEF StartOK
    <2> QED BY <1>3, <2>1, <2>2, PlaceCases
<1>4. ASSUME Inserting' PROVE job'.off = page'[job'.bd].start /\ job'.off # UNDEF
    <2>1. CASE Inserting /\ job'.bd = job.bd /\ job'.off = job.off /\ page' = page
        BY <1>1, <2>1 DEF StartOK
    <2>2. CASE PlaceForRoot /\ job'.bd = job.bd /\ job'.off = page[job.bd].start /\ page' = page
        BY <2>2 DEF PlaceForRoot
    <2>3. ASSUME NEW h \in Handles, place[h] # NoPlace, job'.bd = place[h].bd, job'.off = place[h].off, page' = page
          PROVE  job'.off = page'[job'.bd].start /\ job'.off # UNDEF
        BY <1>1, <2>3 DEF StartOK
    <2> QED BY <1>4, <2>1, <2>2, <2>3, InsertingCases
<1>5. job'.for \in {"root", "find", "insert", "update"} => job'.size > 0
    BY <1>1, SizeStep
<1> QED BY <1>2, <1>3, <1>4, <1>5 DEF StartOK

\* A cell the client had, after the step.
LEMMA OldCell ==
    ASSUME IInv, WhereOK, StartOK, RowOK, [Next]_vars, ~DeleteAccount,
           NEW d \in DOMAIN live, d \in DOMAIN live', live'[d].size = live[d].size
    PROVE  /\ d.off \in Nat /\ live[d].size \in Nat /\ live'[d].size > 0
           /\ page'[d.bd].start # UNDEF => d.off + live'[d].size <= page'[d.bd].start
           /\ InsertAccount /\ d.bd = job.bd => d.off + live[d].size <= job.off /\ d # JobDesc
<1>1. /\ d.off \in Nat /\ live[d].size \in Nat /\ live[d].size > 0 /\ d.bd \in 1 .. last
      /\ page[d.bd].start # UNDEF => d.off + live[d].size <= page[d.bd].start
    BY DEF RowOK, WhereOK, LiveOK, IInv, TypeOK, ClientType
<1>2. CASE page'[d.bd] = page[d.bd] /\ ~(InsertAccount /\ d.bd = job.bd)
    BY <1>1, <1>2
<1>3. CASE InsertAccount /\ d.bd = job.bd
    <2>1. /\ job.off \in Nat /\ job.size \in Nat /\ job.size > 0 /\ page[job.bd].start = job.off
          /\ page'[job.bd].start \in {job.off + job.size, UNDEF}
        BY <1>3, InsertionMoves
    <2>2. page[d.bd].start # UNDEF
        BY <1>3, <2>1 DEF UNDEF
    <2>3. d.off + live[d].size <= job.off
        BY <1>1, <1>3, <2>1, <2>2
    <2>4. d.off # job.off
        BY <1>1, <2>1, <2>3
    <2>5. d # JobDesc
        BY <2>4 DEF JobDesc
    <2>6. page'[d.bd].start # UNDEF => d.off + live[d].size <= page'[d.bd].start
        BY <1>1, <1>3, <2>1, <2>3
    <2> QED BY <1>1, <2>3, <2>5, <2>6
<1> QED BY <1>1, <1>2, <1>3, StartsStay

\* A cell the client is told of lies behind those it had.
LEMMA RowStep ==
    /\ NoDeletes /\ IInv /\ IInv' /\ KeepsAllocated /\ WhereOK /\ LayoutInv /\ [Next]_vars
    => RowOK'
<1> SUFFICES ASSUME NoDeletes, IInv, IInv', KeepsAllocated, WhereOK, LayoutInv, [Next]_vars PROVE RowOK'
    OBVIOUS
<1>1. ~DeleteAccount /\ StartOK /\ RowOK
    BY NothingDeleted DEF LayoutInv, StoredOK
<1> DEFINE Old(d) == d \in DOMAIN live /\ live'[d].size = live[d].size
           New(d) == InsertAccount /\ d = JobDesc /\ live'[d] = NewCell
<1>2. ASSUME NEW d \in DOMAIN live' PROVE Old(d) \/ New(d)
    BY LiveCases
<1>3. ASSUME NEW d \in DOMAIN live', New(d)
      PROVE  /\ d.bd = job.bd /\ d.off = job.off /\ d.off \in Nat
             /\ live'[d].size = job.size /\ job.size \in Nat /\ job.size > 0
             /\ page'[d.bd].start # UNDEF => d.off + live'[d].size <= page'[d.bd].start
    <2>1. d.bd = job.bd /\ d.off = job.off /\ live'[d].size = job.size
        BY <1>3 DEF JobDesc, NewCell
    <2>2. /\ job.off \in Nat /\ job.size \in Nat /\ job.size > 0
          /\ page'[job.bd].start \in {job.off + job.size, UNDEF}
        BY <1>1, <1>3, InsertionMoves
    <2> QED BY <2>1, <2>2
<1>4. ASSUME NEW d \in DOMAIN live'
      PROVE  /\ d.off \in Nat /\ live'[d].size > 0
             /\ page'[d.bd].start # UNDEF => d.off + live'[d].size <= page'[d.bd].start
    <2>1. CASE Old(d)
        BY <1>1, <2>1, OldCell
    <2>2. CASE New(d)
        BY <1>3, <2>2
    <2> QED BY <1>2, <2>1, <2>2
<1>5. ASSUME NEW d \in DOMAIN live', NEW e \in DOMAIN live', d.bd = e.bd, d # e
      PROVE  ~Overlap(d.off, live'[d].size, e.off, live'[e].size)
    <2>1. CASE Old(d) /\ Old(e)
        BY <1>1, <1>5, <2>1 DEF RowOK
    <2>2. ASSUME NEW x \in DOMAIN live', NEW y \in DOMAIN live', x.bd = y.bd, Old(x), New(y)
          PROVE  /\ ~Overlap(x.off, live'[x].size, y.off, live'[y].size)
                 /\ ~Overlap(y.off, live'[y].size, x.off, live'[x].size)
        <3>1. /\ y.bd = job.bd /\ y.off = job.off /\ y.off \in Nat
              /\ live'[y].size = job.size /\ job.size \in Nat
            BY <1>3, <2>2
        <3>2. x.off \in Nat /\ live[x].size \in Nat /\ x.off + live[x].size <= job.off
            BY <1>1, <2>2, <3>1, OldCell
        <3> QED BY <2>2, <3>1, <3>2, Apart
    <2>3. ~(New(d) /\ New(e))
        BY <1>5
    <2> QED BY <1>2, <1>5, <2>1, <2>2, <2>3
<1> QED BY <1>4, <1>5 DEF RowOK
-------------------------------------------------------------------------------
(* What the cells hold.                                                    *)

\* A cell the client has does not move into its block or out of it.
LEMMA InBlockStays ==
    ASSUME IInv, IInv', KeepsAllocated, WhereOK, NEW d \in DOMAIN live, NEW size
    PROVE  InBlock(page'[d.bd].type, d.off, size) <=> CellInBlock(d, size)
<1>1. d.bd \in 1 .. last
    BY DEF WhereOK, LiveOK
<1>2. page'[d.bd].type = page[d.bd].type
    BY <1>1, StaysAllocated
<1> QED BY <1>2 DEF CellInBlock

\* The cell that is being inserted lies behind all cells of its block.
LEMMA InsertedIsApart ==
    ASSUME IInv, WhereOK, StartOK, RowOK, Inserting, NEW d \in DOMAIN live
    PROVE  /\ d # JobDesc
           /\ d.bd = job.bd => ~Overlap(d.off, live[d].size, job.off, job.size)
<1>1. CASE d.bd # job.bd
    BY <1>1 DEF JobDesc
<1>2. CASE d.bd = job.bd
    <2>1. job.bd \in 1 .. last
        BY DEF Inserting, WhereOK, JobOK, Works
    <2>2. job.off \in Nat /\ job.size \in Nat /\ page[job.bd].start = job.off /\ job.off # UNDEF
        BY <2>1, Fields DEF StartOK, Inserting
    <2>3. d.off \in Nat /\ live[d].size \in Nat /\ live[d].size > 0 /\ d.off + live[d].size <= job.off
        BY <1>2, <2>2 DEF RowOK, IInv, TypeOK, ClientType
    <2>4. d.off # job.off
        BY <2>2, <2>3
    <2> QED BY <2>2, <2>3, <2>4, Apart DEF JobDesc
<1> QED BY <1>1, <1>2

\* A store spares the bytes of every other cell that is inside its block.
LEMMA StoreSpares ==
    ASSUME IInv, WhereOK, LayoutInv, WriteCell, NEW d \in DOMAIN live, d # JobDesc, CellInBlock(d, live[d].size)
    PROVE  d \in DOMAIN cells' /\ cells'[d] = cells[d]
<1>1. StartOK /\ RowOK /\ StoredOK
    BY DEF LayoutInv
<1>2. d \in DOMAIN cells /\ cells[d].size = live[d].size
    <2>1. ReadBack
        BY <1>1 DEF StoredOK
    <2>2. d \in DOMAIN cells /\ cells[d] = [val |-> live[d].val, size |-> live[d].size]
        BY <2>1 DEF ReadBack
    <2> QED BY <2>2
<1>3. pc = "write" /\ job.for \in {"root", "insert", "update"}
    BY DEF WriteCell, At, IInv, CallOK
<1>4. d.bd = JobDesc.bd => ~Overlap(d.off, live[d].size, JobDesc.off, job.size)
    <2>1. CASE job.for = "update"
        <3>1. JobDesc \in DOMAIN live /\ live[JobDesc].size = job.size
            BY <1>1, <1>3, <2>1 DEF StoredOK
        <3> QED BY <1>1, <3>1 DEF RowOK
    <2>2. CASE job.for # "update"
        BY <1>1, <1>3, <2>2, InsertedIsApart DEF Inserting, JobDesc
    <2> QED BY <2>1, <2>2
<1>5. d \in Untouched(JobDesc, job.size)
    BY <1>2, <1>4 DEF Untouched
<1> QED BY <1>5 DEF WriteCell

\* What a step does to the bytes of the cells, when nothing is deleted.
LEMMA CellsCases ==
    ASSUME IInv, [Next]_vars, ~WipeCell
    PROVE  WriteCell \/ EndSession \/ cells' = cells
<1>1. CASE Open \/ Create \/ Find \/ Client
    BY <1>1 DEF Open, OpenCreate, OpenLoads, OpenBlank, OpenDies, Create, CreateSelect, TruncFailsInFind,
                TruncFailsInInit, CreateHead, CreateData, CreateSetLast, CreateMetaHead, CreateMetaData,
                CreateCount, CreateHeadDone, CreateDataDone, Created, Find, FindHint, FindCreate, FindCandidate,
                FindNone, PlaceFound, PlaceForRoot, PlaceNone, Client, FindStart, InsertStart, UpdateStart,
                DeleteStart, Close
<1>2. CASE Cell \/ StraySignal \/ StrayWild \/ Crash \/ UNCHANGED vars
    BY <1>2 DEF Cell, InsertAccount, SetRoot, UpdateTouch, DeleteAccount, StraySignal, StrayWild, Crash, vars
<1> QED BY <1>1, <1>2 DEF Next, Library

\* Where a call that is about to be told to the client comes from.
LEMMA AccountCases ==
    ASSUME IInv, [Next]_vars, pc' = "account"
    PROVE  job' = job /\ (WriteCell \/ (pc = "account" /\ cells' = cells))
<1>1. CASE Open \/ StrayWild \/ UNCHANGED vars
    BY <1>1 DEF Open, OpenCreate, OpenLoads, OpenBlank, OpenDies, StrayWild, vars
<1>2. CASE Create \/ Find \/ Client \/ EndSession
    BY <1>2 DEF Create, CreateSelect, TruncFailsInFind, TruncFailsInInit, EndSession, CreateHead, CreateData,
                CreateSetLast, CreateMetaHead, CreateMetaData, CreateCount, CreateHeadDone, CreateDataDone, Find,
                FindHint, FindCreate, FindCandidate, FindNone, PlaceFound, PlaceForRoot, PlaceNone, Client,
                FindStart, InsertStart, UpdateStart, DeleteStart, Close, Goto, Return
<1>3. CASE Cell
    BY <1>3 DEF Cell, WriteCell, InsertAccount, SetRoot, UpdateTouch, WipeCell, DeleteAccount, Goto, Return
<1> QED BY <1>1, <1>2, <1>3 DEF Next, Library, StraySignal, Crash

\* Where an update about to be stored comes from.
LEMMA UpdateCases ==
    ASSUME IInv, [Next]_vars, pc' = "write", job'.for = "update"
    PROVE  \/ UNCHANGED <<pc, job, live>>
           \/ \E d \in DOMAIN live : JobDesc' = d /\ job'.size = live[d].size /\ live' = live
<1>1. CASE Open \/ StrayWild \/ UNCHANGED vars
    BY <1>1 DEF Open, OpenCreate, OpenLoads, OpenBlank, OpenDies, StrayWild, vars
<1>2. CASE Create \/ Cell \/ EndSession
    BY <1>2 DEF Create, CreateSelect, TruncFailsInFind, TruncFailsInInit, EndSession, CreateHead, CreateData,
                CreateSetLast, CreateMetaHead, CreateMetaData, CreateCount, CreateHeadDone, CreateDataDone, Cell,
                WriteCell, InsertAccount, SetRoot, UpdateTouch, WipeCell, DeleteAccount, Goto, Return
<1>3. CASE Find
    <2>1. PlaceForRoot
        BY <1>3 DEF Find, FindHint, FindCreate, FindCandidate, FindNone, PlaceFound, PlaceNone, Goto, Return
    <2>2. job'.for = "root"
        BY <2>1 DEF PlaceForRoot, IInv, TypeOK, CallType, JobType
    <2> QED BY <2>2
<1>4. ASSUME NEW h \in Handles, NEW v \in Vals, InsertStart(h, v) PROVE FALSE
    BY <1>4, NewJobs DEF InsertStart
<1>5. ASSUME NEW d \in DOMAIN live, NEW v \in Vals, UpdateStart(d, v)
      PROVE  JobDesc' = d /\ job'.size = live[d].size /\ live' = live
    <2>1. job'.bd = d.bd /\ job'.off = d.off /\ job'.size = live[d].size /\ live' = live
        BY <1>5 DEF UpdateStart, JobFor, NoJob
    <2>2. d \in Desc
        BY DEF IInv, TypeOK, ClientType
    <2> QED BY <2>1, <2>2 DEF JobDesc, Desc
<1>6. CASE Client
    BY <1>4, <1>5, <1>6 DEF Client, FindStart, DeleteStart, Close, EndSession
<1> QED BY <1>1, <1>2, <1>3, <1>6 DEF Next, Library, StraySignal, Crash

\* What WriteCell stores where it is told to.
LEMMA Stores ==
    ASSUME IInv, WriteCell
    PROVE  /\ JobDesc \in DOMAIN cells'
           /\ cells'[JobDesc] = [val |-> job.val, size |-> job.size] /\ job' = job
BY DEF WriteCell, Goto

\* What the client reads back stays what it stored there last.
LEMMA ReadBackStep ==
    /\ NoDeletes /\ IInv /\ IInv' /\ KeepsAllocated /\ WhereOK /\ LayoutInv /\ [Next]_vars
    => ReadBack'
<1> SUFFICES ASSUME NoDeletes, IInv, IInv', KeepsAllocated, WhereOK, LayoutInv, [Next]_vars,
                    NEW d \in DOMAIN live', InBlock(page'[d.bd].type, d.off, live'[d].size)
             PROVE  d \in DOMAIN cells' /\ cells'[d] = [val |-> live'[d].val, size |-> live'[d].size]
    BY DEF ReadBack, CellInBlock
<1>1. ~WipeCell /\ StoredOK /\ ReadBack
    BY NothingDeleted DEF LayoutInv, StoredOK
<1>2. CASE InsertAccount /\ d = JobDesc /\ live'[d] = NewCell
    <2>1. cells' = cells /\ pc = "account"
        BY <1>2 DEF InsertAccount, At
    <2>2. JobDesc \in DOMAIN cells /\ cells[JobDesc] = [val |-> job.val, size |-> job.size]
        BY <1>1, <2>1 DEF StoredOK
    <2> QED BY <1>2, <2>1, <2>2 DEF NewCell
<1>3. CASE WriteCell /\ job.for = "update" /\ d = JobDesc /\ live'[d].val = job.val
           /\ d \in DOMAIN live /\ live'[d].size = live[d].size
    <2>1. live[JobDesc].size = job.size
        BY <1>1, <1>3 DEF StoredOK, WriteCell, At
    <2> QED BY <1>3, <2>1, Stores
<1>4. CASE /\ d \in DOMAIN live /\ live'[d].size = live[d].size /\ live'[d].val = live[d].val
           /\ ~(WriteCell /\ job.for = "update" /\ d = JobDesc)
    <2>1. CellInBlock(d, live[d].size)
        BY <1>4, InBlockStays
    <2>2. d \in DOMAIN cells /\ cells[d] = [val |-> live[d].val, size |-> live[d].size]
        BY <1>1, <1>4, <2>1 DEF ReadBack
    <2>3. CASE WriteCell
        <3>1. d # JobDesc
            <4>1. job.for # "update" => Inserting
                BY <2>3 DEF WriteCell, At, IInv, CallOK, Inserting
            <4> QED BY <1>4, <2>3, <4>1, InsertedIsApart DEF LayoutInv
        <3> QED BY <1>4, <2>1, <2>2, <2>3, <3>1, StoreSpares
    <2>4. CASE EndSession
        <3>1. cells' = [f \in {e \in DOMAIN cells : CellInBlock(e, cells[e].size)} |-> cells[f]]
            BY <2>4 DEF EndSession
        <3>2. CellInBlock(d, cells[d].size)
            BY <2>1, <2>2
        <3> QED BY <1>4, <2>2, <3>1, <3>2
    <2>5. CASE cells' = cells
        BY <1>4, <2>2, <2>5
    <2> QED BY <1>1, <2>3, <2>4, <2>5, CellsCases
<1> QED BY <1>2, <1>3, <1>4, LiveCases

\* The bytes of the cell the client is told of next are there, and no step
\* begins to delete.
LEMMA StoredStep ==
    /\ NoDeletes /\ IInv /\ IInv' /\ KeepsAllocated /\ WhereOK /\ LayoutInv /\ [Next]_vars
    => StoredOK'
<1> SUFFICES ASSUME NoDeletes, IInv, IInv', KeepsAllocated, WhereOK, LayoutInv, [Next]_vars PROVE StoredOK'
    OBVIOUS
<1>1. StoredOK /\ pc \notin {"wipe", "forget"}
    BY DEF LayoutInv, StoredOK
<1>2. ASSUME pc' = "account"
      PROVE  JobDesc' \in DOMAIN cells' /\ cells'[JobDesc'] = [val |-> job'.val, size |-> job'.size]
    <2>1. job' = job /\ JobDesc' = JobDesc
        BY <1>2, AccountCases DEF JobDesc
    <2>2. JobDesc \in DOMAIN cells' /\ cells'[JobDesc] = [val |-> job.val, size |-> job.size]
        BY <1>1, <1>2, AccountCases, Stores DEF StoredOK
    <2> QED BY <2>1, <2>2
<1>3. ASSUME pc' = "write", job'.for = "update"
      PROVE  JobDesc' \in DOMAIN live' /\ live'[JobDesc'].size = job'.size
    <2>1. CASE UNCHANGED <<pc, job, live>>
        <3>1. JobDesc' = JobDesc
            BY <2>1 DEF JobDesc
        <3> QED BY <1>1, <1>3, <2>1, <3>1 DEF StoredOK
    <2> QED BY <1>3, <2>1, UpdateCases
<1>4. pc' \notin {"wipe", "forget"}
    BY <1>1, NothingDeleted
<1> QED BY <1>2, <1>3, <1>4, ReadBackStep DEF StoredOK

LEMMA LayoutStep ==
    OneHandle /\ NoDeletes /\ IInv /\ IInv' /\ RootOK /\ WhereOK /\ LayoutInv /\ [Next]_vars => LayoutInv'
BY KeepsStep, WaitStep, MakeStep, StartStep, RowStep, StoredStep DEF LayoutInv

LEMMA LayoutInit == Init => LayoutInv
<1> SUFFICES ASSUME Init PROVE LayoutInv
    OBVIOUS
<1>1. last = -1 /\ live = << >> /\ (\A h \in Handles : place[h] = NoPlace) /\ pc = "idle" /\ job.for = "none"
    BY NoJobIsJob DEF Init, UNDEF
<1>2. \A b \in 1 .. last : FALSE
    BY <1>1
<1> QED BY <1>1, <1>2 DEF LayoutInv, WaitOK, Held, MakeOK, StartOK, Inserting, RowOK, StoredOK, ReadBack

\* The invariants the theorems below follow from, in one.
MapInv == QueueInv /\ WhereOK /\ LayoutInv

LEMMA MapInductive == OneHandle /\ NoDeletes => (Spec => [](IInv /\ RootOK /\ MapInv))
<1> SUFFICES ASSUME OneHandle, NoDeletes PROVE Spec => [](IInv /\ RootOK /\ MapInv)
    OBVIOUS
<1>1. Init => MapInv
    <2>1. Init => QueueInv
        BY StoreAssumptions DEF Init, QueueInv, CandidatesSound, FreshOK
    <2> QED BY <2>1, WhereInit, LayoutInit DEF MapInv
<1>2. IInv /\ IInv' /\ RootOK /\ MapInv /\ [Next]_vars => MapInv'
    BY QueueStep, WhereStep, LayoutStep DEF MapInv
<1> QED BY <1>1, <1>2, Inductive, RootInductive, PTL DEF Spec

\* What the client reads back from a cell inside its block is what it stored
\* there last, in this session and after any crash: no insertion is placed over
\* another cell, and the bytes are there before the client is told.
THEOREM StoredIsRead == OneHandle /\ NoDeletes => (Spec => []ReadBack)
<1> SUFFICES ASSUME OneHandle, NoDeletes PROVE Spec => []ReadBack
    OBVIOUS
<1>1. MapInv => ReadBack
    BY DEF MapInv, LayoutInv, StoredOK
<1> QED BY <1>1, MapInductive, PTL
-------------------------------------------------------------------------------
(* The storage is a map.                                                   *)

\* The cells of the client that are inside their blocks, and what they hold.
InBlocks   == {d \in DOMAIN live : CellInBlock(d, live[d].size)}
ValuesHeld == [d \in InBlocks |-> live[d].val]
ValuesRead == [d \in Readable |-> cells[d].val]

LEMMA ReadIsHeld == ReadBack => ValuesRead = ValuesHeld
<1> SUFFICES ASSUME ReadBack PROVE ValuesRead = ValuesHeld
    OBVIOUS
<1>1. ASSUME NEW d \in InBlocks PROVE d \in DOMAIN cells /\ cells[d].val = live[d].val
    <2>1. d \in DOMAIN cells /\ cells[d] = [val |-> live[d].val, size |-> live[d].size]
        BY DEF ReadBack, InBlocks
    <2> QED BY <2>1
<1>2. Readable = InBlocks
    BY <1>1 DEF Readable, InBlocks
<1> QED BY <1>1, <1>2 DEF ValuesRead, ValuesHeld

\* A cell inside its block has a descriptor of Store.
LEMMA DescInBlock ==
    ASSUME IInv, pc = "account", job.off \in Nat, InBlock(page[job.bd].type, job.off, job.size)
    PROVE  JobDesc \in [bd : Blocks, off : 0 .. BlockSize \div CellStep]
<1>1. job.bd \in Blocks /\ job.size \in Nat /\ page[job.bd].type \in BlockTypes
    BY JobFields, Fields DEF PageType
<1>2. HeaderSize(page[job.bd].type) \in Nat
    BY <1>1, SizesAreNat DEF BlockTypes, HeaderSize
<1> DEFINE head == HeaderSize(page[job.bd].type)
           q    == BlockSize \div CellStep
           off  == job.off
<1>3. head + CellStep * off + job.size <= BlockSize
    BY DEF InBlock, Address
<1>4. /\ CellStep \in Nat \ {0} /\ BlockSize \in Nat /\ q \in Int
      /\ BlockSize = (CellStep * q) + (BlockSize % CellStep) /\ BlockSize % CellStep \in 0 .. CellStep - 1
    BY SizesAreNat
<1>5. head \in Nat /\ off \in Nat /\ job.size \in Nat
    BY <1>1, <1>2
<1> HIDE DEF head, q, off
<1>6. CASE off <= q
    BY <1>1, <1>4, <1>5, <1>6 DEF JobDesc, off, q
<1>7. CASE off > q
    <2>1. off = q + 1 + (off - q - 1) /\ off - q - 1 \in Nat
        BY <1>4, <1>5, <1>7
    <2>2. CellStep * off >= CellStep * q + CellStep
        <3> DEFINE k == off - q - 1
        <3>1. off = q + 1 + k /\ k \in Nat
            BY <2>1
        <3> HIDE DEF k
        <3>2. CellStep * off = CellStep * q + CellStep + CellStep * k /\ CellStep * k \in Nat
            BY <1>4, <3>1
        <3> QED BY <1>4, <3>2
    <2>3. CellStep * off \in Nat /\ CellStep * q \in Int
        BY <1>4, <1>5
    <2> QED BY <1>3, <1>4, <1>5, <2>2, <2>3
<1> QED BY <1>4, <1>5, <1>6, <1>7

\* The step of an insertion that tells the client: the map gets the cell if it
\* is inside its block.
LEMMA InsertionMaps ==
    ASSUME IInv, IInv', KeepsAllocated, WhereOK, LayoutInv, [Next]_vars, InsertAccount
    PROVE  \/ ValuesHeld' = ValuesHeld
           \/ /\ JobDesc \notin InBlocks /\ job.val \in AnyVal
              /\ JobDesc \in [bd : Blocks, off : 0 .. BlockSize \div CellStep]
              /\ ValuesHeld' = [e \in InBlocks \cup {JobDesc} |-> IF e = JobDesc THEN job.val ELSE live[e].val]
<1>1. pc = "account" /\ Inserting /\ StartOK /\ RowOK /\ job.bd \in 1 .. last /\ job.off \in Nat
    BY InsertionMoves DEF LayoutInv, InsertAccount, At, WhereOK, JobOK, IInv, CallOK, Inserting
<1>2. live' = [e \in DOMAIN live \cup {JobDesc} |-> IF e = JobDesc THEN NewCell ELSE live[e]]
    BY DEF InsertAccount, NewCell
<1>3. JobDesc \notin DOMAIN live
    BY <1>1, InsertedIsApart
<1>4. page'[job.bd].type = page[job.bd].type /\ JobDesc.bd = job.bd /\ JobDesc.off = job.off
    BY <1>1, StaysAllocated DEF JobDesc
<1>5. /\ \A d \in DOMAIN live : d \in DOMAIN live' /\ live'[d] = live[d]
      /\ JobDesc \in DOMAIN live' /\ live'[JobDesc] = NewCell
      /\ DOMAIN live' = DOMAIN live \cup {JobDesc}
    BY <1>2, <1>3
<1>6. \A d \in DOMAIN live : InBlock(page'[d.bd].type, d.off, live'[d].size) <=> CellInBlock(d, live[d].size)
    BY <1>5, InBlockStays
<1>7. NewCell.size = job.size /\ NewCell.val = job.val
    BY DEF NewCell
<1>8. CASE ~InBlock(page[job.bd].type, job.off, job.size)
    <2>1. InBlocks' = InBlocks
        BY <1>4, <1>5, <1>6, <1>7, <1>8 DEF InBlocks, CellInBlock
    <2>2. \A d \in InBlocks : live'[d].val = live[d].val
        BY <1>5 DEF InBlocks
    <2> QED BY <2>1, <2>2 DEF ValuesHeld
<1>9. CASE InBlock(page[job.bd].type, job.off, job.size)
    <2>1. InBlocks' = InBlocks \cup {JobDesc}
        BY <1>4, <1>5, <1>6, <1>7, <1>9 DEF InBlocks, CellInBlock
    <2>2. \A d \in InBlocks : d # JobDesc /\ live'[d].val = live[d].val
        BY <1>3, <1>5 DEF InBlocks
    <2>3. ValuesHeld' = [e \in InBlocks \cup {JobDesc} |-> IF e = JobDesc THEN job.val ELSE live[e].val]
        BY <1>5, <1>7, <2>1, <2>2 DEF ValuesHeld
    <2>4. JobDesc \notin InBlocks /\ job.val \in AnyVal
        BY <1>1, <1>3, JobFields DEF InBlocks
    <2> QED BY <1>1, <1>9, <2>3, <2>4, DescInBlock
<1> QED BY <1>8, <1>9

\* Every other step leaves each cell inside its block with its value, but for
\* the store of an update.
LEMMA OthersMap ==
    ASSUME NoDeletes, IInv, IInv', KeepsAllocated, WhereOK, LayoutInv, [Next]_vars, ~InsertAccount
    PROVE  \/ ValuesHeld' = ValuesHeld
           \/ /\ JobDesc \in InBlocks /\ job.val \in AnyVal
              /\ ValuesHeld' = [ValuesHeld EXCEPT ![JobDesc] = job.val]
<1>1. DOMAIN live' = DOMAIN live
    <2>1. DOMAIN live \subseteq DOMAIN live'
        BY NothingDeleted DEF LayoutInv, StoredOK
    <2>2. DOMAIN live' \subseteq DOMAIN live
        BY LiveCases
    <2> QED BY <2>1, <2>2
<1>2. \A d \in DOMAIN live : live'[d].size = live[d].size
    BY <1>1, LiveCases
<1>3. \A d \in DOMAIN live : InBlock(page'[d.bd].type, d.off, live'[d].size) <=> CellInBlock(d, live[d].size)
    BY <1>2, InBlockStays
<1>4. InBlocks' = InBlocks /\ InBlocks \subseteq DOMAIN live
    BY <1>1, <1>3 DEF InBlocks, CellInBlock
<1>5. CASE WriteCell /\ job.for = "update" /\ JobDesc \in InBlocks
    <2>1. \A d \in InBlocks : live'[d].val = IF d = JobDesc THEN job.val ELSE live[d].val
        BY <1>1, <1>4, <1>5, LiveCases
    <2>2. ValuesHeld' = [ValuesHeld EXCEPT ![JobDesc] = job.val]
        BY <1>4, <1>5, <2>1 DEF ValuesHeld
    <2>3. job.val \in AnyVal
        BY <1>5, JobFields DEF WriteCell, At
    <2> QED BY <1>5, <2>2, <2>3
<1>6. CASE ~(WriteCell /\ job.for = "update" /\ JobDesc \in InBlocks)
    <2>1. \A d \in InBlocks : live'[d].val = live[d].val
        BY <1>1, <1>4, <1>6, LiveCases
    <2> QED BY <1>4, <2>1 DEF ValuesHeld
<1> QED BY <1>5, <1>6

\* To a client that uses each place before it asks for the next and deletes
\* nothing the storage is a map from descriptors to values, whatever its calls
\* do to blocks and queues, and across crashes and openings.
THEOREM StoreImplementsMap == OneHandle /\ NoDeletes => (Spec => ImplementsCellMap)
<1> SUFFICES ASSUME OneHandle, NoDeletes PROVE Spec => ImplementsCellMap
    OBVIOUS
<1> DEFINE Inv == IInv /\ RootOK /\ MapInv
<1>1. Init => Store!MapInit
    <2> SUFFICES ASSUME Init PROVE Store!MapInit
        OBVIOUS
    <2>1. Readable = {}
        BY DEF Init, Readable
    <2> QED BY <2>1 DEF Store!MapInit
<1>2. Inv => ValuesRead = ValuesHeld
    BY ReadIsHeld DEF MapInv, LayoutInv, StoredOK
<1>3. Inv' => (ValuesRead = ValuesHeld)'
    BY <1>2, PTL
<1>4. Inv /\ Inv' /\ [Next]_vars => [ValuesRead' # ValuesRead => Store!MapNext]_ValuesRead
    <2> SUFFICES ASSUME Inv, Inv', [Next]_vars, ValuesRead' # ValuesRead PROVE Store!MapNext
        OBVIOUS
    <2>1. IInv /\ IInv' /\ KeepsAllocated /\ WhereOK /\ LayoutInv
        BY KeepsStep DEF MapInv
    <2>2. ValuesRead = ValuesHeld /\ ValuesRead' = ValuesHeld'
        BY <1>2, <1>3
    <2>3. DOMAIN ValuesHeld = InBlocks /\ \A e \in InBlocks : ValuesHeld[e] = live[e].val
        BY DEF ValuesHeld
    <2>4. CASE InsertAccount
        <3>1. /\ JobDesc \notin InBlocks /\ job.val \in AnyVal
              /\ JobDesc \in [bd : Blocks, off : 0 .. BlockSize \div CellStep]
              /\ ValuesHeld' = [e \in InBlocks \cup {JobDesc} |-> IF e = JobDesc THEN job.val ELSE live[e].val]
            BY <2>1, <2>2, <2>4, InsertionMaps
        <3>2. Store!Insert(JobDesc, job.val)
            BY <2>2, <2>3, <3>1 DEF Store!Insert, ValuesRead
        <3> QED BY <3>1, <3>2 DEF Store!MapNext, Store!Insert
    <2>5. CASE ~InsertAccount
        <3>1. /\ JobDesc \in InBlocks /\ job.val \in AnyVal
              /\ ValuesHeld' = [ValuesHeld EXCEPT ![JobDesc] = job.val]
            BY <2>1, <2>2, <2>5, OthersMap
        <3>2. JobDesc \in DOMAIN ValuesRead /\ Store!Update(JobDesc, job.val)
            BY <2>2, <2>3, <3>1 DEF Store!Update, ValuesRead
        <3> QED BY <3>1, <3>2 DEF Store!MapNext, Store!Update, ValuesRead
    <2> QED BY <2>4, <2>5
<1> QED BY <1>1, <1>4, MapInductive, PTL DEF Spec, ImplementsCellMap, Store!MapSpec, ValuesRead
===============================================================================
