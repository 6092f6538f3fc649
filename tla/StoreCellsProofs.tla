---------------------------- MODULE StoreCellsProofs ----------------------------
(***************************************************************************)
(* Proofs about the cells in BlockStore: they are in allocated blocks of   *)
(* their type, and, for a client that uses each place before it asks for   *)
(* the next (one handle), no block gets more of them than it has room for. *)
(***************************************************************************)
EXTENDS StoreSafetyProofs, FiniteSetTheorems

\* The labels of a creation from the block's first store on.
Making == {"setlast", "meta", "count", "finish"}

\* The cells of the client, the places it holds and the cell a call works on are
\* in allocated blocks, of the type of the cell.
LiveOK == \A d \in DOMAIN live : d.bd \in 1 .. last /\ live[d].t = page[d.bd].dtype

PlaceOK ==
    \A h \in Handles : place[h] # NoPlace =>
        place[h].bd \in 1 .. last /\ place[h].t = page[place[h].bd].dtype

JobOK ==
    /\ pc \in Making \cup {"place"} \cup Works /\ job.for # "head" => page[job.bd].dtype = job.t
    /\ pc \in {"place"} \cup Works => job.bd \in 1 .. last
    /\ pc = "account" => job.for # "update"
    /\ pc \in {"wipe", "forget"} => job.for = "delete"

WhereOK == LiveOK /\ PlaceOK /\ JobOK
-------------------------------------------------------------------------------
(* Where cells are.                                                        *)

\* An allocated block stays allocated, and what it is.
LEMMA StaysAllocated ==
    ASSUME IInv, IInv', KeepsAllocated, NEW b \in 1 .. last
    PROVE  /\ b \in 1 .. last' /\ b \in Blocks
           /\ page'[b].dtype = page[b].dtype /\ page'[b].type = page[b].type
<1>1. last \in Int /\ last < MaxBlocks /\ last <= last' /\ last' \in Int
    BY Fields, StoreAssumptions DEF KeepsAllocated, IInv, TypeOK, FileType, Blocks, UNDEF
<1>2. b \in 0 .. last /\ b \in 1 .. last' /\ b \in Blocks
    BY <1>1, StoreAssumptions DEF Blocks
<1> QED BY <1>2 DEF KeepsAllocated

\* The cell an insertion adds to those of the client.
NewCell == [t |-> job.t, val |-> job.val, size |-> job.size]

\* Where the client's cells come from.
LEMMA LiveCases ==
    ASSUME IInv, [Next]_vars, NEW d \in DOMAIN live'
    PROVE  \/ /\ d \in DOMAIN live /\ live'[d].t = live[d].t /\ live'[d].size = live[d].size
              /\ \/ live'[d].val = live[d].val /\ ~(WriteCell /\ job.for = "update" /\ d = JobDesc)
                 \/ WriteCell /\ job.for = "update" /\ d = JobDesc /\ live'[d].val = job.val
           \/ InsertAccount /\ d = JobDesc /\ live'[d] = NewCell
<1>1. CASE live' = live /\ ~WriteCell
    BY <1>1
<1>2. CASE WriteCell
    <2>1. live' = IF job.for = "update" THEN [live EXCEPT ![JobDesc].val = job.val] ELSE live
        BY <1>2 DEF WriteCell
    <2>2. d \in DOMAIN live /\ live[d] \in [t : CellTypes, val : AnyVal, size : Nat]
        BY <2>1 DEF IInv, TypeOK, ClientType
    <2>3. CASE job.for = "update" /\ d = JobDesc
        BY <1>2, <2>1, <2>2, <2>3
    <2>4. CASE job.for # "update" \/ d # JobDesc
        BY <2>1, <2>2, <2>4
    <2> QED BY <2>3, <2>4
<1>3. CASE InsertAccount
    <2>1. live' = [e \in DOMAIN live \cup {JobDesc} |-> IF e = JobDesc THEN NewCell ELSE live[e]]
        BY <1>3 DEF InsertAccount, NewCell
    <2> QED BY <1>3, <2>1
<1>4. ASSUME NEW e \in DOMAIN live, DeleteStart(e)
      PROVE  d \in DOMAIN live /\ live'[d] = live[d] /\ ~WriteCell
    <2>1. live' = [f \in DOMAIN live \ {e} |-> live[f]]
        BY <1>4 DEF DeleteStart
    <2>2. ~WriteCell
        BY <1>4 DEF DeleteStart, WriteCell, Ready, At
    <2> QED BY <2>1, <2>2
<1>5. CASE (Open \/ Create \/ Find \/ EndSession \/ StrayWild \/ UNCHANGED vars) /\ ~WriteCell
    <2>1. live' = live
        BY <1>5 DEF Open, OpenCreate, OpenLoads, OpenBlank, OpenDies, Create, CreateSelect, TruncFailsInFind,
                    TruncFailsInInit, CreateHead, CreateData, CreateSetLast, CreateMetaHead, CreateMetaData,
                    CreateCount, CreateHeadDone, CreateDataDone, Created, Find, FindHint, FindCreate, FindCandidate,
                    FindNone, PlaceFound, PlaceForRoot, PlaceNone, EndSession, StrayWild, vars
    <2> QED BY <1>1, <1>5, <2>1
<1>6. CASE (SetRoot \/ UpdateTouch \/ WipeCell \/ DeleteAccount) /\ ~WriteCell
    BY <1>1, <1>6 DEF SetRoot, UpdateTouch, WipeCell, DeleteAccount
<1>7. CASE Client /\ ~WriteCell
    <2>1. live' = live \/ \E e \in DOMAIN live : DeleteStart(e)
        BY <1>7 DEF Client, FindStart, InsertStart, UpdateStart, Close, EndSession
    <2> QED BY <1>1, <1>4, <1>7, <2>1
<1> QED BY <1>2, <1>3, <1>5, <1>6, <1>7 DEF Next, Library, Cell, StraySignal, Crash

\* The place storage_find_new_cell_place returns.
FoundPlace == [bd |-> job.bd, off |-> page[job.bd].start, t |-> job.t, size |-> job.size]

\* Where the client's places come from.
LEMMA PlaceCases ==
    ASSUME IInv, [Next]_vars, NEW h \in Handles, place'[h] # NoPlace
    PROVE  \/ place'[h] = place[h]
           \/ PlaceFound /\ place'[h] = FoundPlace
<1>1. CASE place' = place
    BY <1>1
<1>2. CASE PlaceFound
    <2>1. place' = [place EXCEPT ![job.h] = FoundPlace]
        BY <1>2 DEF PlaceFound, FoundPlace
    <2> QED BY <1>2, <2>1 DEF IInv, TypeOK, ClientType
<1>3. ASSUME NEW g \in Handles, NEW v \in Vals, InsertStart(g, v) PROVE place'[h] = place[h]
    <2>1. place' = [place EXCEPT ![g] = NoPlace]
        BY <1>3 DEF InsertStart
    <2> QED BY <2>1 DEF IInv, TypeOK, ClientType
<1>4. CASE EndSession
    BY <1>4 DEF EndSession
<1>5. CASE Open \/ Create \/ Cell \/ StrayWild \/ UNCHANGED vars
    <2>1. place' = place \/ EndSession
        BY <1>5 DEF Open, OpenCreate, OpenLoads, OpenBlank, OpenDies, Create, CreateSelect, TruncFailsInFind,
                    TruncFailsInInit, CreateHead, CreateData, CreateSetLast, CreateMetaHead, CreateMetaData,
                    CreateCount, CreateHeadDone, CreateDataDone, Created, Cell, WriteCell, InsertAccount, SetRoot,
                    UpdateTouch, WipeCell, DeleteAccount, StrayWild, vars
    <2> QED BY <1>1, <1>4, <2>1
<1>6. CASE FindHint \/ FindCreate \/ FindCandidate \/ FindNone \/ PlaceForRoot \/ PlaceNone
    BY <1>1, <1>6 DEF FindHint, FindCreate, FindCandidate, FindNone, PlaceForRoot, PlaceNone
<1>7. CASE Client
    <2>1. place' = place \/ EndSession \/ \E g \in Handles, v \in Vals : InsertStart(g, v)
        BY <1>7 DEF Client, FindStart, UpdateStart, DeleteStart, Close
    <2> QED BY <1>1, <1>3, <1>4, <2>1
<1> QED BY <1>2, <1>4, <1>5, <1>6, <1>7 DEF Next, Library, Find, StraySignal, Crash

\* The client's cells and places keep to their blocks.
LEMMA LiveStep ==
    IInv /\ IInv' /\ KeepsAllocated /\ LiveOK /\ JobOK /\ [Next]_vars => LiveOK'
<1> SUFFICES ASSUME IInv, IInv', KeepsAllocated, LiveOK, JobOK, [Next]_vars, NEW d \in DOMAIN live'
             PROVE  d.bd \in 1 .. last' /\ live'[d].t = page'[d.bd].dtype
    BY DEF LiveOK
<1>1. CASE d \in DOMAIN live /\ live'[d].t = live[d].t
    BY <1>1, StaysAllocated DEF LiveOK
<1>2. CASE InsertAccount /\ d = JobDesc /\ live'[d] = NewCell
    <2>1. pc = "account" /\ job.for # "head" /\ d.bd = job.bd /\ live'[d].t = job.t
        BY <1>2 DEF InsertAccount, At, JobDesc, NewCell, IInv, CallOK
    <2>2. job.bd \in 1 .. last /\ page[job.bd].dtype = job.t
        BY <2>1 DEF JobOK, Works
    <2> QED BY <2>1, <2>2, StaysAllocated
<1> QED BY <1>1, <1>2, LiveCases

LEMMA PlaceStep ==
    IInv /\ IInv' /\ KeepsAllocated /\ PlaceOK /\ JobOK /\ [Next]_vars => PlaceOK'
<1> SUFFICES ASSUME IInv, IInv', KeepsAllocated, PlaceOK, JobOK, [Next]_vars,
                    NEW h \in Handles, place'[h] # NoPlace
             PROVE  place'[h].bd \in 1 .. last' /\ place'[h].t = page'[place'[h].bd].dtype
    BY DEF PlaceOK
<1>1. CASE place'[h] = place[h]
    <2>1. place[h].bd \in 1 .. last /\ place[h].t = page[place[h].bd].dtype
        BY <1>1 DEF PlaceOK
    <2> QED BY <1>1, <2>1, StaysAllocated
<1>2. CASE PlaceFound /\ place'[h] = FoundPlace
    <2>1. pc = "place" /\ job.for # "head" /\ place'[h].bd = job.bd /\ place'[h].t = job.t
        BY <1>2 DEF PlaceFound, At, FoundPlace
    <2>2. job.bd \in 1 .. last /\ page[job.bd].dtype = job.t
        BY <2>1 DEF JobOK
    <2> QED BY <2>1, <2>2, StaysAllocated
<1> QED BY <1>1, <1>2, PlaceCases

\* A call that goes on with the block it has.
LEMMA JobGoesOn ==
    ASSUME IInv, IInv', KeepsAllocated, job.bd \in 1 .. last, page[job.bd].dtype = job.t,
           job'.bd = job.bd, job'.t = job.t, pc' = "account" => job'.for # "update",
           pc' \in {"wipe", "forget"} => job'.for = "delete"
    PROVE  JobOK'
<1>1. job.bd \in 1 .. last' /\ page'[job.bd].dtype = job.t
    BY StaysAllocated
<1> QED BY <1>1 DEF JobOK

\* A call that is over or has no block yet.
LEMMA JobElsewhere ==
    ASSUME pc' \notin Making \cup {"place"} \cup Works
    PROVE  JobOK'
BY DEF JobOK, Works

\* The block a creation has counted.
LEMMA CountedBlock ==
    ASSUME IInv, heads # {}, pc \in {"meta", "count", "finish"}, job.for # "head"
    PROVE  job.bd \in 1 .. last
BY Fields DEF IInv, CreateOK

\* A block whose meta cell promises room for a cell.
LEMMA FittingBlock ==
    ASSUME IInv, NEW b \in Blocks, NEW t \in CellTypes, NEW size, Fits(b, t, size)
    PROVE  b \in 1 .. last /\ page[b].dtype = t
<1>1. meta[b].stype = t /\ t # "CELL_UNDEF"
    BY TypesAreApart DEF Fits
<1>2. b \in Int /\ last \in Int
    BY Fields, StoreAssumptions DEF Blocks
<1> QED BY <1>1, <1>2 DEF IInv, MetaAgrees

\* blocks_create_block is for a block of the type of the cell.
LEMMA JobInCreate ==
    IInv /\ IInv' /\ KeepsAllocated /\ JobOK /\ Create => JobOK'
<1> SUFFICES ASSUME IInv, IInv', KeepsAllocated, JobOK, Create PROVE JobOK'
    OBVIOUS
<1> USE DEF At, Goto, Return
<1>1. CASE CreateSelect \/ TruncFailsInFind \/ TruncFailsInInit \/ CreateHeadDone
    BY <1>1, JobElsewhere
    DEF CreateSelect, TruncFailsInFind, TruncFailsInInit, EndSession, CreateHeadDone, Making, Works
<1>2. CASE CreateHead
    BY <1>2 DEF CreateHead, JobOK, Works
<1>3. CASE CreateData
    <2>1. /\ (pc' = "setlast" /\ job' = job) \/ pc' = "idle"
          /\ page' = [page EXCEPT ![job.bd] = [type |-> BlockTypeOf(job.t), dtype |-> job.t,
                                                free |-> InitialFree(job.t), start |-> DataSize]]
          /\ job.bd \in Blocks
        BY <1>3 DEF CreateData, IInv, CallOK
    <2>2. page'[job.bd].dtype = job.t
        BY <2>1 DEF IInv, TypeOK, FileType
    <2> QED BY <2>1, <2>2 DEF JobOK, Works, Making
<1>4. CASE CreateSetLast
    <2>1. pc = "setlast" /\ pc' = "meta" /\ UNCHANGED <<page, job>>
        BY <1>4 DEF CreateSetLast
    <2> QED BY <2>1 DEF JobOK, Works, Making
<1>5. CASE CreateMetaHead
    BY <1>5 DEF CreateMetaHead, JobOK, Works
<1>6. CASE CreateMetaData
    <2>1. pc = "meta" /\ pc' \in {"count", "finish"} /\ UNCHANGED <<page, job>>
        BY <1>6 DEF CreateMetaData
    <2> QED BY <2>1 DEF JobOK, Works, Making
<1>7. CASE CreateCount \/ CreateDataDone
    <2>1. pc \in {"count", "finish"} /\ pc' \in {"finish", "place"} /\ job' = job /\ job.for # "head"
        BY <1>7 DEF CreateCount, CreateDataDone, IInv, CallOK
    <2>2. page[job.bd].dtype = job.t /\ job.bd \in 1 .. last
        BY <2>1, CountedBlock DEF JobOK, Making, IInv, CreateOK
    <2> QED BY <2>1, <2>2, JobGoesOn
<1> QED BY <1>1, <1>2, <1>3, <1>4, <1>5, <1>6, <1>7 DEF Create

\* find_block_for_cell finds a block of the type of the cell.
LEMMA JobInFind ==
    IInv /\ IInv' /\ KeepsAllocated /\ QueueInv /\ JobOK /\ Find => JobOK'
<1> SUFFICES ASSUME IInv, IInv', KeepsAllocated, QueueInv, JobOK, Find PROVE JobOK'
    OBVIOUS
<1> USE DEF At, Goto, Return
<1>1. job \in JobType
    BY DEF IInv, TypeOK, CallType
<1>2. CASE FindCreate \/ FindNone \/ PlaceFound \/ PlaceNone
    BY <1>2, JobElsewhere DEF FindCreate, FindNone, PlaceFound, PlaceNone, Making, Works
<1>3. CASE FindHint \/ FindCandidate
    <2>1. pc = "find" /\ pc' = "place" /\ job.t \in CellTypes /\ page' = page /\ last' = last
        BY <1>3 DEF FindHint, FindCandidate, IInv, CallOK, file
    <2>2. \E b \in Blocks : job' = [job EXCEPT !.bd = b] /\ Fits(b, job.t, job.size)
        <3>1. CASE FindHint
            <4>1. job' = [job EXCEPT !.bd = job.hint] /\ Fits(job.hint, job.t, job.size) /\ job.hint \in Blocks
                BY <1>1, <3>1 DEF FindHint, HintFits, JobType
            <4> QED BY <4>1
        <3>2. CASE FindCandidate
            <4>1. PICK i \in Fitting : job' = [job EXCEPT !.bd = cand[job.t][i]]
                BY <3>2 DEF FindCandidate
            <4>2. i \in DOMAIN cand[job.t] /\ job.t \in AllTypes /\ Fits(cand[job.t][i], job.t, job.size)
                BY <2>1, Queues DEF Fitting, QueueInv, AllTypes
            <4>3. cand[job.t][i] \in Blocks
                BY <4>2, Queues DEF QueueInv, Queued
            <4> QED BY <4>1, <4>2, <4>3
        <3> QED BY <1>3, <3>1, <3>2
    <2>3. PICK b \in Blocks : job' = [job EXCEPT !.bd = b] /\ Fits(b, job.t, job.size)
        BY <2>2
    <2>4. job'.bd = b /\ job'.t = job.t
        BY <1>1, <2>3 DEF JobType
    <2>5. b \in 1 .. last /\ page[b].dtype = job.t
        BY <2>1, <2>3, FittingBlock
    <2> QED BY <2>1, <2>4, <2>5 DEF JobOK
<1>4. CASE PlaceForRoot
    <2>1. /\ pc = "place" /\ pc' = "write" /\ job.for = "root"
          /\ job' = [job EXCEPT !.off = page[job.bd].start]
        BY <1>4 DEF PlaceForRoot
    <2>2. job'.bd = job.bd /\ job'.t = job.t
        BY <1>1, <2>1 DEF JobType
    <2>3. job.bd \in 1 .. last /\ page[job.bd].dtype = job.t
        BY <2>1 DEF JobOK
    <2> QED BY <2>1, <2>2, <2>3, JobGoesOn
<1> QED BY <1>2, <1>3, <1>4 DEF Find

\* A cell operation stays with its block.
LEMMA JobInCell == IInv /\ IInv' /\ KeepsAllocated /\ JobOK /\ Cell => JobOK'
<1> SUFFICES ASSUME IInv, IInv', KeepsAllocated, JobOK, Cell PROVE JobOK'
    OBVIOUS
<1>1. pc \in Works /\ job.bd \in 1 .. last
    BY DEF Cell, WriteCell, InsertAccount, SetRoot, UpdateTouch, WipeCell, DeleteAccount, At, Works, JobOK
<1>2. CASE SetRoot \/ UpdateTouch \/ DeleteAccount
    BY <1>2, JobElsewhere DEF SetRoot, UpdateTouch, DeleteAccount, Return, Making, Works
<1>3. CASE WriteCell \/ WipeCell \/ InsertAccount
    <2>1. /\ pc \in {"write", "account", "wipe"} /\ (pc' = "idle" \/ job' = job)
          /\ pc' = "account" => job.for # "update"
          /\ pc' \in {"wipe", "forget"} => pc = "wipe"
        BY <1>3 DEF WriteCell, WipeCell, InsertAccount, At, Goto, Return
    <2>2. CASE pc' = "idle"
        BY <2>2, JobElsewhere DEF Making, Works
    <2>3. CASE job' = job
        <3>1. job.for # "head" /\ (pc' \in {"wipe", "forget"} => job.for = "delete")
            BY <2>1 DEF IInv, CallOK, JobOK
        <3>2. page[job.bd].dtype = job.t
            BY <1>1, <3>1 DEF JobOK
        <3> QED BY <1>1, <2>1, <2>3, <3>1, <3>2, JobGoesOn
    <2> QED BY <2>1, <2>2, <2>3
<1> QED BY <1>2, <1>3 DEF Cell

\* Every step keeps cells, places and calls to allocated blocks of their type.
LEMMA JobStep ==
    IInv /\ IInv' /\ KeepsAllocated /\ QueueInv /\ WhereOK /\ [Next]_vars => JobOK'
<1> SUFFICES ASSUME IInv, IInv', KeepsAllocated, QueueInv, WhereOK, [Next]_vars PROVE JobOK'
    OBVIOUS
<1>1. CASE Open
    <2>1. pc' = "select" \/ pc' = "idle"
        BY <1>1 DEF Open, OpenCreate, OpenLoads, OpenBlank, OpenDies, IInv, HeadsOK
    <2> QED BY <2>1, JobElsewhere DEF Making, Works
<1>2. CASE StrayWild \/ UNCHANGED vars
    <2>1. UNCHANGED <<pc, job, page, last>>
        BY <1>2 DEF StrayWild, vars, file
    <2> QED BY <2>1 DEF WhereOK, JobOK
<1>3. CASE EndSession
    BY <1>3, JobElsewhere DEF EndSession, Making, Works
<1>4. ASSUME NEW h \in Handles, NEW t \in CellTypes, NEW size, NEW hint, FindStart(h, t, size, hint)
      PROVE  JobOK'
    BY <1>4, JobElsewhere DEF FindStart, Making, Works
<1>5. ASSUME NEW h \in Handles, NEW v \in Vals, InsertStart(h, v) PROVE JobOK'
    <2>1. /\ job'.for = "insert" /\ job'.bd = place[h].bd /\ job'.t = place[h].t
          /\ pc' = "write" /\ UNCHANGED <<page, last>> /\ place[h] # NoPlace
        BY <1>5 DEF InsertStart, NoJob, file
    <2> QED BY <2>1 DEF WhereOK, PlaceOK, JobOK
<1>6. ASSUME NEW d \in DOMAIN live, NEW v \in AnyVal, NEW what \in {"update", "delete"},
             job' = JobFor(what, d, v), UNCHANGED <<page, last>>,
             pc' = IF what = "update" THEN "write" ELSE "wipe"
      PROVE  JobOK'
    <2>1. job'.for = what /\ job'.bd = d.bd /\ job'.t = live[d].t
        BY <1>6 DEF JobFor, NoJob
    <2> QED BY <1>6, <2>1 DEF WhereOK, LiveOK, JobOK
<1>7. ASSUME NEW d \in DOMAIN live, NEW v \in Vals, UpdateStart(d, v) PROVE JobOK'
    BY <1>6, <1>7 DEF UpdateStart, AnyVal, file
<1>8. ASSUME NEW d \in DOMAIN live, DeleteStart(d) PROVE JobOK'
    BY <1>6, <1>8 DEF DeleteStart, AnyVal, file
<1> QED
    BY <1>1, <1>2, <1>3, <1>4, <1>5, <1>7, <1>8, JobInCreate, JobInFind, JobInCell
    DEF WhereOK, Next, Library, Client, StraySignal, Close, Crash

LEMMA WhereStep ==
    IInv /\ IInv' /\ RootOK /\ QueueInv /\ WhereOK /\ [Next]_vars => WhereOK'
BY KeepsStep, LiveStep, PlaceStep, JobStep DEF WhereOK

LEMMA WhereInit == Init => WhereOK
BY DEF Init, WhereOK, LiveOK, PlaceOK, JobOK, Making, Works
-------------------------------------------------------------------------------
(* What a block has room for.                                              *)

\* A client that uses each place before it asks for the next.
OneHandle == \A g, h \in Handles : g = h

Held      == \E h \in Handles : place[h] # NoPlace
Inserting == job.for \in {"insert", "root"} /\ pc \in {"write", "account"}
Fixed(b)  == page[b].type = "BLOCK_DATA_FIX"

\* The cell that delete_cell has taken from the client and not counted yet.
Leaving(b) == IF pc \in {"wipe", "forget"} /\ job.bd = b THEN 1 ELSE 0

\* As long as the client holds its place, it neither asks for one nor inserts.
WaitOK ==
    /\ Held => job.for \in {"none", "update", "delete"}
    /\ mode = "down" => ~Held

\* The state construct_block gives a block that is not counted yet.
MakeOK ==
    pc = "setlast" /\ job.for # "head" =>
        page[job.bd].free = InitialFree(job.t) /\ page[job.bd].start = DataSize

\* Where new_cell_start points somewhere there is room, and there still is when
\* the cell is inserted.
PromiseOK ==
    /\ \A b \in 1 .. last : Fixed(b) /\ page[b].start # UNDEF => page[b].free > 0
    /\ \A h \in Handles : place[h] # NoPlace /\ Fixed(place[h].bd) => page[place[h].bd].free > 0
    /\ Inserting /\ Fixed(job.bd) => page[job.bd].free > 0

\* FreeAccounting, with the cell that is leaving.
CountOK ==
    /\ IsFiniteSet(DOMAIN live)
    /\ \A b \in 1 .. last : Fixed(b) =>
           page[b].free + Cardinality(LiveIn(b)) + Leaving(b) <= Capacity(page[b].dtype)

FreeInv == WaitOK /\ MakeOK /\ PromiseOK /\ CountOK
-------------------------------------------------------------------------------
\* A number below the modulus is its own remainder.
LEMMA SmallMod ==
    ASSUME NEW n \in Nat \ {0}, NEW m \in Nat, m < n
    PROVE  m % n = m
<1>1. m \div n \in Int /\ m = (n * (m \div n)) + (m % n) /\ m % n \in 0 .. n - 1
    OBVIOUS
<1> DEFINE q == m \div n
<1>2. q \in Int /\ m = (n * q) + (m % n)
    BY <1>1
<1> HIDE DEF q
<1>3. CASE q >= 1
    <2>1. n * q >= n
        BY <1>2, <1>3
    <2> QED BY <1>1, <1>2, <2>1
<1>4. CASE q <= -1
    <2>1. n * q <= -n
        BY <1>2, <1>4
    <2> QED BY <1>1, <1>2, <2>1
<1>5. CASE q = 0
    BY <1>1, <1>2, <1>5
<1> QED BY <1>2, <1>3, <1>4, <1>5

\* A block holds at least one cell of a fixed size, and no more than free_cells
\* can count.
LEMMA CapacityBounds ==
    ASSUME NEW t \in FixTypes
    PROVE  Capacity(t) \in Nat /\ 1 <= Capacity(t) /\ Capacity(t) < UIntMax
<1> DEFINE m == BlockSize - DataSize
           n == FixSize[t]
           q == m \div n
<1>1. n \in Nat \ {0} /\ m \in Nat /\ n <= m /\ m < UIntMax /\ UIntMax \in Nat
    BY SizesAreNat, FixSizesAreNat, CellsFit, StoreAssumptions
<1>2. q \in Int /\ m = (n * q) + (m % n) /\ m % n \in 0 .. n - 1
    <2> HIDE DEF m, n
    <2> QED BY <1>1
<1>3. Capacity(t) = q
    BY DEF Capacity
<1> HIDE DEF q, m, n
<1>4. q >= 1
    <2>1. CASE q <= 0
        <3>1. n * q <= 0
            BY <1>1, <1>2, <2>1
        <3> QED BY <1>1, <1>2, <3>1
    <2> QED BY <1>2, <2>1
<1>5. n * q >= q
    BY <1>1, <1>2, <1>4
<1>6. q <= m
    BY <1>1, <1>2, <1>5
<1> QED BY <1>1, <1>2, <1>3, <1>4, <1>6

\* free_cells does not wrap while there is room.
LEMMA CountsByOne ==
    ASSUME NEW t \in FixTypes, NEW free \in Nat, NEW size
    PROVE  /\ free > 0 /\ free <= Capacity(t) => Inserted(free, t, size) = free - 1
           /\ free + 1 <= Capacity(t) => Deleted(free, t, size) = free + 1
<1>1. Need(t, size) = 1
    BY TypesAreApart DEF Need
<1>2. Capacity(t) \in Nat /\ Capacity(t) < UIntMax /\ UIntMax \in Nat \ {0}
    BY CapacityBounds, StoreAssumptions
<1>3. free > 0 /\ free <= Capacity(t) => Inserted(free, t, size) = free - 1
    <2> HAVE free > 0 /\ free <= Capacity(t)
    <2>1. free - 1 \in Nat /\ free - 1 < UIntMax
        BY <1>2
    <2>2. (free - 1) % UIntMax = free - 1
        BY <1>2, <2>1, SmallMod
    <2> QED BY <1>1, <2>2 DEF Inserted
<1>4. free + 1 <= Capacity(t) => Deleted(free, t, size) = free + 1
    <2> HAVE free + 1 <= Capacity(t)
    <2>1. free + 1 \in Nat /\ free + 1 < UIntMax
        BY <1>2
    <2>2. (free + 1) % UIntMax = free + 1
        BY <1>2, <2>1, SmallMod
    <2> QED BY <1>1, <2>2 DEF Deleted
<1> QED BY <1>3, <1>4

\* A block of fixed-size cells is one of a type of fixed size.
LEMMA FixedType ==
    ASSUME IInv, NEW b \in 1 .. last, Fixed(b)
    PROVE  page[b].dtype \in FixTypes /\ page[b].free \in Nat /\ b \in Blocks
<1>1. b \in 0 .. last /\ b # 0 /\ b \in Blocks
    BY Fields, StoreAssumptions DEF Blocks
<1>2. page[b].dtype \in CellTypes /\ page[b].type = BlockTypeOf(page[b].dtype)
    BY <1>1 DEF IInv, AllocationSound, BlocksConstructed
<1> QED BY <1>1, <1>2, Fields DEF Fixed, BlockTypeOf, CellTypes

\* What a step does to the page of an allocated block.
LEMMA PageCases ==
    ASSUME IInv, [Next]_vars, NEW b \in 1 .. last
    PROVE  \/ page'[b] = page[b]
           \/ /\ InsertAccount /\ b = job.bd
              /\ page'[b] = Account(page[b], Inserted(page[b].free, job.t, job.size), job.size)
           \/ /\ DeleteAccount /\ b = job.bd
              /\ page'[b] = Account(page[b], Deleted(page[b].free, job.t, DeletedSize), DeletedSize)
<1>1. b \in Blocks /\ b # 0 /\ page \in [Blocks -> PageType] /\ last \in Int /\ last > -1
    BY Fields, StoreAssumptions DEF Blocks, IInv, TypeOK, FileType
<1>2. CASE page' = page
    BY <1>2
<1>3. CASE CreateHead
    BY <1>1, <1>3 DEF CreateHead, At, IInv, CreateOK, UNDEF
<1>4. CASE CreateData
    <2>1. job.bd = last + 1 /\ \E p : page' = [page EXCEPT ![job.bd] = p]
        BY <1>4, Fields DEF CreateData, At, Running, IInv, CreateOK
    <2> QED BY <1>1, <2>1
<1>5. CASE CreateMetaHead
    <2>1. job.bd = 0 /\ page' = [page EXCEPT ![job.bd].free = @ - 1, ![job.bd].start = @ + CellBlockSize]
        BY <1>5 DEF CreateMetaHead, At, IInv, CreateOK
    <2> QED BY <1>1, <2>1
<1>6. CASE CreateCount
    <2>1. page' = [page EXCEPT ![0] = Account(@, Inserted(@.free, "CELL_BLOCK", CellBlockSize), CellBlockSize)]
        BY <1>6 DEF CreateCount
    <2> QED BY <1>1, <2>1
<1>7. CASE InsertAccount
    <2>1. page' = [page EXCEPT ![job.bd] = Account(@, Inserted(@.free, job.t, job.size), job.size)]
        BY <1>7 DEF InsertAccount
    <2> QED BY <1>1, <1>7, <2>1
<1>8. CASE DeleteAccount
    <2>1. page' = [page EXCEPT ![job.bd] = Account(@, Deleted(@.free, job.t, DeletedSize), DeletedSize)]
        BY <1>8 DEF DeleteAccount
    <2> QED BY <1>1, <1>8, <2>1
<1>9. CASE CreateSelect \/ TruncFailsInFind \/ CreateSetLast \/ CreateMetaData \/ CreateHeadDone \/ CreateDataDone
    BY <1>2, <1>9 DEF CreateSelect, TruncFailsInFind, CreateSetLast, CreateMetaData, CreateHeadDone,
                      CreateDataDone, Created, file
<1>10. CASE Open \/ Find \/ Client \/ EndSession \/ StrayWild \/ UNCHANGED vars
    BY <1>2, <1>10 DEF Open, OpenCreate, OpenLoads, OpenBlank, OpenDies, Find, FindHint, FindCreate, FindCandidate,
                       FindNone, PlaceFound, PlaceForRoot, PlaceNone, Client, FindStart, InsertStart, UpdateStart,
                       DeleteStart, Close, StrayWild, EndSession, vars, file
<1>11. CASE WriteCell \/ SetRoot \/ UpdateTouch \/ WipeCell
    BY <1>2, <1>11 DEF WriteCell, SetRoot, UpdateTouch, WipeCell, file
<1> QED
    BY <1>3, <1>4, <1>5, <1>6, <1>7, <1>8, <1>9, <1>10, <1>11
    DEF Next, Library, Create, Cell, TruncFailsInInit, StraySignal, Crash

\* Where a block comes from that was not allocated.
LEMMA NewBlock ==
    ASSUME IInv, [Next]_vars, NEW b \in 1 .. last', b \notin 1 .. last
    PROVE  CreateSetLast /\ b = job.bd /\ job.for # "head" /\ b > last /\ UNCHANGED <<page, live>>
<1>1. last \in Int
    BY Fields
<1>2. CASE last' = last
    BY <1>2
<1>3. CASE CreateHead
    BY <1>3 DEF CreateHead
<1>4. CASE CreateSetLast
    <2>1. last' = (IF MovesLast THEN job.bd ELSE last) /\ UNCHANGED <<page, live>> /\ pc = "setlast" /\ Running
        BY <1>4 DEF CreateSetLast, At
    <2>2. CASE job.for = "head"
        BY <2>1, <2>2 DEF IInv, CreateOK
    <2>3. CASE job.for # "head"
        <3>1. job.bd = last + 1
            BY <2>1, <2>3, Fields DEF IInv, CreateOK, Running
        <3> QED BY <1>1, <1>4, <2>1, <2>3, <3>1
    <2> QED BY <2>2, <2>3
<1>5. CASE Create /\ ~CreateHead /\ ~CreateSetLast
    BY <1>2, <1>5 DEF Create, CreateSelect, TruncFailsInFind, TruncFailsInInit, EndSession, CreateData,
                      CreateMetaHead, CreateMetaData, CreateCount, CreateHeadDone, CreateDataDone, Created, file
<1>6. CASE Open \/ Find \/ Client \/ EndSession \/ StrayWild \/ UNCHANGED vars
    BY <1>2, <1>6 DEF Open, OpenCreate, OpenLoads, OpenBlank, OpenDies, Find, FindHint, FindCreate, FindCandidate,
                      FindNone, PlaceFound, PlaceForRoot, PlaceNone, Client, FindStart, InsertStart, UpdateStart,
                      DeleteStart, Close, StrayWild, EndSession, vars, file
<1>7. CASE Cell
    BY <1>2, <1>7 DEF Cell, WriteCell, InsertAccount, SetRoot, UpdateTouch, WipeCell, DeleteAccount, file
<1> QED
    BY <1>3, <1>4, <1>5, <1>6, <1>7 DEF Next, Library, StraySignal, Crash

\* What a step does to the call.
LEMMA JobCases ==
    IInv /\ [Next]_vars =>
        \/ job'.for \in {job.for, "none"} \/ mode = "down" \/ job.for = "head" \/ Client
<1> SUFFICES ASSUME IInv, [Next]_vars
             PROVE  job'.for \in {job.for, "none"} \/ mode = "down" \/ job.for = "head" \/ Client
    OBVIOUS
<1>1. NoJob.for = "none" /\ job \in JobType
    BY NoJobIsJob DEF IInv, TypeOK, CallType
<1>2. CASE CreateSelect
    <2>1. job' = [job EXCEPT !.bd = NewDesc, !.grown = (freeq = << >>)]
        BY <1>2 DEF CreateSelect
    <2> QED BY <1>1, <2>1, GivenBlock
<1>3. CASE FindHint \/ FindCandidate \/ PlaceForRoot
    <2>1. CASE FindHint
        BY <1>1, <2>1 DEF FindHint, JobType
    <2>2. CASE FindCandidate
        BY <1>1, <2>2 DEF FindCandidate, JobType
    <2>3. CASE PlaceForRoot
        BY <1>1, <2>3 DEF PlaceForRoot, JobType
    <2> QED BY <1>3, <2>1, <2>2, <2>3
<1>4. CASE Create /\ ~CreateSelect
    <2>1. job' \in {job, NoJob} \/ job.for = "head"
        BY <1>4 DEF Create, TruncFailsInFind, TruncFailsInInit, EndSession, CreateHead, CreateData, CreateSetLast,
                    CreateMetaHead, CreateMetaData, CreateCount, CreateHeadDone, CreateDataDone, Goto, Return
    <2> QED BY <1>1, <2>1
<1>5. CASE FindCreate \/ FindNone \/ PlaceFound \/ PlaceNone \/ Cell \/ EndSession \/ StrayWild \/ UNCHANGED vars
    <2>1. job' \in {job, NoJob}
        BY <1>5 DEF FindCreate, FindNone, PlaceFound, PlaceNone, Cell, WriteCell, InsertAccount, SetRoot,
                    UpdateTouch, WipeCell, DeleteAccount, EndSession, StrayWild, Goto, Return, vars
    <2> QED BY <1>1, <2>1
<1>6. CASE Open
    BY <1>6 DEF Open, OpenCreate, OpenLoads, OpenBlank, OpenDies
<1> QED BY <1>2, <1>3, <1>4, <1>5, <1>6 DEF Next, Library, Find, StraySignal, Crash

\* A place the client holds is the only one, and no call but an update or a
\* delete begins before it is used.
LEMMA WaitStep == OneHandle /\ IInv /\ WaitOK /\ [Next]_vars => WaitOK'
<1> SUFFICES ASSUME OneHandle, IInv, WaitOK, [Next]_vars PROVE WaitOK'
    OBVIOUS
<1>1. ASSUME NEW h \in Handles, place'[h] # NoPlace
      PROVE  job'.for \in {"none", "update", "delete"} /\ mode' # "down"
    <2>1. CASE PlaceFound
        BY <2>1, NoJobIsJob DEF PlaceFound, At, Running, Return
    <2>2. CASE place'[h] = place[h]
        <3>1. job.for \in {"none", "update", "delete"} /\ mode # "down"
            BY <1>1, <2>2 DEF WaitOK, Held
        <3>2. CASE Client
            <4>1. \A g \in Handles : g = h
                BY DEF OneHandle
            <4>2. ~Close
                BY <1>1 DEF Close, EndSession
            <4>3. ASSUME NEW g \in Handles, NEW t, NEW size, NEW hint, FindStart(g, t, size, hint) PROVE FALSE
                BY <1>1, <2>2, <4>1, <4>3 DEF FindStart
            <4>4. ASSUME NEW g \in Handles, NEW v, InsertStart(g, v) PROVE FALSE
                <5>1. place' = [place EXCEPT ![h] = NoPlace]
                    BY <4>1, <4>4 DEF InsertStart
                <5> QED BY <1>1, <5>1 DEF IInv, TypeOK, ClientType
            <4>5. ASSUME NEW d \in DOMAIN live, NEW v \in Vals, UpdateStart(d, v)
                  PROVE  job'.for = "update" /\ mode' = mode
                BY <4>5, JobForIsJob DEF UpdateStart, AnyVal
            <4>6. ASSUME NEW d \in DOMAIN live, DeleteStart(d)
                  PROVE  job'.for = "delete" /\ mode' = mode
                BY <4>6, JobForIsJob DEF DeleteStart, AnyVal
            <4> QED BY <3>1, <3>2, <4>2, <4>3, <4>4, <4>5, <4>6 DEF Client
        <3>3. CASE ~Client
            <4>1. job'.for \in {"none", "update", "delete"}
                BY <3>1, <3>3, JobCases
            <4>2. ~EndSession
                BY <1>1 DEF EndSession
            <4>3. mode' \in {mode, "up", "init", "wild"}
                BY <3>3, <4>2
                DEF Next, Open, OpenCreate, OpenLoads, OpenBlank, OpenDies, Library, Create, CreateSelect,
                    TruncFailsInFind, TruncFailsInInit, CreateHead, CreateData, CreateSetLast, CreateMetaHead,
                    CreateMetaData, CreateCount, CreateHeadDone, CreateDataDone, Created, Find, FindHint, FindCreate,
                    FindCandidate, FindNone, PlaceFound, PlaceForRoot, PlaceNone, Cell, WriteCell, InsertAccount,
                    SetRoot, UpdateTouch, WipeCell, DeleteAccount, StraySignal, StrayWild, Crash, vars
            <4> QED BY <3>1, <4>1, <4>3
        <3> QED BY <3>2, <3>3
    <2> QED BY <1>1, <2>1, <2>2, PlaceCases
<1> QED BY <1>1 DEF WaitOK, Held

\* The last descriptor moves to a block as construct_block left it.
LEMMA MakeStep == IInv /\ MakeOK /\ [Next]_vars => MakeOK'
<1> SUFFICES ASSUME IInv, MakeOK, [Next]_vars PROVE MakeOK'
    OBVIOUS
<1>1. CASE CreateHead
    BY <1>1 DEF CreateHead, Goto, MakeOK
<1>2. CASE CreateData
    <2>1. /\ (pc' = "setlast" /\ job' = job) \/ pc' = "idle"
          /\ page' = [page EXCEPT ![job.bd] = [type |-> BlockTypeOf(job.t), dtype |-> job.t,
                                                free |-> InitialFree(job.t), start |-> DataSize]]
          /\ job.bd \in Blocks
        BY <1>2 DEF CreateData, At, Goto, Return, IInv, CallOK
    <2>2. page'[job.bd].free = InitialFree(job.t) /\ page'[job.bd].start = DataSize
        BY <2>1 DEF IInv, TypeOK, FileType
    <2> QED BY <2>1, <2>2 DEF MakeOK
<1>3. CASE Open \/ StrayWild \/ UNCHANGED vars
    <2>1. UNCHANGED <<pc, job, page>> \/ pc' = "select"
        BY <1>3 DEF Open, OpenCreate, OpenLoads, OpenBlank, OpenDies, StrayWild, vars, file
    <2> QED BY <2>1 DEF MakeOK
<1>4. CASE (Create /\ ~CreateHead /\ ~CreateData) \/ Find \/ Cell \/ Client \/ EndSession
    <2>1. pc' # "setlast"
        BY <1>4 DEF Create, CreateSelect, TruncFailsInFind, TruncFailsInInit, EndSession, CreateSetLast,
                    CreateMetaHead, CreateMetaData, CreateCount, CreateHeadDone, CreateDataDone, Find, FindHint,
                    FindCreate, FindCandidate, FindNone, PlaceFound, PlaceForRoot, PlaceNone, Cell, WriteCell,
                    InsertAccount, SetRoot, UpdateTouch, WipeCell, DeleteAccount, Client, FindStart, InsertStart,
                    UpdateStart, DeleteStart, Close, Goto, Return
    <2> QED BY <2>1 DEF MakeOK
<1> QED BY <1>1, <1>2, <1>3, <1>4 DEF Next, Library, StraySignal, Crash

\* Where an insertion in progress comes from.
LEMMA InsertingCases ==
    ASSUME IInv, WhereOK, [Next]_vars, Inserting'
    PROVE  \/ Inserting /\ job'.bd = job.bd /\ job'.off = job.off /\ page' = page
           \/ PlaceForRoot /\ job'.bd = job.bd /\ job'.off = page[job.bd].start /\ page' = page
           \/ \E h \in Handles : /\ place[h] # NoPlace
                                 /\ job'.bd = place[h].bd /\ job'.off = place[h].off /\ page' = page
<1>1. job'.for \in {"insert", "root"} /\ pc' \in {"write", "account"}
    BY DEF Inserting
<1>2. CASE WriteCell
    <2>1. job' = job /\ pc = "write" /\ page' = page
        BY <1>2 DEF WriteCell, At, Goto, file
    <2> QED BY <1>1, <2>1 DEF Inserting
<1>3. CASE PlaceForRoot
    <2>1. job' = [job EXCEPT !.off = page[job.bd].start] /\ page' = page
        BY <1>3 DEF PlaceForRoot, file
    <2> QED BY <1>3, <2>1 DEF IInv, TypeOK, CallType, JobType
<1>4. ASSUME NEW h \in Handles, NEW v \in Vals, InsertStart(h, v)
      PROVE  place[h] # NoPlace /\ job'.bd = place[h].bd /\ job'.off = place[h].off /\ page' = page
    BY <1>4 DEF InsertStart, NoJob, file
<1>5. ASSUME NEW d \in DOMAIN live, NEW v \in Vals, UpdateStart(d, v) PROVE FALSE
    <2>1. job'.for = "update"
        BY <1>5, JobForIsJob DEF UpdateStart, AnyVal
    <2> QED BY <1>1, <2>1
<1>6. ASSUME NEW d \in DOMAIN live, DeleteStart(d) PROVE FALSE
    BY <1>1, <1>6 DEF DeleteStart
<1>7. CASE Client
    BY <1>1, <1>4, <1>5, <1>6, <1>7 DEF Client, FindStart, Close, EndSession
<1>8. CASE Open \/ StrayWild \/ UNCHANGED vars
    <2>1. UNCHANGED <<pc, job, page>> \/ pc' = "select"
        BY <1>8 DEF Open, OpenCreate, OpenLoads, OpenBlank, OpenDies, StrayWild, vars, file
    <2> QED BY <1>1, <2>1 DEF Inserting
<1>9. CASE Create \/ FindHint \/ FindCreate \/ FindCandidate \/ FindNone \/ PlaceFound \/ PlaceNone \/ EndSession
    BY <1>1, <1>9 DEF Create, CreateSelect, TruncFailsInFind, TruncFailsInInit, EndSession, CreateHead, CreateData,
                      CreateSetLast, CreateMetaHead, CreateMetaData, CreateCount, CreateHeadDone, CreateDataDone,
                      FindHint, FindCreate, FindCandidate, FindNone, PlaceFound, PlaceNone, Goto, Return
<1>10. CASE InsertAccount \/ SetRoot \/ UpdateTouch \/ WipeCell \/ DeleteAccount
    BY <1>1, <1>10 DEF InsertAccount, SetRoot, UpdateTouch, WipeCell, DeleteAccount, Goto, Return
<1> QED
    BY <1>2, <1>3, <1>4, <1>7, <1>8, <1>9, <1>10 DEF Next, Library, Find, Cell, StraySignal, Crash

\* The state Account stores.
LEMMA AccountFields ==
    ASSUME NEW p \in PageType, NEW free, NEW size
    PROVE  /\ Account(p, free, size).free = free
           /\ Account(p, free, size).start = (IF free > 0 THEN p.start + size ELSE UNDEF)
BY DEF Account, PageType

\* How many cells a block has.
LEMMA CellsOf ==
    ASSUME CountOK, NEW b
    PROVE  /\ IsFiniteSet(LiveIn(b)) /\ Cardinality(LiveIn(b)) \in Nat
           /\ Leaving(b) \in {0, 1}
<1>1. LiveIn(b) \subseteq DOMAIN live
    BY DEF LiveIn
<1>2. IsFiniteSet(LiveIn(b))
    BY <1>1, FS_Subset DEF CountOK
<1> QED BY <1>2, FS_CardinalityType DEF Leaving

\* An insertion takes one cell from free_cells, which has one.
LEMMA InsertionCounts ==
    ASSUME IInv, WhereOK, FreeInv, InsertAccount, Fixed(job.bd)
    PROVE  Inserted(page[job.bd].free, job.t, job.size) = page[job.bd].free - 1
<1>1. job.bd \in 1 .. last /\ page[job.bd].dtype = job.t /\ Inserting
    BY DEF InsertAccount, At, WhereOK, JobOK, Works, IInv, CallOK, Inserting
<1>2. job.t \in FixTypes /\ page[job.bd].free \in Nat
    BY <1>1, FixedType
<1>3. page[job.bd].free > 0
    BY <1>1 DEF FreeInv, PromiseOK
<1>4. page[job.bd].free + Cardinality(LiveIn(job.bd)) + Leaving(job.bd) <= Capacity(job.t)
    BY <1>1 DEF FreeInv, CountOK
<1>5. /\ Cardinality(LiveIn(job.bd)) \in Nat /\ Leaving(job.bd) \in {0, 1}
      /\ Capacity(job.t) \in Nat
    BY <1>2, CellsOf, CapacityBounds DEF FreeInv
<1>6. page[job.bd].free <= Capacity(job.t)
    BY <1>2, <1>4, <1>5
<1> QED BY <1>2, <1>3, <1>6, CountsByOne

\* A deletion gives the cell back that it took from the client.
LEMMA DeletionCounts ==
    ASSUME IInv, WhereOK, FreeInv, DeleteAccount, Fixed(job.bd)
    PROVE  Deleted(page[job.bd].free, job.t, DeletedSize) = page[job.bd].free + 1
<1>1. pc = "forget" /\ job.bd \in 1 .. last /\ page[job.bd].dtype = job.t
    BY DEF DeleteAccount, At, WhereOK, JobOK, Works
<1>2. job.t \in FixTypes /\ page[job.bd].free \in Nat
    BY <1>1, FixedType
<1>3. page[job.bd].free + Cardinality(LiveIn(job.bd)) + Leaving(job.bd) <= Capacity(job.t)
    BY <1>1 DEF FreeInv, CountOK
<1>4. Cardinality(LiveIn(job.bd)) \in Nat /\ Leaving(job.bd) = 1 /\ Capacity(job.t) \in Nat
    BY <1>1, <1>2, CellsOf, CapacityBounds DEF FreeInv, Leaving
<1>5. page[job.bd].free + 1 <= Capacity(job.t)
    BY <1>2, <1>3, <1>4
<1> QED BY <1>2, <1>5, CountsByOne

\* What is promised is kept: a step takes room from a block only by inserting.
LEMMA PromiseStep ==
    OneHandle /\ IInv /\ IInv' /\ KeepsAllocated /\ WhereOK /\ FreeInv /\ [Next]_vars => PromiseOK'
<1> SUFFICES ASSUME OneHandle, IInv, IInv', KeepsAllocated, WhereOK, FreeInv, [Next]_vars PROVE PromiseOK'
    OBVIOUS
<1>1. ASSUME NEW b \in 1 .. last PROVE Fixed(b)' = Fixed(b) /\ page[b] \in PageType /\ page[b].free \in Nat
    BY StaysAllocated, Fields DEF Fixed
<1>2. ASSUME NEW b \in 1 .. last', Fixed(b)', page'[b].start # UNDEF PROVE page'[b].free > 0
    <2>1. CASE b \notin 1 .. last
        <3>1. CreateSetLast /\ b = job.bd /\ job.for # "head" /\ page' = page
            BY <2>1, NewBlock
        <3>2. page[b].free = InitialFree(job.t) /\ page[b].dtype = job.t
            BY <3>1 DEF CreateSetLast, At, FreeInv, MakeOK, WhereOK, JobOK, Making
        <3>3. page'[b].dtype \in FixTypes
            <4>1. b \in 0 .. last' /\ b # 0
                BY Fields DEF IInv, TypeOK, FileType, Blocks, UNDEF
            <4>2. page'[b].type = BlockTypeOf(page'[b].dtype) /\ page'[b].dtype \in CellTypes
                BY <4>1 DEF IInv, AllocationSound, BlocksConstructed
            <4> QED BY <1>2, <4>2 DEF Fixed, BlockTypeOf, CellTypes
        <3>4. page'[b].free = Capacity(job.t) /\ job.t \in FixTypes
            BY <3>1, <3>2, <3>3, TypesAreApart DEF InitialFree
        <3> QED BY <3>4, CapacityBounds
    <2>2. CASE b \in 1 .. last /\ page'[b] = page[b]
        BY <1>1, <1>2, <2>2 DEF FreeInv, PromiseOK
    <2>3. CASE b \in 1 .. last /\ \E free, size : page'[b] = Account(page[b], free, size)
        <3>1. PICK free, size : page'[b] = Account(page[b], free, size)
            BY <2>3
        <3>2. page'[b].free = free /\ page'[b].start = (IF free > 0 THEN page[b].start + size ELSE UNDEF)
            BY <1>1, <2>3, <3>1, AccountFields
        <3> QED BY <1>2, <3>2
    <2> QED BY <2>1, <2>2, <2>3, PageCases
<1>3. ASSUME NEW b \in 1 .. last, Fixed(b), page[b].free > 0, ~InsertAccount PROVE page'[b].free > 0
    <2>1. CASE page'[b] = page[b]
        BY <1>3, <2>1
    <2>2. CASE DeleteAccount /\ b = job.bd /\ page'[b] = Account(page[b], Deleted(page[b].free, job.t, DeletedSize), DeletedSize)
        <3>1. page'[b].free = Deleted(page[b].free, job.t, DeletedSize)
            BY <1>1, <2>2, AccountFields
        <3>2. Deleted(page[b].free, job.t, DeletedSize) = page[b].free + 1
            BY <1>3, <2>2, DeletionCounts
        <3> QED BY <1>1, <1>3, <3>1, <3>2
    <2> QED BY <1>3, <2>1, <2>2, PageCases
<1>4. ASSUME NEW h \in Handles, place'[h] # NoPlace, page'[place'[h].bd].type = "BLOCK_DATA_FIX" PROVE page'[place'[h].bd].free > 0
    <2>1. CASE place'[h] = place[h]
        <3>1. place[h].bd \in 1 .. last
            BY <1>4, <2>1 DEF WhereOK, PlaceOK
        <3>2. page[place[h].bd].free > 0 /\ Fixed(place[h].bd)
            <4>1. Fixed(place[h].bd)
                BY <1>4, <2>1, <3>1, StaysAllocated DEF Fixed
            <4> QED BY <1>4, <2>1, <4>1 DEF FreeInv, PromiseOK
        <3>3. ~InsertAccount
            BY <1>4, <2>1 DEF FreeInv, WaitOK, Held, InsertAccount, At, IInv, CallOK, WhereOK, JobOK
        <3> QED BY <1>3, <2>1, <3>1, <3>2, <3>3
    <2>2. CASE PlaceFound /\ place'[h] = FoundPlace
        <3>1. /\ place'[h].bd = job.bd /\ page' = page /\ page[job.bd].start # UNDEF
              /\ job.bd \in 1 .. last
            BY <2>2 DEF PlaceFound, FoundPlace, At, file, WhereOK, JobOK
        <3>2. Fixed(job.bd)
            BY <1>4, <3>1 DEF Fixed
        <3> QED BY <3>1, <3>2 DEF FreeInv, PromiseOK
    <2> QED BY <1>4, <2>1, <2>2, PlaceCases
<1>5. ASSUME Inserting', Fixed(job.bd)' PROVE page'[job'.bd].free > 0
    <2>1. CASE Inserting /\ job'.bd = job.bd /\ page' = page
        BY <1>5, <2>1 DEF FreeInv, PromiseOK, Fixed
    <2>2. CASE PlaceForRoot /\ job'.bd = job.bd /\ page' = page
        BY <1>5, <2>2 DEF PlaceForRoot, At, WhereOK, JobOK, FreeInv, PromiseOK, Fixed
    <2>3. ASSUME NEW h \in Handles, place[h] # NoPlace, job'.bd = place[h].bd, page' = page
          PROVE  page'[job'.bd].free > 0
        BY <1>5, <2>3 DEF FreeInv, PromiseOK, Fixed
    <2> QED BY <1>5, <2>1, <2>2, <2>3, InsertingCases
<1>6. ASSUME NEW h \in Handles, (place[h] # NoPlace /\ Fixed(place[h].bd))' PROVE (page[place[h].bd].free > 0)'
    BY <1>4, <1>6 DEF Fixed
<1> QED BY <1>2, <1>5, <1>6 DEF PromiseOK

\* What a step does to the number of cells.
LEMMA LiveDomains ==
    ASSUME IInv, [Next]_vars
    PROVE  \/ /\ InsertAccount
              /\ DOMAIN live' = DOMAIN live \cup {JobDesc} /\ pc' \notin {"wipe", "forget"}
           \/ \E d \in DOMAIN live : /\ DeleteStart(d)
                                     /\ DOMAIN live' = DOMAIN live \ {d} /\ page' = page
                                     /\ pc = "idle" /\ pc' = "wipe" /\ job'.bd = d.bd
           \/ DeleteAccount /\ DOMAIN live' = DOMAIN live /\ pc' = "idle"
           \/ /\ DOMAIN live' = DOMAIN live /\ ~InsertAccount /\ ~DeleteAccount
              /\ pc' \in {"wipe", "forget"} => pc \in {"wipe", "forget"} /\ job' = job
<1> DEFINE Rest == /\ DOMAIN live' = DOMAIN live /\ ~InsertAccount /\ ~DeleteAccount
                   /\ pc' \in {"wipe", "forget"} => pc \in {"wipe", "forget"} /\ job' = job
<1>1. CASE InsertAccount
    BY <1>1 DEF InsertAccount, Goto, Return
<1>2. CASE DeleteAccount
    BY <1>2 DEF DeleteAccount, Return
<1>3. ASSUME NEW d \in DOMAIN live, DeleteStart(d)
      PROVE  /\ DeleteStart(d)
             /\ DOMAIN live' = DOMAIN live \ {d} /\ page' = page
             /\ pc = "idle" /\ pc' = "wipe" /\ job'.bd = d.bd
    <2>1. job'.bd = d.bd
        BY <1>3, JobForIsJob DEF DeleteStart, AnyVal
    <2> QED BY <1>3, <2>1 DEF DeleteStart, Ready, file
<1>4. CASE WriteCell
    <2>1. DOMAIN live' = DOMAIN live /\ pc = "write" /\ pc' \notin {"wipe", "forget"}
        BY <1>4 DEF WriteCell, At, Goto
    <2> QED BY <2>1 DEF InsertAccount, DeleteAccount, At
<1>5. CASE (Open \/ Create \/ Find \/ SetRoot \/ UpdateTouch \/ WipeCell \/ StrayWild \/ UNCHANGED vars)
           /\ ~InsertAccount /\ ~DeleteAccount
    <2>1. live' = live
        BY <1>5 DEF Open, OpenCreate, OpenLoads, OpenBlank, OpenDies, Create, CreateSelect, TruncFailsInFind,
                    TruncFailsInInit, CreateHead, CreateData, CreateSetLast, CreateMetaHead, CreateMetaData,
                    CreateCount, CreateHeadDone, CreateDataDone, Created, Find, FindHint, FindCreate, FindCandidate,
                    FindNone, PlaceFound, PlaceForRoot, PlaceNone, EndSession, SetRoot, UpdateTouch, WipeCell,
                    StrayWild, vars
    <2>2. pc' \in {"wipe", "forget"} => pc \in {"wipe", "forget"} /\ job' = job
        BY <1>5 DEF Open, OpenCreate, OpenLoads, OpenBlank, OpenDies, Create, CreateSelect, TruncFailsInFind,
                    TruncFailsInInit, CreateHead, CreateData, CreateSetLast, CreateMetaHead, CreateMetaData,
                    CreateCount, CreateHeadDone, CreateDataDone, Created, Find, FindHint, FindCreate, FindCandidate,
                    FindNone, PlaceFound, PlaceForRoot, PlaceNone, EndSession, SetRoot, UpdateTouch, WipeCell,
                    StrayWild, At, Goto, Return, vars
    <2> QED BY <1>5, <2>1, <2>2
<1>6. CASE (Client \/ EndSession) /\ (\A d \in DOMAIN live : ~DeleteStart(d))
           /\ ~InsertAccount /\ ~DeleteAccount
    <2>1. live' = live /\ pc' \notin {"wipe", "forget"}
        BY <1>6 DEF Client, FindStart, InsertStart, UpdateStart, Close, EndSession
    <2> QED BY <1>6, <2>1
<1> QED
    BY <1>1, <1>2, <1>3, <1>4, <1>5, <1>6 DEF Next, Library, Cell, Client, StraySignal, Crash

\* No block gets more cells than it has room for.
LEMMA CountStep ==
    OneHandle /\ IInv /\ IInv' /\ KeepsAllocated /\ WhereOK /\ FreeInv /\ [Next]_vars => CountOK'
<1> SUFFICES ASSUME OneHandle, IInv, IInv', KeepsAllocated, WhereOK, FreeInv, [Next]_vars PROVE CountOK'
    OBVIOUS
<1>1. IsFiniteSet(DOMAIN live) /\ CountOK
    BY DEF FreeInv, CountOK
<1>2. IsFiniteSet(DOMAIN live')
    <2>1. IsFiniteSet(DOMAIN live \cup {JobDesc})
        BY <1>1, FS_AddElement
    <2>2. DOMAIN live' \subseteq DOMAIN live \cup {JobDesc}
        BY LiveDomains
    <2> QED BY <2>1, <2>2, FS_Subset
<1>3. ASSUME NEW b \in 1 .. last', Fixed(b)'
      PROVE  page'[b].free + Cardinality(LiveIn(b)') + Leaving(b)' <= Capacity(page'[b].dtype)
    <2>1. CASE b \notin 1 .. last
        <3>1. CreateSetLast /\ b = job.bd /\ job.for # "head" /\ b > last /\ page' = page /\ live' = live
            BY <2>1, NewBlock
        <3>2. LiveIn(b)' = {}
            BY <2>1, <3>1 DEF LiveIn, WhereOK, LiveOK
        <3>3. Cardinality(LiveIn(b)') = 0 /\ Leaving(b)' = 0
            BY <3>1, <3>2, FS_EmptySet DEF Leaving, CreateSetLast, Goto
        <3>4. page[b].free = InitialFree(job.t) /\ page[b].dtype = job.t
            BY <3>1 DEF CreateSetLast, At, FreeInv, MakeOK, WhereOK, JobOK, Making
        <3>5. page'[b].dtype \in FixTypes
            <4>1. b \in 0 .. last' /\ b # 0
                BY Fields DEF IInv, TypeOK, FileType, Blocks, UNDEF
            <4>2. page'[b].type = BlockTypeOf(page'[b].dtype) /\ page'[b].dtype \in CellTypes
                BY <4>1 DEF IInv, AllocationSound, BlocksConstructed
            <4> QED BY <1>3, <4>2 DEF Fixed, BlockTypeOf, CellTypes
        <3>6. page'[b].free = Capacity(job.t) /\ page'[b].dtype = job.t /\ job.t \in FixTypes
            BY <3>1, <3>4, <3>5, TypesAreApart DEF InitialFree
        <3> QED BY <3>3, <3>6, CapacityBounds
    <2>2. CASE b \in 1 .. last
        <3> DEFINE n == Cardinality(LiveIn(b))
                   m == Cardinality(LiveIn(b)')
                   c == Capacity(page[b].dtype)
        <3>1. /\ Fixed(b) /\ page'[b].dtype = page[b].dtype /\ page[b] \in PageType
              /\ page[b].free \in Nat /\ c \in Nat
            BY <1>3, <2>2, StaysAllocated, FixedType, CapacityBounds, Fields DEF Fixed
        <3>2. page[b].free + n + Leaving(b) <= c
            BY <1>1, <2>2, <3>1 DEF CountOK
        <3>3. IsFiniteSet(LiveIn(b)) /\ n \in Nat /\ Leaving(b) \in {0, 1}
            BY <1>1, CellsOf
        <3>4. CASE /\ InsertAccount
                   /\ DOMAIN live' = DOMAIN live \cup {JobDesc} /\ pc' \notin {"wipe", "forget"}
            <4>1. Leaving(b)' = 0
                BY <3>4 DEF Leaving
            <4>2. CASE b = job.bd
                <5>1. page'[b] = Account(page[b], Inserted(page[b].free, job.t, job.size), job.size)
                    <6>1. page' = [page EXCEPT ![job.bd] = Account(@, Inserted(@.free, job.t, job.size), job.size)]
                        BY <3>4 DEF InsertAccount
                    <6>2. b \in Blocks /\ page \in [Blocks -> PageType]
                        BY <2>2, StaysAllocated DEF IInv, TypeOK, FileType
                    <6> QED BY <4>2, <6>1, <6>2
                <5>2. page'[b].free = page[b].free - 1
                    BY <3>1, <3>4, <4>2, <5>1, AccountFields, InsertionCounts
                <5>3. LiveIn(b)' \subseteq LiveIn(b) \cup {JobDesc}
                    BY <3>4 DEF LiveIn
                <5>4. IsFiniteSet(LiveIn(b) \cup {JobDesc}) /\ Cardinality(LiveIn(b) \cup {JobDesc}) \in {n, n + 1}
                    BY <3>3, FS_AddElement
                <5>5. m \in Nat /\ m <= n + 1
                    BY <3>3, <5>3, <5>4, FS_Subset, FS_CardinalityType
                <5> QED BY <3>1, <3>2, <3>3, <4>1, <5>2, <5>5
            <4>3. CASE b # job.bd
                <5>1. page'[b] = page[b]
                    BY <2>2, <3>4, <4>3, PageCases
                <5>2. LiveIn(b)' = LiveIn(b)
                    BY <3>4, <4>3 DEF LiveIn, JobDesc
                <5> QED BY <3>1, <3>2, <3>3, <4>1, <5>1, <5>2
            <4> QED BY <4>2, <4>3
        <3>5. ASSUME NEW d \in DOMAIN live, DOMAIN live' = DOMAIN live \ {d}, page' = page,
                     pc = "idle", pc' = "wipe", job'.bd = d.bd
              PROVE  page'[b].free + m + Leaving(b)' <= c
            <4>1. Leaving(b) = 0
                BY <3>5 DEF Leaving
            <4>2. CASE d.bd = b
                <5>1. LiveIn(b)' = LiveIn(b) \ {d} /\ d \in LiveIn(b) /\ Leaving(b)' = 1
                    BY <3>5, <4>2 DEF LiveIn, Leaving
                <5>2. m = n - 1
                    BY <3>3, <5>1, FS_RemoveElement
                <5> QED BY <3>1, <3>2, <3>3, <3>5, <4>1, <5>1, <5>2
            <4>3. CASE d.bd # b
                <5>1. LiveIn(b)' = LiveIn(b) /\ Leaving(b)' = 0
                    BY <3>5, <4>3 DEF LiveIn, Leaving
                <5> QED BY <3>1, <3>2, <3>3, <3>5, <4>1, <5>1
            <4> QED BY <4>2, <4>3
        <3>6. CASE DeleteAccount /\ DOMAIN live' = DOMAIN live /\ pc' = "idle"
            <4>1. LiveIn(b)' = LiveIn(b) /\ Leaving(b)' = 0 /\ pc = "forget"
                BY <3>6 DEF LiveIn, Leaving, DeleteAccount, At
            <4>2. CASE b = job.bd
                <5>1. page'[b] = Account(page[b], Deleted(page[b].free, job.t, DeletedSize), DeletedSize)
                    <6>1. page' = [page EXCEPT ![job.bd] = Account(@, Deleted(@.free, job.t, DeletedSize), DeletedSize)]
                        BY <3>6 DEF DeleteAccount
                    <6>2. b \in Blocks /\ page \in [Blocks -> PageType]
                        BY <2>2, StaysAllocated DEF IInv, TypeOK, FileType
                    <6> QED BY <4>2, <6>1, <6>2
                <5>2. page'[b].free = page[b].free + 1
                    BY <3>1, <3>6, <4>2, <5>1, AccountFields, DeletionCounts
                <5>3. Leaving(b) = 1
                    BY <4>1, <4>2 DEF Leaving
                <5> QED BY <3>1, <3>2, <3>3, <4>1, <5>2, <5>3
            <4>3. CASE b # job.bd
                <5>1. page'[b] = page[b]
                    BY <2>2, <3>6, <4>3, PageCases DEF InsertAccount, At, DeleteAccount
                <5> QED BY <3>1, <3>2, <3>3, <4>1, <5>1
            <4> QED BY <4>2, <4>3
        <3>7. CASE /\ DOMAIN live' = DOMAIN live /\ ~InsertAccount /\ ~DeleteAccount
                   /\ pc' \in {"wipe", "forget"} => pc \in {"wipe", "forget"} /\ job' = job
            <4>1. LiveIn(b)' = LiveIn(b) /\ page'[b] = page[b]
                BY <2>2, <3>7, PageCases DEF LiveIn
            <4>2. Leaving(b)' = Leaving(b) \/ Leaving(b)' = 0
                BY <3>7 DEF Leaving
            <4> QED BY <3>1, <3>2, <3>3, <4>1, <4>2
        <3> QED BY <3>1, <3>4, <3>5, <3>6, <3>7, LiveDomains
    <2> QED BY <2>1, <2>2
<1> QED BY <1>2, <1>3 DEF CountOK

\* FreeInv holds in every state of a client with one handle.
LEMMA FreeInit == Init => FreeInv
<1> SUFFICES ASSUME Init PROVE FreeInv
    OBVIOUS
<1>1. WaitOK /\ MakeOK
    BY DEF Init, WaitOK, MakeOK, Held
<1>2. last = -1 /\ live = << >> /\ (\A h \in Handles : place[h] = NoPlace) /\ ~Inserting
    BY DEF Init, UNDEF, Inserting
<1>3. \A b \in 1 .. last : FALSE
    BY <1>2
<1>4. IsFiniteSet(DOMAIN live)
    BY <1>2, FS_EmptySet
<1> QED BY <1>1, <1>2, <1>3, <1>4 DEF FreeInv, PromiseOK, CountOK

LEMMA FreeStep ==
    OneHandle /\ IInv /\ IInv' /\ RootOK /\ WhereOK /\ FreeInv /\ [Next]_vars => FreeInv'
BY KeepsStep, WaitStep, MakeStep, PromiseStep, CountStep DEF FreeInv

\* The count of a block's free cells and the cells in it never exceed its
\* capacity, in all sessions and after any crash, for a client that uses each
\* place before it asks for the next: free_cells, an unsigned int, does not wrap
\* below zero although new_cell_start, not free_cells, is what is asked for room.
THEOREM FreeIsAccounted == OneHandle => (Spec => []FreeAccounting)
<1> SUFFICES ASSUME OneHandle PROVE Spec => []FreeAccounting
    OBVIOUS
<1>1. Init => QueueInv /\ WhereOK /\ FreeInv
    <2>1. Init => QueueInv
        BY StoreAssumptions DEF Init, QueueInv, CandidatesSound, FreshOK
    <2> QED BY <2>1, WhereInit, FreeInit
<1>2. IInv /\ IInv' /\ RootOK /\ (QueueInv /\ WhereOK /\ FreeInv) /\ [Next]_vars
          => (QueueInv /\ WhereOK /\ FreeInv)'
    BY QueueStep, WhereStep, FreeStep
<1>3. IInv /\ FreeInv => FreeAccounting
    <2> SUFFICES ASSUME IInv, FreeInv, NEW b \in 1 .. last, Fixed(b)
                 PROVE  page[b].free + Cardinality(LiveIn(b)) <= Capacity(page[b].dtype)
        BY DEF FreeAccounting, Fixed
    <2>1. page[b].free + Cardinality(LiveIn(b)) + Leaving(b) <= Capacity(page[b].dtype)
        BY DEF FreeInv, CountOK
    <2>2. /\ page[b].free \in Nat /\ Cardinality(LiveIn(b)) \in Nat /\ Leaving(b) \in {0, 1}
          /\ Capacity(page[b].dtype) \in Nat
        BY FixedType, CapacityBounds, CellsOf DEF FreeInv
    <2> QED BY <2>1, <2>2
<1> QED BY <1>1, <1>2, <1>3, Inductive, RootInductive, PTL DEF Spec
-------------------------------------------------------------------------------
(* What the arithmetic of addresses costs.                                 *)

\* Cells of size s in room bytes: as many as the quotient says, not one more.
LEMMA RoomFor ==
    ASSUME NEW room \in Nat, NEW s \in Nat \ {0}
    PROVE  /\ room \div s \in Nat
           /\ s * (room \div s) <= room /\ room < s * (room \div s) + s
<1>1. room = s * (room \div s) + (room % s) /\ room % s \in 0 .. s - 1 /\ room \div s \in Int
    OBVIOUS
<1> QED BY <1>1

\* Where the cells of a full block of fixed-size cells are: construct_block lets
\* the first one start behind the header, and each one follows the one before it.
CellOffset(t, k) == DataSize + k * FixSize[t]

\* A block that counts room for two cells of fixed size or more has no room for
\* the last of them, as cells_get_cell_ptr adds the offset to a pointer to 4 bytes.
\* If it were a pointer to one byte, the last cell would still be inside only if
\* the cells left room for a second header: the offset counts the header already.
THEOREM LastCellInside ==
    ASSUME NEW t \in FixTypes, Capacity(t) >= 2
    PROVE  LET inside == InBlock(BlockTypeOf(t), CellOffset(t, Capacity(t) - 1), FixSize[t])
           IN  /\ CellStep = 1 => (inside <=> 2 * DataSize + Capacity(t) * FixSize[t] <= BlockSize)
               /\ CellStep # 1 => ~inside
<1> DEFINE s    == FixSize[t]
           room == BlockSize - DataSize
           n    == Capacity(t)
           off  == CellOffset(t, n - 1)
<1>1. s \in Nat \ {0} /\ room \in Nat /\ CellStep \in Nat \ {0} /\ DataSize \in Nat
      /\ BlockSize = room + DataSize
    BY SizesAreNat, FixSizesAreNat
<1>2. n = room \div s
    BY DEF Capacity
<1>3. HeaderSize(BlockTypeOf(t)) = DataSize
    BY TypesAreApart DEF BlockTypeOf, HeaderSize
<1>4. off = DataSize + (n - 1) * s
    BY DEF CellOffset
<1> HIDE DEF s, room, n, off
<1>5. n \in Nat /\ s * n <= room /\ room < s * n + s
    BY <1>1, <1>2, RoomFor
<1>6. n >= 2
    BY DEF n
<1> DEFINE k == n - 2
<1>7. k \in Nat /\ n = k + 2
    BY <1>5, <1>6
<1> HIDE DEF k
<1>8. off = DataSize + s * k + s /\ s * n = s * k + 2 * s /\ s * k \in Nat /\ n * s = s * n
    BY <1>1, <1>4, <1>7
<1>9. off \in Nat /\ s * n = off - DataSize + s /\ off >= DataSize + s
    BY <1>1, <1>8
<1>10. InBlock(BlockTypeOf(t), off, s) <=>
          0 <= DataSize + CellStep * off /\ DataSize + CellStep * off + s <= room + DataSize
    BY <1>1, <1>3 DEF InBlock, Address
<1>11. CASE CellStep = 1
    <2>1. CellStep * off = off
        BY <1>9, <1>11
    <2>2. InBlock(BlockTypeOf(t), off, s) <=> 2 * DataSize + n * s <= BlockSize
        BY <1>1, <1>8, <1>9, <1>10, <2>1
    <2> QED BY <1>11, <2>2 DEF off, s, n
<1>12. CASE CellStep # 1
    <2>1. CellStep - 2 \in Nat /\ CellStep = 2 + (CellStep - 2)
        BY <1>1, <1>12
    <2>2. CellStep * off >= 2 * off
        BY <1>9, <2>1
    <2>3. CellStep * off \in Nat
        BY <1>1, <1>9
    <2>4. DataSize + CellStep * off + s > room + DataSize
        BY <1>1, <1>5, <1>9, <2>2, <2>3
    <2>5. ~InBlock(BlockTypeOf(t), off, s)
        BY <1>1, <1>10, <2>3, <2>4
    <2> QED BY <1>12, <2>5 DEF off, s, n
<1> QED BY <1>11, <1>12

\* With the sizes of the 64-bit build the first 10 objects of a block are inside its
\* page, and of attributes and integers the first 20 and 84; it counts room for 40,
\* 78 and 340 of them.
THEOREM BuildCellsInside ==
    ASSUME BlockSize = 4096, DataSize = 16, CellStep = 4, NEW t \in FixTypes, NEW k \in Nat
    PROVE  LET inside == InBlock(BlockTypeOf(t), CellOffset(t, k), FixSize[t])
           IN  /\ FixSize[t] = 100 => Capacity(t) = 40  /\ (inside <=> k < 10)
               /\ FixSize[t] = 52  => Capacity(t) = 78  /\ (inside <=> k < 20)
               /\ FixSize[t] = 12  => Capacity(t) = 340 /\ (inside <=> k < 84)
<1>1. HeaderSize(BlockTypeOf(t)) = 16
    BY TypesAreApart DEF BlockTypeOf, HeaderSize
<1>2. ASSUME NEW s \in {100, 52, 12}, FixSize[t] = s
      PROVE  InBlock(BlockTypeOf(t), CellOffset(t, k), FixSize[t])
             <=> 16 + 4 * (16 + k * s) + s <= 4096
    <2>1. 0 <= 16 + 4 * (16 + k * s)
        OBVIOUS
    <2> QED BY <1>1, <1>2, <2>1 DEF InBlock, Address, CellOffset
<1>3. FixSize[t] = 100 => Capacity(t) = 40
    BY DEF Capacity
<1>4. FixSize[t] = 52 => Capacity(t) = 78
    BY DEF Capacity
<1>5. FixSize[t] = 12 => Capacity(t) = 340
    BY DEF Capacity
<1> QED BY <1>2, <1>3, <1>4, <1>5

\* With the sizes of the 64-bit build the meta cells of the first 42 blocks are in
\* the page of header block 0, and no others, although its group has 168.
THEOREM MetaCellsInside ==
    ASSUME BlockSize = 4096, HeadSize = 42, CellBlockSize = 24, CellStep = 4
    PROVE  GroupSize = 168 /\ \A b \in Nat : MetaInHeader(b) <=> b < 42
<1>1. GroupSize = 168
    BY DEF GroupSize
<1>2. ASSUME NEW b \in Nat PROVE MetaInHeader(b) <=> b < 42
    <2> DEFINE p == PosInGroup(b)
    <2>1. p = b % 168
        BY <1>1 DEF PosInGroup
    <2>2. p \in 0 .. 167 /\ (b < 168 => p = b) /\ (b - p = 0 => b < 168)
        BY <2>1
    <2>3. MetaInHeader(b) <=> b - p = 0 /\ 42 + 4 * (24 * p) + 24 <= 4096
        <3>1. 0 <= 42 + 4 * (24 * p)
            BY <2>2
        <3> QED BY <3>1 DEF MetaInHeader, HeaderOf, InBlock, Address, HeaderSize
    <2> HIDE DEF p
    <2> QED BY <2>2, <2>3
<1> QED BY <1>1, <1>2
===============================================================================
