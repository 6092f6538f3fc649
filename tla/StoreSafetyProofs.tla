--------------------------- MODULE StoreSafetyProofs ---------------------------
(***************************************************************************)
(* More proofs about BlockStore, on top of the invariant of                *)
(* BlockStoreProofs: what the candidate queues hold, and that close_storage*)
(* syncs whatever a session has changed.                                   *)
(***************************************************************************)
EXTENDS BlockStoreProofs

Queued(b) == \E t \in AllTypes : \E i \in DOMAIN cand[t] : cand[t][i] = b

\* A block that is being created is mapped and in no queue until the end.
FreshOK ==
    pc \in {"setlast", "meta", "count", "finish"} => job.bd \in loaded \cup heads /\ ~Queued(job.bd)

QueueInv == CandidatesSound /\ FreshOK

\* What a call works on is mapped, and so is what the client was told of.
MappedOK ==
    /\ pc \in {"write", "account", "setroot", "touch", "wipe", "forget"} => job.bd \in loaded \cup heads
    /\ pc = "place" /\ job.for = "root" => job.bd \in loaded \cup heads
    /\ job.for = "root" => job.hint = UNDEF
    /\ \A h \in Handles : place[h] # NoPlace => place[h].bd \in loaded \cup heads

\* The blocks a call has changed and has yet to mark dirty.
Pending ==
    IF pc \in {"meta", "count"} THEN heads
    ELSE IF pc \in {"account", "touch", "forget"} THEN {job.bd} ELSE {}

SyncOK ==
    /\ unsynced \subseteq loaded \cup heads
    /\ unsynced \subseteq dirty \cup Pending
    /\ mode = "down" => unsynced = {}
    /\ pc = "setroot" => heads \subseteq dirty

SessionInv == QueueInv /\ MappedOK /\ SyncOK
-------------------------------------------------------------------------------
(* The candidate queues.                                                   *)

\* A queue with a block put in front, cut at its bound.
LEMMA AppendedHolds ==
    ASSUME NEW q \in Seq(Blocks), Len(q) <= MaxCand, NEW b \in Blocks, NEW free,
           \A i \in DOMAIN q : q[i] # b,
           \A i, j \in DOMAIN q : q[i] = q[j] => i = j
    PROVE  LET new == Appended(q, b, free)
           IN  /\ Len(new) <= MaxCand /\ DOMAIN new = 1 .. Len(new) /\ Len(new) \in Nat
               /\ \A i \in DOMAIN new : new[i] = b \/ \E k \in DOMAIN q : new[i] = q[k]
               /\ \A i, j \in DOMAIN new : new[i] = new[j] => i = j
<1> DEFINE kept == IF Len(q) >= MaxCand THEN SubSeq(q, 1, Len(q) - 1) ELSE q
           new  == <<b>> \o kept
<1>1. MaxCand \in Nat \ {0} /\ Len(q) \in Nat /\ DOMAIN q = 1 .. Len(q)
    BY StoreAssumptions, LenProperties
<1>2. /\ kept \in Seq(Blocks) /\ Len(kept) < MaxCand /\ Len(kept) <= Len(q)
      /\ \A i \in 1 .. Len(kept) : kept[i] = q[i]
    <2>1. CASE Len(q) >= MaxCand
        <3>1. /\ SubSeq(q, 1, Len(q) - 1) \in Seq(Blocks)
              /\ Len(SubSeq(q, 1, Len(q) - 1)) = Len(q) - 1
              /\ \A i \in 1 .. Len(q) - 1 : SubSeq(q, 1, Len(q) - 1)[i] = q[i]
            BY <1>1, <2>1
        <3> QED BY <1>1, <2>1, <3>1
    <2>2. CASE ~(Len(q) >= MaxCand)
        BY <1>1, <2>2
    <2> QED BY <2>1, <2>2
<1> HIDE DEF kept
<1>3. /\ Len(new) = Len(kept) + 1 /\ DOMAIN new = 1 .. Len(kept) + 1 /\ Len(kept) \in Nat
      /\ new[1] = b /\ \A i \in 2 .. Len(kept) + 1 : new[i] = kept[i - 1]
    BY <1>2
<1> HIDE DEF new
<1>4. ASSUME NEW i \in 2 .. Len(kept) + 1
      PROVE  i - 1 \in 1 .. Len(kept) /\ i - 1 \in DOMAIN q /\ new[i] = q[i - 1] /\ new[i] # b
    <2>1. i - 1 \in 1 .. Len(kept) /\ i - 1 \in DOMAIN q
        BY <1>1, <1>2, <1>3
    <2> QED BY <1>2, <1>3, <2>1
<1>5. \A i \in DOMAIN new : i = 1 \/ i \in 2 .. Len(kept) + 1
    BY <1>3
<1>6. \A i \in DOMAIN new : new[i] = b \/ \E k \in DOMAIN q : new[i] = q[k]
    BY <1>3, <1>4, <1>5
<1>7. ASSUME NEW i \in DOMAIN new, NEW j \in DOMAIN new, new[i] = new[j] PROVE i = j
    <2>1. CASE i = 1 \/ j = 1
        BY <1>3, <1>4, <1>5, <1>7, <2>1
    <2>2. CASE i # 1 /\ j # 1
        <3>1. i \in 2 .. Len(kept) + 1 /\ j \in 2 .. Len(kept) + 1
            BY <1>5, <2>2
        <3>2. q[i - 1] = q[j - 1] /\ i - 1 \in DOMAIN q /\ j - 1 \in DOMAIN q
            BY <1>4, <1>7, <3>1
        <3>3. i - 1 = j - 1
            BY <3>2
        <3> QED BY <3>1, <3>3
    <2> QED BY <2>1, <2>2
<1>8. Len(new) <= MaxCand /\ Len(new) \in Nat
    BY <1>1, <1>2, <1>3
<1>9. CASE free = 0
    BY <1>1, <1>9 DEF Appended
<1>10. CASE free # 0
    <2>1. Appended(q, b, free) = new
        BY <1>10 DEF Appended, new, kept
    <2> QED BY <1>3, <1>6, <1>7, <1>8, <2>1
<1> QED BY <1>9, <1>10

\* What the queues are.
LEMMA Queues ==
    ASSUME IInv, CandidatesSound
    PROVE  /\ cand \in [AllTypes -> Seq(Blocks)]
           /\ \A t \in AllTypes : /\ DOMAIN cand[t] = 1 .. Len(cand[t]) /\ Len(cand[t]) <= MaxCand
                                  /\ \A i, j \in DOMAIN cand[t] : cand[t][i] = cand[t][j] => i = j
           /\ \A b : Queued(b) => b \in Blocks /\ b <= last /\ b \in loaded \cup heads
<1>1. cand \in [AllTypes -> Seq(Blocks)]
    BY DEF IInv, TypeOK, InfoType
<1>2. ASSUME NEW t \in AllTypes
      PROVE  /\ DOMAIN cand[t] = 1 .. Len(cand[t]) /\ Len(cand[t]) <= MaxCand
             /\ \A i \in DOMAIN cand[t] : /\ cand[t][i] \in Blocks
                                          /\ cand[t][i] <= last /\ cand[t][i] \in loaded \cup heads
             /\ \A i, j \in DOMAIN cand[t] : cand[t][i] = cand[t][j] => i = j
    <2>1. DOMAIN cand[t] = 1 .. Len(cand[t]) /\ \A i \in DOMAIN cand[t] : cand[t][i] \in Blocks
        BY <1>1, LenProperties, ElementOfSeq
    <2> QED BY <2>1 DEF CandidatesSound
<1> QED BY <1>1, <1>2 DEF Queued

\* As long as nothing is queued, the queues stay sound: blocks keep their types,
\* and nothing is unmapped before the session ends.
LEMMA QueuesKept ==
    ASSUME IInv, last' \in Int, CandidatesSound, KeepsAllocated, cand' = cand,
           loaded \subseteq loaded', heads \subseteq heads'
    PROVE  CandidatesSound'
<1>1. ASSUME NEW t \in AllTypes, NEW i \in 1 .. Len(cand[t])
      PROVE  /\ cand[t][i] \in loaded' \cup heads' /\ cand[t][i] <= last'
             /\ page'[cand[t][i]].dtype = t
    <2>1. /\ cand[t][i] \in Blocks /\ cand[t][i] <= last /\ cand[t][i] \in loaded \cup heads
          /\ page[cand[t][i]].dtype = t
        BY Queues DEF CandidatesSound, Queued
    <2>2. cand[t][i] \in 0 .. last /\ last \in Int /\ last <= last'
        BY <2>1, Fields, StoreAssumptions DEF Blocks, KeepsAllocated
    <2>3. page'[cand[t][i]].dtype = t
        BY <2>1, <2>2 DEF KeepsAllocated
    <2>4. cand[t][i] <= last'
        BY <2>2
    <2> QED BY <2>1, <2>3, <2>4
<1> QED BY <1>1 DEF CandidatesSound

\* A new block that is in no queue goes into the queue of its type.
LEMMA QueuesGrow ==
    ASSUME IInv, QueueInv, pc = "finish", Created
    PROVE  CandidatesSound'
<1> DEFINE b   == job.bd
           t   == page[b].dtype
           new == Appended(cand[t], b, page[b].free)
<1>1. b \in Blocks /\ b <= last /\ b \in loaded \cup heads /\ ~Queued(b)
    <2>1. b \in Blocks /\ b \in loaded \cup heads /\ ~Queued(b)
        BY DEF QueueInv, FreshOK, IInv, CallOK
    <2>2. b <= last
        BY Fields DEF IInv, CreateOK
    <2> QED BY <2>1, <2>2
<1>2. UNCHANGED <<page, last, loaded, heads>> /\ cand' = [cand EXCEPT ![t] = Appended(@, b, page[b].free)]
    BY DEF Created, file
<1>3. /\ cand \in [AllTypes -> Seq(Blocks)]
      /\ \A u \in AllTypes : /\ DOMAIN cand[u] = 1 .. Len(cand[u]) /\ Len(cand[u]) <= MaxCand
                             /\ \A i, j \in DOMAIN cand[u] : cand[u][i] = cand[u][j] => i = j
    BY Queues DEF QueueInv
<1>4. CASE t \notin AllTypes
    <2>1. cand' = cand
        BY <1>2, <1>3, <1>4
    <2> QED BY <1>2, <2>1 DEF QueueInv, CandidatesSound
<1>5. CASE t \in AllTypes
    <2>1. cand[t] \in Seq(Blocks) /\ Len(cand[t]) <= MaxCand
          /\ (\A i \in DOMAIN cand[t] : cand[t][i] # b)
          /\ \A i, j \in DOMAIN cand[t] : cand[t][i] = cand[t][j] => i = j
        BY <1>1, <1>3, <1>5 DEF Queued
    <2>2. /\ Len(new) <= MaxCand /\ DOMAIN new = 1 .. Len(new)
          /\ \A i \in DOMAIN new : new[i] = b \/ \E k \in DOMAIN cand[t] : new[i] = cand[t][k]
          /\ \A i, j \in DOMAIN new : new[i] = new[j] => i = j
        <3> HIDE DEF t
        <3> QED BY <1>1, <2>1, AppendedHolds
    <2>3. cand'[t] = new /\ \A u \in AllTypes \ {t} : cand'[u] = cand[u]
        BY <1>2, <1>3, <1>5
    <2>4. \A k \in DOMAIN cand[t] : /\ cand[t][k] \in loaded \cup heads /\ cand[t][k] <= last
                                    /\ page[cand[t][k]].dtype = t
        BY <1>3, <1>5 DEF QueueInv, CandidatesSound
    <2> HIDE DEF new
    <2>5. \A i \in 1 .. Len(new) : /\ new[i] \in loaded \cup heads /\ new[i] <= last
                                   /\ page[new[i]].dtype = t
        BY <1>1, <2>2, <2>4
    <2>6. ASSUME NEW u \in AllTypes, u # t
          PROVE  /\ Len(cand'[u]) <= MaxCand
                 /\ \A i \in 1 .. Len(cand'[u]) :
                       /\ cand'[u][i] \in loaded' \cup heads' /\ cand'[u][i] <= last'
                       /\ page'[cand'[u][i]].dtype = u
                       /\ \A j \in 1 .. Len(cand'[u]) : cand'[u][i] = cand'[u][j] => i = j
        BY <1>2, <2>3, <2>6 DEF QueueInv, CandidatesSound
    <2>7. /\ Len(cand'[t]) <= MaxCand
          /\ \A i \in 1 .. Len(cand'[t]) :
                /\ cand'[t][i] \in loaded' \cup heads' /\ cand'[t][i] <= last'
                /\ page'[cand'[t][i]].dtype = t
                /\ \A j \in 1 .. Len(cand'[t]) : cand'[t][i] = cand'[t][j] => i = j
        BY <1>2, <2>2, <2>3, <2>5
    <2> QED BY <2>6, <2>7 DEF CandidatesSound
<1> QED BY <1>4, <1>5

\* The queues are emptied with the session.
LEMMA QueuesEnd == EndSession => QueueInv'
<1> SUFFICES ASSUME EndSession PROVE QueueInv'
    OBVIOUS
<1>1. /\ \A t \in AllTypes : cand'[t] = << >>
      /\ pc' = "idle"
    BY DEF EndSession
<1>2. FreshOK'
    BY <1>1 DEF FreshOK
<1>3. CandidatesSound'
    BY <1>1, StoreAssumptions DEF CandidatesSound
<1> QED BY <1>2, <1>3 DEF QueueInv

\* What a step does to the queues and to what is mapped.
LEMMA QueueCases ==
    IInv /\ [Next]_vars =>
        \/ cand' = cand /\ loaded \subseteq loaded' /\ heads \subseteq heads'
        \/ EndSession
        \/ pc = "finish" /\ Created
<1> SUFFICES ASSUME IInv, [Next]_vars
             PROVE  \/ cand' = cand /\ loaded \subseteq loaded' /\ heads \subseteq heads'
                    \/ EndSession
                    \/ pc = "finish" /\ Created
    OBVIOUS
<1>1. CASE Open
    BY <1>1, Fields DEF Open, OpenCreate, OpenLoads, OpenBlank, OpenDies, info
<1>2. CASE CreateSelect \/ TruncFailsInFind \/ CreateHead \/ CreateData \/ CreateSetLast \/ CreateMetaHead
           \/ CreateMetaData \/ CreateCount
    BY <1>2 DEF CreateSelect, TruncFailsInFind, CreateHead, CreateData, CreateSetLast, CreateMetaHead,
                CreateMetaData, CreateCount, Registered, info
<1>3. CASE CreateHeadDone \/ CreateDataDone
    BY <1>3 DEF CreateHeadDone, CreateDataDone, At
<1>4. CASE Find
    BY <1>4 DEF Find, FindHint, FindCreate, FindCandidate, FindNone, PlaceFound, PlaceForRoot, PlaceNone, info
<1>5. CASE Cell \/ StrayWild
    BY <1>5 DEF Cell, WriteCell, InsertAccount, SetRoot, UpdateTouch, WipeCell, DeleteAccount, StrayWild, info
<1>6. CASE Client
    BY <1>6 DEF Client, FindStart, InsertStart, UpdateStart, DeleteStart, Close, info
<1>7. CASE UNCHANGED vars
    BY <1>7 DEF vars, info
<1>8. CASE TruncFailsInInit \/ StraySignal \/ Crash
    BY <1>8 DEF TruncFailsInInit, StraySignal, Crash
<1> QED BY <1>1, <1>2, <1>3, <1>4, <1>5, <1>6, <1>7, <1>8 DEF Next, Library, Create

\* The block being created is mapped as it is constructed, and no queue can hold
\* it: a queued block is an allocated one, and this is the block after the last.
LEMMA FreshStep == IInv /\ QueueInv /\ [Next]_vars => FreshOK'
<1> SUFFICES ASSUME IInv, QueueInv, [Next]_vars PROVE FreshOK'
    OBVIOUS
<1>1. \A b : Queued(b) => b \in Blocks /\ b <= last
    BY Queues DEF QueueInv
<1>2. CASE CreateHead
    <2>1. last = -1 /\ cand' = cand /\ job' = job /\ job.bd \in heads'
        BY <1>2 DEF CreateHead, At, Goto, IInv, CreateOK, UNDEF
    <2>2. \A b \in Blocks : ~(b <= -1)
        BY StoreAssumptions DEF Blocks
    <2>3. ~Queued(job.bd)'
        BY <1>1, <2>1, <2>2 DEF Queued
    <2> QED BY <2>1, <2>3 DEF FreshOK
<1>3. CASE CreateData
    <2>1. /\ job.bd = last + 1 /\ last \in Int /\ cand' = cand /\ job.bd \in loaded'
          /\ job' = job \/ pc' = "idle"
        BY <1>3, Fields DEF CreateData, At, Running, Goto, Return, Registered, IInv, CreateOK
    <2>2. ~(last + 1 <= last)
        BY <2>1
    <2>3. ~Queued(job.bd)
        BY <1>1, <2>1, <2>2
    <2> QED BY <2>1, <2>3 DEF FreshOK, Queued
<1>4. CASE CreateSetLast \/ CreateMetaHead \/ CreateMetaData \/ CreateCount
    <2>1. /\ pc \in {"setlast", "meta", "count"}
          /\ UNCHANGED <<job, cand, loaded, heads>>
        BY <1>4 DEF CreateSetLast, CreateMetaHead, CreateMetaData, CreateCount, At, Goto, info
    <2> QED BY <2>1 DEF QueueInv, FreshOK, Queued
<1>5. CASE Open \/ CreateSelect \/ TruncFailsInFind \/ CreateHeadDone \/ CreateDataDone
    <2>1. pc' \notin {"setlast", "meta", "count", "finish"} \/ UNCHANGED <<pc, job, cand, loaded, heads>>
                \/ (UNCHANGED <<pc, job, cand, loaded>> /\ heads \subseteq heads')
        BY <1>5, Fields DEF Open, OpenCreate, OpenLoads, OpenBlank, OpenDies, CreateSelect, TruncFailsInFind,
                    CreateHeadDone, CreateDataDone, Goto, Return, info
    <2> QED BY <2>1 DEF QueueInv, FreshOK, Queued
<1>6. CASE Find
    <2>1. pc' \notin {"setlast", "meta", "count", "finish"}
        BY <1>6 DEF Find, FindHint, FindCreate, FindCandidate, FindNone, PlaceFound, PlaceForRoot, PlaceNone,
                    Goto, Return
    <2> QED BY <2>1 DEF FreshOK
<1>7. CASE Cell \/ StrayWild \/ UNCHANGED vars
    <2>1. pc' \notin {"setlast", "meta", "count", "finish"} \/ UNCHANGED <<pc, job, cand, loaded, heads>>
        BY <1>7 DEF Cell, WriteCell, InsertAccount, SetRoot, UpdateTouch, WipeCell, DeleteAccount, StrayWild,
                    Goto, Return, info, vars
    <2> QED BY <2>1 DEF QueueInv, FreshOK, Queued
<1>8. CASE Client /\ ~Close
    <2>1. pc' \notin {"setlast", "meta", "count", "finish"}
        BY <1>8 DEF Client, FindStart, InsertStart, UpdateStart, DeleteStart
    <2> QED BY <2>1 DEF FreshOK
<1>9. CASE EndSession
    BY <1>9, QueuesEnd DEF QueueInv
<1> QED
    BY <1>2, <1>3, <1>4, <1>5, <1>6, <1>7, <1>8, <1>9
    DEF Next, Library, Create, TruncFailsInInit, StraySignal, Close, Crash

\* Every step keeps the queues sound.
LEMMA QueueStep == IInv /\ IInv' /\ RootOK /\ QueueInv /\ [Next]_vars => QueueInv'
<1> SUFFICES ASSUME IInv, IInv', RootOK, QueueInv, [Next]_vars PROVE QueueInv'
    OBVIOUS
<1>1. last' \in Int
    BY StoreAssumptions DEF IInv, TypeOK, FileType, Blocks, UNDEF
<1>2. KeepsAllocated
    BY KeepsStep
<1>3. CandidatesSound'
    BY <1>1, <1>2, QueueCases, QueuesKept, QueuesGrow, QueuesEnd DEF QueueInv
<1> QED BY <1>3, FreshStep DEF QueueInv

\* What find_block_for_cell may choose is mapped, allocated and of the right
\* type, in every state: storage_try_append_insertion_candidates is the last
\* step of a creation, and only the end of a session unmaps.
THEOREM CandidatesAreSound == Spec => []CandidatesSound
<1>1. Init => QueueInv
    BY StoreAssumptions DEF Init, QueueInv, CandidatesSound, FreshOK
<1>2. IInv /\ IInv' /\ RootOK /\ QueueInv /\ [Next]_vars => QueueInv'
    BY QueueStep
<1>3. QueueInv => CandidatesSound
    BY DEF QueueInv
<1> QED BY <1>1, <1>2, <1>3, Inductive, RootInductive, PTL DEF Spec
-------------------------------------------------------------------------------
(* What close_storage syncs.                                               *)

\* The labels at which a call works on a block it has mapped.
Works == {"write", "account", "setroot", "touch", "wipe", "forget"}

\* What the client is told of stays mapped for the session.
LEMMA PlacesMapped ==
    ASSUME IInv, MappedOK, place' = place, loaded \subseteq loaded', heads \subseteq heads'
    PROVE  \A h \in Handles : place'[h] # NoPlace => place'[h].bd \in loaded' \cup heads'
BY DEF MappedOK

\* A call that goes on with the block it has.
LEMMA SameWork ==
    ASSUME IInv, MappedOK, job' = job, place' = place, loaded \subseteq loaded', heads \subseteq heads',
           pc' \in Works => pc \in Works \/ job.bd \in loaded' \cup heads',
           pc' = "place" /\ job.for = "root" => job.bd \in loaded' \cup heads'
    PROVE  MappedOK'
<1>1. \A h \in Handles : place'[h] # NoPlace => place'[h].bd \in loaded' \cup heads'
    BY PlacesMapped
<1>2. pc' \in Works => job'.bd \in loaded' \cup heads'
    BY DEF MappedOK, Works
<1>3. job'.for = "root" => job'.hint = UNDEF
    BY DEF MappedOK
<1> QED BY <1>1, <1>2, <1>3 DEF MappedOK, Works

\* A call that is over, or has not got to its block yet.
LEMMA NoWork ==
    ASSUME IInv, MappedOK, place' = place, loaded \subseteq loaded', heads \subseteq heads',
           pc' \notin Works \cup {"place"}, job'.for = "root" => job'.hint = UNDEF
    PROVE  MappedOK'
<1>1. \A h \in Handles : place'[h] # NoPlace => place'[h].bd \in loaded' \cup heads'
    BY PlacesMapped
<1> QED BY <1>1 DEF MappedOK, Works

\* The fields of a call: a new one, and one that is given its block.
LEMMA NewJobs ==
    /\ NoJob.hint = UNDEF
    /\ \A what, h, t, size, hint : [NoJob EXCEPT !.for = what, !.h = h, !.t = t, !.size = size, !.hint = hint].for = what
    /\ \A what, t, size : LET new == [NoJob EXCEPT !.for = what, !.t = t, !.size = size]
                          IN  new.for = what /\ new.hint = UNDEF
    /\ \A what, t, size, bd, off, val :
          LET new == [NoJob EXCEPT !.for = what, !.t = t, !.size = size, !.bd = bd, !.off = off, !.val = val]
          IN  new.for = what /\ new.bd = bd
    /\ [NoJob EXCEPT !.for = "head"].for = "head"
BY DEF NoJob

LEMMA GivenBlock ==
    ASSUME job \in JobType
    PROVE  /\ \A b, g : LET new == [job EXCEPT !.bd = b, !.grown = g]
                        IN  new.for = job.for /\ new.hint = job.hint
           /\ \A b : LET new == [job EXCEPT !.bd = b]
                     IN  new.for = job.for /\ new.hint = job.hint /\ new.bd = b
           /\ \A off : LET new == [job EXCEPT !.off = off]
                       IN  new.for = job.for /\ new.hint = job.hint /\ new.bd = job.bd
BY DEF JobType

\* The creation of a block and the search for a place.
LEMMA MappedInFind == IInv /\ QueueInv /\ MappedOK /\ (Create \/ Find) => MappedOK'
<1> SUFFICES ASSUME IInv, QueueInv, MappedOK, Create \/ Find PROVE MappedOK'
    OBVIOUS
<1>1. job \in JobType /\ (heads = {} \/ heads = {0})
    BY Fields DEF IInv, TypeOK, CallType
<1>2. NoJob.for # "root"
    BY NoJobIsJob
<1>3. CASE CreateSelect
    <2>1. /\ UNCHANGED <<place, loaded, heads>> /\ pc' = "construct"
          /\ job' = [job EXCEPT !.bd = NewDesc, !.grown = (freeq = << >>)]
        BY <1>3 DEF CreateSelect
    <2>2. job'.for = job.for /\ job'.hint = job.hint
        BY <1>1, <2>1, GivenBlock
    <2> QED BY <2>1, <2>2, NoWork DEF Works, MappedOK
<1>4. CASE TruncFailsInFind \/ FindNone \/ PlaceNone
    <2>1. /\ place' = place /\ loaded \subseteq loaded' /\ heads' = heads /\ pc' = "idle" /\ job' = NoJob
        BY <1>4 DEF TruncFailsInFind, FindNone, PlaceNone, Return, info
    <2> QED BY <1>2, <2>1, NoWork DEF Works
<1>5. CASE CreateHead \/ CreateData
    <2>1. /\ place' = place /\ loaded \subseteq loaded' /\ heads \subseteq heads' /\ pc' \in {"idle", "setlast"}
          /\ job' \in {job, NoJob}
        BY <1>5 DEF CreateHead, CreateData, Registered, Goto, Return
    <2> QED BY <1>2, <2>1, NoWork DEF Works, MappedOK
<1>6. CASE CreateSetLast \/ CreateMetaHead \/ CreateMetaData \/ CreateCount \/ FindCreate
    <2>1. /\ UNCHANGED <<place, loaded, heads>> /\ pc' \in {"meta", "count", "finish", "select"}
          /\ job' = job
        BY <1>6 DEF CreateSetLast, CreateMetaHead, CreateMetaData, CreateCount, FindCreate, Goto, info
    <2> QED BY <1>2, <2>1, NoWork DEF Works, MappedOK
<1>7. CASE CreateHeadDone
    <2>1. /\ UNCHANGED <<place, loaded, heads>> /\ pc' = "find"
          /\ job' = [NoJob EXCEPT !.for = "root", !.t = RootType, !.size = FixSize[RootType]]
        BY <1>7 DEF CreateHeadDone, Created
    <2>2. job'.hint = UNDEF
        BY <2>1, NewJobs
    <2> QED BY <2>1, <2>2, NoWork DEF Works
<1>8. CASE CreateDataDone
    <2>1. /\ UNCHANGED <<place, loaded, heads, job>> /\ pc' = "place" /\ pc = "finish"
        BY <1>8 DEF CreateDataDone, Created, Goto, At
    <2>2. job.bd \in loaded' \cup heads'
        BY <2>1 DEF QueueInv, FreshOK
    <2> QED BY <2>1, <2>2, SameWork
<1>9. CASE FindHint \/ FindCandidate
    <2>1. /\ UNCHANGED <<place, loaded, heads>> /\ pc' = "place"
        BY <1>9 DEF FindHint, FindCandidate, info
    <2>2. \E b : job' = [job EXCEPT !.bd = b] /\ (job.for = "root" => b \in loaded \cup heads)
        <3>1. CASE FindHint
            <4>1. job' = [job EXCEPT !.bd = job.hint] /\ job.hint # UNDEF
                BY <3>1 DEF FindHint, HintFits
            <4> QED BY <4>1 DEF MappedOK
        <3>2. CASE FindCandidate
            <4>1. PICK i \in Fitting : job' = [job EXCEPT !.bd = cand[job.t][i]]
                BY <3>2 DEF FindCandidate
            <4>2. job.t \in CellTypes /\ i \in 1 .. Len(cand[job.t])
                BY <3>2 DEF FindCandidate, At, IInv, CallOK, CreateOK, Fitting
            <4>3. cand[job.t][i] \in loaded \cup heads
                BY <4>2 DEF QueueInv, CandidatesSound, AllTypes
            <4> QED BY <4>1, <4>3
        <3> QED BY <1>9, <3>1, <3>2
    <2>3. /\ job'.for = job.for /\ job'.hint = job.hint
          /\ job.for = "root" => job'.bd \in loaded \cup heads
        BY <1>1, <2>2, GivenBlock
    <2>4. \A h \in Handles : place'[h] # NoPlace => place'[h].bd \in loaded' \cup heads'
        BY <2>1 DEF MappedOK
    <2> QED BY <2>1, <2>3, <2>4 DEF MappedOK
<1>10. CASE PlaceFound
    <2>1. /\ place' = [place EXCEPT ![job.h] =
                         [bd |-> job.bd, off |-> page[job.bd].start, t |-> job.t, size |-> job.size]]
          /\ loaded' = loaded \cup {job.bd} /\ heads' = heads /\ pc' = "idle" /\ job' = NoJob
        BY <1>10 DEF PlaceFound, Return
    <2>2. ASSUME NEW h \in Handles PROVE place'[h] = place[h] \/ place'[h].bd = job.bd
        BY <2>1 DEF IInv, TypeOK, ClientType
    <2>3. \A h \in Handles : place'[h] # NoPlace => place'[h].bd \in loaded' \cup heads'
        BY <2>1, <2>2 DEF MappedOK
    <2> QED BY <1>2, <2>1, <2>3 DEF MappedOK
<1>11. CASE PlaceForRoot
    <2>1. /\ UNCHANGED <<place, loaded, heads>> /\ pc' = "write" /\ pc = "place" /\ job.for = "root"
          /\ job' = [job EXCEPT !.off = page[job.bd].start]
        BY <1>11 DEF PlaceForRoot, At, info
    <2>2. job'.bd = job.bd /\ job'.hint = job.hint
        BY <1>1, <2>1, GivenBlock
    <2>3. \A h \in Handles : place'[h] # NoPlace => place'[h].bd \in loaded' \cup heads'
        BY <2>1 DEF MappedOK
    <2> QED BY <2>1, <2>2, <2>3 DEF MappedOK
<1>12. CASE TruncFailsInInit
    BY <1>2, <1>12 DEF TruncFailsInInit, EndSession, MappedOK
<1> QED
    BY <1>3, <1>4, <1>5, <1>6, <1>7, <1>8, <1>9, <1>10, <1>11, <1>12 DEF Create, Find

\* Whatever a call works on stays mapped.
LEMMA MappedStep == IInv /\ QueueInv /\ MappedOK /\ [Next]_vars => MappedOK'
<1> SUFFICES ASSUME IInv, QueueInv, MappedOK, [Next]_vars PROVE MappedOK'
    OBVIOUS
<1>1. NoJob.for # "root" /\ (heads = {} \/ heads = {0})
    BY NoJobIsJob, Fields
<1>2. CASE OpenCreate
    <2>1. UNCHANGED <<place, loaded, heads>> /\ pc' = "select" /\ job'.for = "head"
        BY <1>2, NewJobs DEF OpenCreate, info
    <2> QED BY <2>1, NoWork DEF Works
<1>3. CASE OpenLoads \/ OpenBlank \/ OpenDies
    <2>1. UNCHANGED <<place, loaded, pc, job>> /\ heads \subseteq heads'
        BY <1>1, <1>3 DEF OpenLoads, OpenBlank, OpenDies, info
    <2> QED BY <2>1, SameWork DEF MappedOK
<1>4. CASE Create \/ Find
    BY <1>4, MappedInFind
<1>5. CASE Cell \/ StrayWild \/ UNCHANGED vars
    <2>1. /\ UNCHANGED <<place, loaded, heads>>
          /\ \/ job' = job /\ ((pc \in Works /\ pc' # "place") \/ pc' = pc)
             \/ job' = NoJob /\ pc' = "idle"
        BY <1>5 DEF Cell, WriteCell, InsertAccount, SetRoot, UpdateTouch, WipeCell, DeleteAccount, StrayWild,
                    Goto, Return, At, Works, info, vars
    <2>2. CASE job' = NoJob /\ pc' = "idle"
        BY <1>1, <2>1, <2>2, NoWork DEF Works
    <2>3. CASE job' = job /\ ((pc \in Works /\ pc' # "place") \/ pc' = pc)
        BY <2>1, <2>3, SameWork DEF MappedOK
    <2> QED BY <2>1, <2>2, <2>3
<1>6. ASSUME NEW h \in Handles, NEW t \in CellTypes, NEW size, NEW hint, FindStart(h, t, size, hint)
      PROVE  MappedOK'
    <2>1. UNCHANGED <<place, loaded, heads>> /\ pc' = "find" /\ job'.for = "find"
        BY <1>6, NewJobs DEF FindStart, info
    <2> QED BY <2>1, NoWork DEF Works
<1>7. ASSUME NEW h \in Handles, NEW v \in Vals, InsertStart(h, v) PROVE MappedOK'
    <2>1. /\ UNCHANGED <<loaded, heads>> /\ place' = [place EXCEPT ![h] = NoPlace] /\ place[h] # NoPlace
          /\ job'.for = "insert" /\ job'.bd = place[h].bd
        BY <1>7, NewJobs DEF InsertStart, info
    <2>2. \A g \in Handles : place'[g] = place[g] \/ place'[g] = NoPlace
        BY <2>1 DEF IInv, TypeOK, ClientType
    <2> QED BY <2>1, <2>2 DEF MappedOK
<1>8. ASSUME NEW d \in DOMAIN live, NEW v \in AnyVal, NEW what \in {"update", "delete"},
             job' = JobFor(what, d, v), loaded' = loaded \cup {d.bd}, UNCHANGED <<place, heads>>
      PROVE  MappedOK'
    <2>1. job'.for = what /\ job'.bd = d.bd
        BY <1>8, JobForIsJob
    <2>2. \A h \in Handles : place'[h] # NoPlace => place'[h].bd \in loaded' \cup heads'
        BY <1>8 DEF MappedOK
    <2> QED BY <1>8, <2>1, <2>2 DEF MappedOK
<1>9. ASSUME NEW d \in DOMAIN live, NEW v \in Vals, UpdateStart(d, v) PROVE MappedOK'
    BY <1>8, <1>9 DEF UpdateStart, AnyVal
<1>10. ASSUME NEW d \in DOMAIN live, DeleteStart(d) PROVE MappedOK'
    BY <1>8, <1>10 DEF DeleteStart, AnyVal
<1>11. CASE EndSession
    BY <1>1, <1>11 DEF EndSession, MappedOK
<1> QED
    BY <1>2, <1>3, <1>4, <1>5, <1>6, <1>7, <1>9, <1>10, <1>11
    DEF Next, Open, Library, Client, StraySignal, Close, Crash

\* A step that changes no block, and leaves the mark to what was marked.
LEMMA SameSync ==
    ASSUME SyncOK, UNCHANGED <<unsynced, dirty>>, loaded \subseteq loaded', heads \subseteq heads',
           Pending \subseteq Pending', mode' = "down" => mode = "down",
           pc' = "setroot" => pc = "setroot" /\ heads' = heads
    PROVE  SyncOK'
BY DEF SyncOK

\* A step that changes the blocks in S, which are mapped: afterwards they are
\* marked, or the call still has to do it.
LEMMA Changes ==
    ASSUME SyncOK, NEW S, S \subseteq loaded' \cup heads', unsynced' \subseteq unsynced \cup S,
           loaded \subseteq loaded', heads \subseteq heads', mode' # "down",
           unsynced \subseteq dirty' \cup Pending', S \subseteq dirty' \cup Pending',
           pc' = "setroot" => heads' \subseteq dirty'
    PROVE  SyncOK'
BY DEF SyncOK

\* blocks_create_block marks the header late, and syncs what it has created.
LEMMA SyncInCreate == IInv /\ SyncOK /\ Create => SyncOK'
<1> SUFFICES ASSUME IInv, SyncOK, Create PROVE SyncOK'
    OBVIOUS
<1> USE DEF At, Running, Goto, Return
<1>1. CASE CreateSelect \/ TruncFailsInFind
    <2>1. /\ UNCHANGED <<unsynced, dirty, loaded, heads, mode>> /\ Pending = {}
          /\ pc' \notin {"setroot"}
        BY <1>1 DEF CreateSelect, TruncFailsInFind, Pending, info
    <2> QED BY <2>1, SameSync
<1>2. CASE CreateHead \/ CreateData
    <2>1. /\ unsynced' = unsynced \cup {job.bd} /\ dirty' = dirty \cup {job.bd} /\ job.bd \in loaded' \cup heads'
          /\ loaded \subseteq loaded' /\ heads \subseteq heads' /\ mode' = mode /\ mode # "down"
          /\ Pending = {} /\ pc' # "setroot"
        BY <1>2 DEF CreateHead, CreateData, Registered, Dirtied, Pending
    <2>2. unsynced \subseteq dirty
        BY <2>1 DEF SyncOK
    <2> QED BY <2>1, <2>2, Changes
<1>3. CASE CreateSetLast
    <2>1. /\ unsynced' = unsynced \cup heads /\ UNCHANGED <<dirty, loaded, heads, mode>> /\ mode # "down"
          /\ Pending = {} /\ Pending' = heads' /\ pc' # "setroot"
        BY <1>3 DEF CreateSetLast, Pending, info
    <2>2. unsynced \subseteq dirty
        BY <2>1 DEF SyncOK
    <2> QED BY <2>1, <2>2, Changes
<1>4. CASE CreateMetaHead
    <2>1. /\ unsynced' = unsynced \cup {job.bd} /\ dirty' = dirty \cup {job.bd} /\ heads = {job.bd}
          /\ UNCHANGED <<loaded, heads, mode>> /\ mode # "down" /\ Pending = heads /\ pc' # "setroot"
        BY <1>4 DEF CreateMetaHead, Dirtied, Pending, info, IInv, CreateOK
    <2>2. unsynced \subseteq dirty \cup heads
        BY <2>1 DEF SyncOK
    <2> QED BY <2>1, <2>2, Changes
<1>5. CASE CreateMetaData
    <2>1. /\ unsynced' \subseteq unsynced \cup heads
          /\ UNCHANGED <<loaded, heads, mode>> /\ mode # "down" /\ Pending = heads /\ pc' # "setroot"
          /\ dirty \subseteq dirty' /\ heads \subseteq dirty' \cup Pending'
        BY <1>5 DEF CreateMetaData, Dirtied, Pending, info
    <2>2. unsynced \subseteq dirty \cup heads
        BY <2>1 DEF SyncOK
    <2> QED BY <2>1, <2>2, Changes
<1>6. CASE CreateCount
    <2>1. /\ unsynced' = unsynced \cup heads /\ dirty' = dirty \cup heads
          /\ UNCHANGED <<loaded, heads, mode>> /\ mode # "down" /\ Pending = heads /\ pc' # "setroot"
        BY <1>6 DEF CreateCount, Dirtied, Pending, info
    <2>2. unsynced \subseteq dirty \cup heads
        BY <2>1 DEF SyncOK
    <2> QED BY <2>1, <2>2, Changes
<1>7. CASE CreateHeadDone \/ CreateDataDone
    <2>1. /\ unsynced' = unsynced \ {job.bd} /\ dirty' = dirty \ {job.bd}
          /\ UNCHANGED <<loaded, heads, mode>> /\ mode # "down" /\ Pending = {} /\ pc' # "setroot"
        BY <1>7 DEF CreateHeadDone, CreateDataDone, Created, Pending
    <2> QED BY <2>1 DEF SyncOK
<1>8. CASE TruncFailsInInit
    BY <1>8 DEF TruncFailsInInit, EndSession, SyncOK
<1> QED BY <1>1, <1>2, <1>3, <1>4, <1>5, <1>6, <1>7, <1>8 DEF Create

\* Finding a place changes no block.
LEMMA SyncInFind == IInv /\ SyncOK /\ Find => SyncOK'
<1> SUFFICES ASSUME IInv, SyncOK, Find PROVE SyncOK'
    OBVIOUS
<1>1. /\ UNCHANGED <<unsynced, dirty, heads, mode>> /\ loaded \subseteq loaded'
      /\ pc \in {"find", "place"} /\ pc' # "setroot"
    BY DEF Find, FindHint, FindCreate, FindCandidate, FindNone, PlaceFound, PlaceForRoot, PlaceNone,
           At, Goto, Return, info
<1>2. Pending = {}
    BY <1>1 DEF Pending
<1> QED BY <1>1, <1>2, SameSync

\* A cell operation changes its block, and marks it and the header blocks as its
\* last step but for the root cell, whose header is marked by then.
LEMMA SyncInCell == IInv /\ MappedOK /\ SyncOK /\ Cell => SyncOK'
<1> SUFFICES ASSUME IInv, MappedOK, SyncOK, Cell PROVE SyncOK'
    OBVIOUS
<1>1. mode # "down" /\ UNCHANGED <<loaded, heads>> /\ mode' # "down"
    BY DEF Cell, WriteCell, InsertAccount, SetRoot, UpdateTouch, WipeCell, DeleteAccount, At, Running, info
<1>2. pc \in Works /\ job.bd \in loaded \cup heads
    BY DEF Cell, WriteCell, InsertAccount, SetRoot, UpdateTouch, WipeCell, DeleteAccount, At, Works, MappedOK
<1>3. CASE WriteCell \/ WipeCell
    <2>1. /\ unsynced' \subseteq unsynced \cup {job.bd} /\ dirty' = dirty
          /\ Pending = {} /\ Pending' = {job.bd} /\ pc' # "setroot"
        BY <1>3 DEF WriteCell, WipeCell, At, Goto, Pending
    <2>2. unsynced \subseteq dirty
        BY <2>1 DEF SyncOK
    <2> QED BY <1>1, <1>2, <2>1, <2>2, Changes
<1>4. CASE InsertAccount \/ UpdateTouch \/ DeleteAccount
    <2>1. /\ unsynced' \subseteq unsynced \cup {job.bd} /\ dirty' = dirty \cup {job.bd} \cup heads
          /\ Pending = {job.bd}
        BY <1>4 DEF InsertAccount, UpdateTouch, DeleteAccount, Dirtied, At, Pending
    <2>2. unsynced \subseteq dirty \cup {job.bd}
        BY <2>1 DEF SyncOK
    <2> QED BY <1>1, <1>2, <2>1, <2>2, Changes
<1>5. CASE SetRoot
    <2>1. /\ unsynced' = unsynced \cup heads /\ dirty' = dirty /\ Pending = {} /\ heads \subseteq dirty
          /\ pc' # "setroot"
        BY <1>5 DEF SetRoot, At, Return, Pending, SyncOK
    <2>2. unsynced \subseteq dirty
        BY <2>1 DEF SyncOK
    <2> QED BY <1>1, <2>1, <2>2, Changes
<1> QED BY <1>3, <1>4, <1>5 DEF Cell

\* Every step keeps what has to be synced marked, or is about to mark it.
LEMMA SyncStep == IInv /\ MappedOK /\ SyncOK /\ [Next]_vars => SyncOK'
<1> SUFFICES ASSUME IInv, MappedOK, SyncOK, [Next]_vars PROVE SyncOK'
    OBVIOUS
<1>1. CASE Open
    <2>1. mode = "down" /\ pc = "idle" /\ unsynced = {} /\ heads = {}
        BY <1>1 DEF Open, OpenCreate, OpenLoads, OpenBlank, OpenDies, SyncOK, IInv, HeadsOK
    <2>2. unsynced' = unsynced /\ pc' # "setroot"
        BY <1>1, <2>1 DEF Open, OpenCreate, OpenLoads, OpenBlank, OpenDies
    <2> QED BY <2>1, <2>2 DEF SyncOK
<1>2. CASE StrayWild \/ UNCHANGED vars
    <2>1. UNCHANGED <<unsynced, dirty, loaded, heads, pc, job>> /\ (mode' = "down" => mode = "down")
        BY <1>2 DEF StrayWild, info, vars
    <2>2. Pending' = Pending
        BY <2>1 DEF Pending
    <2> QED BY <2>1, <2>2, SameSync
<1>3. CASE Client /\ ~Close
    <2>1. /\ UNCHANGED <<unsynced, dirty, heads, mode>> /\ loaded \subseteq loaded'
          /\ pc = "idle" /\ pc' # "setroot"
        BY <1>3 DEF Client, FindStart, InsertStart, UpdateStart, DeleteStart, Ready, info
    <2>2. Pending = {}
        BY <2>1 DEF Pending
    <2> QED BY <2>1, <2>2, SameSync
<1>4. CASE EndSession
    BY <1>4 DEF EndSession, SyncOK
<1> QED
    BY <1>1, <1>2, <1>3, <1>4, SyncInCreate, SyncInFind, SyncInCell DEF Next, Library, StraySignal, Close, Crash

\* SessionInv holds in every state.
LEMMA SessionInductive == Spec => []SessionInv
<1>1. Init => SessionInv
    BY NoJobIsJob, StoreAssumptions
    DEF Init, SessionInv, QueueInv, CandidatesSound, FreshOK, MappedOK, SyncOK
<1>2. IInv /\ IInv' /\ RootOK /\ SessionInv /\ [Next]_vars => SessionInv'
    BY QueueStep, MappedStep, SyncStep DEF SessionInv
<1> QED BY <1>1, <1>2, Inductive, RootInductive, PTL DEF Spec

\* Between two calls close_storage finds every block the session has changed
\* mapped and marked dirty, although storage_set_last_bl_desc and
\* storage_set_root_cell store into the header without marking it.
THEOREM ClosingLosesNothing == Spec => []CloseLosesNothing
<1>1. SessionInv => CloseLosesNothing
    BY DEF SessionInv, SyncOK, CloseLosesNothing, Ready, Pending
<1> QED BY <1>1, SessionInductive, PTL
===============================================================================
