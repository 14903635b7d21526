---------------------------- MODULE RasterBlocks ----------------------------
(***************************************************************************)
(* The cells of a RasterData: blocks in a DbCache (dmdbcache.h), which     *)
(* saves the blocks it drops as rows of the table rasterfields.  The       *)
(* statements go through the FIFO of the database thread, see DBWorker.    *)
(*                                                                         *)
(* The content of a block is the number of the last write to one of its    *)
(* cells, 0 when every cell is NoValue.                                    *)
(***************************************************************************)
EXTENDS Naturals, Sequences, FiniteSets, SequencesExt

CONSTANTS
  Labels,        \* the blocks, in the order SQLInsertField adds them
  CacheSize,     \* RASTERBLOCKCACHESIZE
  BlockWriting,  \* cacheBlockwritingSize: blocks dropped at once
  MaxWrites,     \* bound: cell writes
  MaxQueue,      \* bound: statements in the queue before a Synchronize
  MaxResizes,    \* bound: calls of setSize
  Null

Blocks == ToSet(Labels)
ASSUME RasterAssumption ==
  /\ Labels \in Seq(Blocks) /\ IsInjective(Labels) /\ Labels # <<>>
  /\ CacheSize \in Nat \ {0} /\ BlockWriting \in Nat \ {0}
  /\ MaxWrites \in Nat /\ MaxQueue \in Nat /\ MaxResizes \in Nat
  /\ Null \notin Blocks \cup (0..MaxWrites)

VARIABLES
  map, list, value,   \* the DbCache, as in the module Cache
  answer,             \* what the last getCell read
  field,              \* the raster has a cache and block labels
  isInserted,         \* RasterBlockLabel::isInserted
  queue,              \* statements on their way to the database
  rows,               \* rasterfields: block -> its content, Null without a row
  undefined,          \* a block was loaded: undefined behaviour, see LoadBlock
  cellWrites, resizes, \* counters
  truth,              \* history: the number of the last write to the block
  saved               \* history: truth when Synchronize saved the block last

cache == <<map, list, value>>
vars  == <<cache, answer, field, isInserted, queue, rows, undefined, cellWrites, resizes, truth, saved>>

C == INSTANCE Cache WITH Keys <- Blocks, Values <- 0..MaxWrites, Size <- CacheSize

Statement == [op : {"insert", "update"}, block : Blocks, data : 0..MaxWrites]
             \cup [op : {"delete"}]

TypeOK ==
  /\ C!TypeOK
  /\ field \in BOOLEAN
  /\ isInserted \in [Blocks -> BOOLEAN]
  /\ queue \in Seq(Statement)
  /\ rows \in [Blocks -> 0..MaxWrites \cup {Null}]
  /\ undefined \in BOOLEAN
  /\ cellWrites \in 0..MaxWrites /\ resizes \in 0..MaxResizes
  /\ truth \in [Blocks -> 0..MaxWrites]
  /\ saved \in [Blocks -> 0..MaxWrites \cup {Null}]

NoRows == [k \in Blocks |-> Null]   \* an empty table, and an empty cache

Init ==
  /\ C!Init
  /\ field = FALSE
  /\ isInserted = [k \in Blocks |-> FALSE]
  /\ queue = <<>> /\ rows = NoRows
  /\ undefined = FALSE
  /\ cellWrites = 0 /\ resizes = 0
  /\ truth = [k \in Blocks |-> 0] /\ saved = NoRows

-----------------------------------------------------------------------------
(* DbCache, over a record of the cache, the labels and the queue.          *)

(* SaveToDb of block k with content v.                                     *)
InsertOnly(st, k, v) ==                                   \* mutant of SaveToDb
  IF st.isInserted[k] THEN st
  ELSE [st EXCEPT !.queue = Append(@, [op |-> "insert", block |-> k, data |-> v]),
                  !.isInserted[k] = TRUE]
SaveToDb(st, k, v) ==
  [st EXCEPT !.queue = Append(@, [op |-> IF st.isInserted[k] THEN "update" ELSE "insert",
                                  block |-> k, data |-> v]),
             !.isInserted[k] = TRUE]

(* One turn of the loop in add: the last block is saved and removed,       *)
(* unless it is the only one.                                              *)
DropThenSave(st) ==                                       \* mutant of DropLast
  LET k == st.list.last
  IN IF st.list.cnt <= 1 THEN st
     ELSE SaveToDb([st EXCEPT !.list = C!Unlinked(@, k), !.map = @ \ {k}, !.value[k] = Null],
                   k, Null)
DropLast(st) ==
  LET k == st.list.last
  IN IF st.list.cnt <= 1 THEN st
     ELSE [SaveToDb(st, k, st.value[k])
           EXCEPT !.list = C!Unlinked(@, k), !.map = @ \ {k}, !.value[k] = Null]

(* DbCache::add of a new key.                                              *)
NeverFull(l) == FALSE                                     \* mutant of Full
Full(l) == l.cnt > CacheSize
DbAdd(st, k) ==
  LET more == [st EXCEPT !.list = C!PushFront(@, k), !.map = @ \cup {k}, !.value[k] = 0]
      Dropped[n \in 0..BlockWriting] == IF n = 0 THEN more ELSE DropLast(Dropped[n - 1])
  IN IF Full(more.list) THEN Dropped[BlockWriting] ELSE more

State == [map |-> map, list |-> list, value |-> value,
          isInserted |-> isInserted, queue |-> queue]
Becomes(st) ==
  /\ map' = st.map /\ list' = st.list /\ value' = st.value
  /\ isInserted' = st.isInserted /\ queue' = st.queue

(* The blocks of the cache, last used first, as Synchronize walks them.    *)
Walk == C!Order

-----------------------------------------------------------------------------
(* RasterData *)

(* SQLDeleteField: the cache goes with its blocks, the rows are deleted.   *)
KeepRows(st) == [st EXCEPT !.map = {}, !.list = C!Empty, !.value = NoRows]
                                                          \* mutant of Deleted
Deleted(st) ==
  [st EXCEPT !.map = {}, !.list = C!Empty, !.value = NoRows,
             !.queue = Append(@, [op |-> "delete"])]

(* SQLInsertField: labels that are not inserted, one add per block.        *)
Fresh(st) ==
  LET Added[n \in 0..Len(Labels)] ==
        IF n = 0 THEN [st EXCEPT !.isInserted = [k \in Blocks |-> FALSE]]
        ELSE DbAdd(Added[n - 1], Labels[n])
  IN Added[Len(Labels)]

(* setSize, to no cells (and the destructor) or to cells.                  *)
SetSize(open) ==
  /\ ~undefined /\ resizes < MaxResizes
  /\ resizes' = resizes + 1
  /\ LET closed == IF field THEN Deleted(State) ELSE State
     IN Becomes(IF open THEN Fresh(closed) ELSE closed)
  /\ field' = open
  /\ truth' = [k \in Blocks |-> 0] /\ saved' = NoRows
  /\ UNCHANGED <<answer, rows, undefined, cellWrites>>

(* setCell of a cached block: the bytes are written in place.              *)
SetCell(k) ==
  /\ ~undefined /\ field /\ k \in map /\ cellWrites < MaxWrites
  /\ cellWrites' = cellWrites + 1
  /\ value' = [value EXCEPT ![k] = cellWrites']
  /\ list' = C!MovedToFront(list, k)
  /\ truth' = [truth EXCEPT ![k] = cellWrites']
  /\ UNCHANGED <<map, answer, field, isInserted, queue, rows, undefined, resizes, saved>>

GetCell(k) ==
  /\ ~undefined /\ field /\ k \in map
  /\ C!Get(k)
  /\ UNCHANGED <<field, isInserted, queue, rows, undefined, cellWrites, resizes, truth, saved>>

(* getCell or setCell of a block that was dropped: LoadFromDb reads and    *)
(* deletes the query the database thread has deleted already, and its      *)
(* caller dereferences a NULL it may return.  The model stops here.        *)
LoadBlock(k) ==
  /\ ~undefined /\ field /\ k \notin map
  /\ undefined' = TRUE
  /\ UNCHANGED <<cache, answer, field, isInserted, queue, rows, cellWrites, resizes, truth, saved>>

(* DBConnector::Synchronize saves every block of the cache, and keeps it.  *)
Synchronize ==
  /\ ~undefined /\ field /\ Len(queue) <= MaxQueue
  /\ LET Saved[n \in 0..Len(Walk)] ==
           IF n = 0 THEN State ELSE SaveToDb(Saved[n - 1], Walk[n], value[Walk[n]])
     IN Becomes(Saved[Len(Walk)])
  /\ saved' = truth
  /\ UNCHANGED <<answer, field, rows, undefined, cellWrites, resizes, truth>>

(* The database: a second INSERT fails on the primary key, an UPDATE       *)
(* without a row changes nothing.                                          *)
Executed(table, q) ==
  CASE q.op = "insert" -> [table EXCEPT ![q.block] = IF @ = Null THEN q.data ELSE @]
    [] q.op = "update" -> [table EXCEPT ![q.block] = IF @ = Null THEN @ ELSE q.data]
    [] q.op = "delete" -> NoRows

Execute ==
  /\ ~undefined /\ queue # <<>>
  /\ rows' = Executed(rows, Head(queue))
  /\ queue' = Tail(queue)
  /\ UNCHANGED <<cache, answer, field, isInserted, undefined, cellWrites, resizes, truth, saved>>

Next ==
  \/ \E open \in BOOLEAN : SetSize(open)
  \/ \E k \in Blocks : SetCell(k) \/ GetCell(k) \/ LoadBlock(k)
  \/ Synchronize
  \/ Execute

Spec == Init /\ [][Next]_vars

-----------------------------------------------------------------------------
Applied(table, qs) ==
  LET Table[n \in 0..Len(qs)] ==
        IF n = 0 THEN table ELSE Executed(Table[n - 1], qs[n])
  IN Table[Len(qs)]
Stored == Applied(rows, queue)

(* Once the queue is executed, the row of a cached block holds the cells   *)
(* Synchronize found in it the last time, however often the block was      *)
(* saved before and whichever resizes, with their own rows under the same  *)
(* keys, came in between.  A block outside the cache has the row it was    *)
(* dropped with, of NoValue cells: only SQLInsertField drops blocks,       *)
(* before any cell is written.                                             *)
RowsAsSaved ==
  field => \A k \in Blocks : Stored[k] = IF k \in map THEN saved[k] ELSE truth[k]

(* A label says it is inserted exactly when the database will have a row   *)
(* for it, and a raster without cells leaves no rows behind.               *)
LabelsMatchRows ==
  \A k \in Blocks : Stored[k] # Null <=> field /\ isInserted[k]

(* The cache stays within its size, its list and map in step, and the      *)
(* block added last is never the one that is dropped.                      *)
CacheKept ==
  /\ Cardinality(map) <= CacheSize
  /\ C!ListMatchesMap
  /\ field => map # {}
=============================================================================
