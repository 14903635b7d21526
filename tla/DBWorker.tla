------------------------------ MODULE DBWorker ------------------------------
(***************************************************************************)
(* The database thread of dmdbconnector: client threads fetch prepared     *)
(* queries, append write queries to a FIFO queue and return at once, and   *)
(* run select queries synchronously through one shared slot.  One worker   *)
(* thread prepares queries, drains the writes and answers the select.      *)
(*                                                                         *)
(* Data is abstracted: a write is the pair of its client and its number, a *)
(* select by c asks for the rows c has written, and a stack of prepared    *)
(* queries is its height.                                                  *)
(***************************************************************************)
EXTENDS Integers, Sequences, FiniteSets

CONSTANTS
  Clients,     \* threads that use DBConnector
  WriteCmds,   \* SQL texts of INSERT, UPDATE and DELETE statements
  SelectCmds,  \* SQL texts of SELECT statements
  StackSize,   \* DBConnectorConfig::queryStackSize
  MaxCalls,    \* bound: database calls per client
  NoOne,       \* a free mutex, or a null qSelect
  Worker       \* the DBWorker thread

Commands == WriteCmds \cup SelectCmds

ASSUME ThreadAssumption ==
  /\ NoOne \notin Clients \cup {Worker}
  /\ Worker \notin Clients
ASSUME CommandAssumption ==
  /\ WriteCmds # {}
  /\ WriteCmds \cap SelectCmds = {}
ASSUME BoundAssumption ==
  /\ StackSize \in Nat \ {0}
  /\ MaxCalls \in Nat

Writes == Clients \X (1..MaxCalls)

VARIABLES
  queryLists,         \* the commands that have a QueryList, in creation order
  prepared,           \* command -> height of its queryStack
  queryMutex, clientSelectMutex, selectMutex,   \* the thread holding each
  writes,             \* the FIFO queue of write queries
  qSelect,            \* the client whose select is in the slot
  selectStatus,       \* "notdone", "rows" or "false"
  selectRows,         \* result set of the last select
  db,                 \* the write queries executed, in order
  kill,
  workerPc, listAt, toPush,          \* the worker: place, list, pushes to go
  clientPc, cmd, calls, issued,      \* the clients: place, command, counters
  result              \* client -> rows the last call handed to the caller

workerVars == <<workerPc, listAt, toPush>>
clientVars == <<clientPc, cmd, calls, issued, result>>
mutexes    == <<queryMutex, clientSelectMutex, selectMutex>>
slot       == <<qSelect, selectStatus, selectRows>>
stacks     == <<queryLists, prepared>>
dbVars == <<stacks, mutexes, writes, slot, db, kill, workerVars, clientVars>>

Range2(s) == {s[i] : i \in DOMAIN s}
Written(c, s) == {w \in Range2(s) : w[1] = c}

(* FIFOQueue: push appends, pop takes the head, and the flags IsMaxOneLeft *)
(* and IsEmpty follow the length under the queue's own mutex.              *)
PushFront(s, w) == <<w>> \o s                    \* mutant of Push
Push(s, w) == Append(s, w)

IsMaxOneLeft(q) == prepared[q] <= 1

NeverEmpty(q) == FALSE                            \* mutant of IsEmptyStack
IsEmptyStack(q) == prepared[q] = 0

(* The blocking mutexes: a thread proceeds when nobody holds them.         *)
NoLock == TRUE                                    \* mutant of the three below
QueryMutexFree == queryMutex = NoOne
ClientSelectFree == clientSelectMutex = NoOne
SelectFree == selectMutex = NoOne

(* How many queries one refill prepares: for(int i=1;i<stackSize;i++).     *)
RefillCount == StackSize - 1

DBTypeOK ==
  /\ queryLists \in Seq(Commands)
  /\ prepared \in [Commands -> Nat]
  /\ queryMutex \in Clients \cup {NoOne}
  /\ clientSelectMutex \in Clients \cup {NoOne}
  /\ selectMutex \in Clients \cup {NoOne, Worker}
  /\ writes \in Seq(Writes)
  /\ qSelect \in Clients \cup {NoOne}
  /\ selectStatus \in {"notdone", "rows", "false"}
  /\ selectRows \subseteq Writes
  /\ db \in Seq(Writes)
  /\ kill \in BOOLEAN
  /\ workerPc \in {"top", "refill", "push", "wait", "drain", "select", "exec",
                   "release", "exited"}
  /\ listAt \in Nat \ {0}
  /\ toPush \in Nat
  /\ clientPc \in [Clients -> {"idle", "lock", "pop", "take", "bound", "submit",
                               "reset", "await", "status", "rows"}]
  /\ cmd \in [Clients -> Commands]
  /\ calls \in [Clients -> 0..MaxCalls]
  /\ issued \in [Clients -> 0..MaxCalls]
  /\ result \in [Clients -> SUBSET Writes]

DBInit ==
  /\ queryLists = <<>>
  /\ prepared = [q \in Commands |-> 0]
  /\ queryMutex = NoOne /\ clientSelectMutex = NoOne /\ selectMutex = NoOne
  /\ writes = <<>>
  /\ qSelect = NoOne /\ selectStatus = "notdone" /\ selectRows = {}
  /\ db = <<>>
  /\ kill = FALSE
  /\ workerPc = "top" /\ listAt = 1 /\ toPush = 0
  /\ clientPc = [c \in Clients |-> "idle"]
  /\ cmd = [c \in Clients |-> CHOOSE q \in Commands : TRUE]
  /\ calls = [c \in Clients |-> 0]
  /\ issued = [c \in Clients |-> 0]
  /\ result = [c \in Clients |-> {}]

-----------------------------------------------------------------------------
(* Clients *)

Goto(c, from, to) ==
  /\ clientPc[c] = from
  /\ clientPc' = [clientPc EXCEPT ![c] = to]

(* A caller enters one of the Insert, Update, Delete or Select wrappers.   *)
Call(c, q) ==
  /\ ~kill
  /\ calls[c] < MaxCalls
  /\ Goto(c, "idle", "lock")
  /\ cmd' = [cmd EXCEPT ![c] = q]
  /\ calls' = [calls EXCEPT ![c] = @ + 1]
  /\ UNCHANGED <<stacks, mutexes, writes, slot, db, kill, workerVars, issued, result>>

(* getQuery: under queryMutex, find the list of the command or append one. *)
LockQueries(c) ==
  /\ Goto(c, "lock", "pop")
  /\ QueryMutexFree
  /\ queryMutex' = c
  /\ queryLists' = IF cmd[c] \in Range2(queryLists) THEN queryLists
                   ELSE Append(queryLists, cmd[c])
  /\ UNCHANGED <<prepared, clientSelectMutex, selectMutex, writes, slot, db, kill,
                 workerVars, cmd, calls, issued, result>>

(* pop reads isEmpty outside the queue's mutex; getQuery spins on NULL.    *)
SeePrepared(c) ==
  /\ Goto(c, "pop", "take")
  /\ ~IsEmptyStack(cmd[c])
  /\ UNCHANGED <<stacks, mutexes, writes, slot, db, kill, workerVars, cmd, calls,
                 issued, result>>

(* pop unlinks root without looking again; getQuery releases queryMutex.   *)
TakePrepared(c) ==
  /\ Goto(c, "take", "bound")
  /\ prepared' = [prepared EXCEPT ![cmd[c]] = @ - 1]
  /\ queryMutex' = NoOne
  /\ UNCHANGED <<queryLists, clientSelectMutex, selectMutex, writes, slot, db, kill,
                 workerVars, cmd, calls, issued, result>>

(* ExecuteQuery: the call returns once the write is queued.                *)
AddQuery(c) ==
  /\ Goto(c, "bound", "idle")
  /\ cmd[c] \in WriteCmds
  /\ issued' = [issued EXCEPT ![c] = @ + 1]
  /\ writes' = Push(writes, <<c, issued'[c]>>)
  /\ UNCHANGED <<stacks, mutexes, slot, db, kill, workerVars, cmd, calls, result>>

(* ExecuteSelect, step by step.                                            *)
LockClientSelect(c) ==
  /\ Goto(c, "bound", "submit")
  /\ cmd[c] \in SelectCmds
  /\ ClientSelectFree
  /\ clientSelectMutex' = c
  /\ UNCHANGED <<stacks, queryMutex, selectMutex, writes, slot, db, kill, workerVars,
                 cmd, calls, issued, result>>

SubmitSelect(c) ==
  /\ Goto(c, "submit", "reset")
  /\ SelectFree
  /\ selectMutex' = c
  /\ qSelect' = c
  /\ UNCHANGED <<stacks, queryMutex, clientSelectMutex, writes, selectStatus,
                 selectRows, db, kill, workerVars, cmd, calls, issued, result>>

ResetStatus(c) ==
  /\ Goto(c, "reset", "await")
  /\ selectStatus' = "notdone"
  /\ selectMutex' = NoOne
  /\ UNCHANGED <<stacks, queryMutex, clientSelectMutex, writes, qSelect, selectRows,
                 db, kill, workerVars, cmd, calls, issued, result>>

SeeAnswer(c) ==
  /\ Goto(c, "await", "status")
  /\ selectStatus # "notdone"
  /\ clientSelectMutex' = NoOne
  /\ UNCHANGED <<stacks, queryMutex, selectMutex, writes, slot, db, kill, workerVars,
                 cmd, calls, issued, result>>

(* The return value and the rows are read after both mutexes are free.     *)
ReturnStatus(c) ==
  /\ Goto(c, "status", IF selectStatus = "rows" THEN "rows" ELSE "idle")
  /\ result' = [result EXCEPT ![c] = {}]
  /\ UNCHANGED <<stacks, mutexes, writes, slot, db, kill, workerVars, cmd, calls, issued>>

ReadRows(c) ==
  /\ Goto(c, "rows", "idle")
  /\ result' = [result EXCEPT ![c] = selectRows]
  /\ UNCHANGED <<stacks, mutexes, writes, slot, db, kill, workerVars, cmd, calls, issued>>

ClientStep(c) ==
  \/ LockQueries(c)
  \/ SeePrepared(c)
  \/ TakePrepared(c)
  \/ AddQuery(c)
  \/ LockClientSelect(c)
  \/ SubmitSelect(c)
  \/ ResetStatus(c)
  \/ SeeAnswer(c)
  \/ ReturnStatus(c)
  \/ ReadRows(c)

-----------------------------------------------------------------------------
(* The worker thread *)

WorkerGoto(from, to) == workerPc = from /\ workerPc' = to

LoopTop ==
  /\ WorkerGoto("top", IF kill THEN "exited" ELSE "refill")
  /\ listAt' = 1
  /\ UNCHANGED <<stacks, mutexes, writes, slot, db, kill, toPush, clientVars>>

(* Refill the lists that are down to one query.                            *)
RefillList ==
  /\ listAt <= Len(queryLists)
  /\ IsMaxOneLeft(queryLists[listAt])
  /\ WorkerGoto("refill", "push")
  /\ toPush' = RefillCount
  /\ UNCHANGED <<stacks, mutexes, writes, slot, db, kill, listAt, clientVars>>

SkipList ==
  /\ listAt <= Len(queryLists)
  /\ ~IsMaxOneLeft(queryLists[listAt])
  /\ WorkerGoto("refill", "refill")
  /\ listAt' = listAt + 1
  /\ UNCHANGED <<stacks, mutexes, writes, slot, db, kill, toPush, clientVars>>

PushPrepared ==
  /\ toPush > 0
  /\ WorkerGoto("push", "push")
  /\ prepared' = [prepared EXCEPT ![queryLists[listAt]] = @ + 1]
  /\ toPush' = toPush - 1
  /\ UNCHANGED <<queryLists, mutexes, writes, slot, db, kill, listAt, clientVars>>

ListRefilled ==
  /\ toPush = 0
  /\ WorkerGoto("push", "refill")
  /\ listAt' = listAt + 1
  /\ UNCHANGED <<stacks, mutexes, writes, slot, db, kill, toPush, clientVars>>

AllRefilled ==
  /\ listAt > Len(queryLists)
  /\ WorkerGoto("refill", "wait")
  /\ UNCHANGED <<stacks, mutexes, writes, slot, db, kill, listAt, toPush, clientVars>>

(* The wait loop sleeps until there is work or kill is set.                *)
NoRefillWork == writes # <<>> \/ qSelect # NoOne  \* mutant of HasWork
HasWork ==
  \/ writes # <<>>
  \/ qSelect # NoOne
  \/ \E q \in Range2(queryLists) : IsMaxOneLeft(q)

WakeOnWorkOnly == HasWork                         \* mutant of MayWake
MayWake == HasWork \/ kill

Wake ==
  /\ MayWake
  /\ WorkerGoto("wait", "drain")
  /\ UNCHANGED <<stacks, mutexes, writes, slot, db, kill, listAt, toPush, clientVars>>

(* Execute the queued writes until pop returns NULL.                       *)
DrainOne ==
  /\ writes # <<>>
  /\ WorkerGoto("drain", "drain")
  /\ db' = Append(db, Head(writes))
  /\ writes' = Tail(writes)
  /\ UNCHANGED <<stacks, mutexes, slot, kill, listAt, toPush, clientVars>>

DrainDone ==
  /\ writes = <<>>
  /\ WorkerGoto("drain", "select")
  /\ UNCHANGED <<stacks, mutexes, writes, slot, db, kill, listAt, toPush, clientVars>>

NoSelect ==
  /\ qSelect = NoOne
  /\ WorkerGoto("select", "top")
  /\ UNCHANGED <<stacks, mutexes, writes, slot, db, kill, listAt, toPush, clientVars>>

BeginSelect ==
  /\ qSelect # NoOne
  /\ SelectFree
  /\ WorkerGoto("select", "exec")
  /\ selectMutex' = Worker
  /\ selectRows' = {}
  /\ UNCHANGED <<stacks, queryMutex, clientSelectMutex, writes, qSelect, selectStatus,
                 db, kill, listAt, toPush, clientVars>>

ExecSelect ==
  /\ WorkerGoto("exec", "release")
  /\ selectRows' = Written(qSelect, db)
  /\ selectStatus' = IF selectRows' = {} THEN "false" ELSE "rows"
  /\ UNCHANGED <<stacks, mutexes, writes, qSelect, db, kill, listAt, toPush, clientVars>>

EndSelect ==
  /\ WorkerGoto("release", "top")
  /\ qSelect' = NoOne
  /\ selectMutex' = NoOne
  /\ UNCHANGED <<stacks, queryMutex, clientSelectMutex, writes, selectStatus, selectRows,
                 db, kill, listAt, toPush, clientVars>>

WorkerStep ==
  \/ LoopTop
  \/ RefillList \/ SkipList \/ PushPrepared \/ ListRefilled \/ AllRefilled
  \/ Wake
  \/ DrainOne \/ DrainDone
  \/ NoSelect \/ BeginSelect \/ ExecSelect \/ EndSelect

(* ~DBConnector at program exit, after the threads finished their calls.   *)
Kill ==
  /\ ~kill
  /\ \A c \in Clients : clientPc[c] = "idle"
  /\ kill' = TRUE
  /\ UNCHANGED <<stacks, mutexes, writes, slot, db, workerVars, clientVars>>

(* The thread has left run(): nothing more happens.                        *)
Exited ==
  /\ workerPc = "exited"
  /\ UNCHANGED dbVars

DBNext ==
  \/ \E c \in Clients, q \in Commands : Call(c, q)
  \/ \E c \in Clients : ClientStep(c)
  \/ WorkerStep
  \/ Kill
  \/ Exited

(* Both kinds of thread are scheduled by the operating system and sleep    *)
(* with a time limit; callers need not call and nobody needs to exit.      *)
Fairness ==
  /\ WF_dbVars(WorkerStep)
  /\ \A c \in Clients : WF_dbVars(ClientStep(c))

DBSpec == DBInit /\ [][DBNext]_dbVars
FairSpec == DBSpec /\ Fairness

-----------------------------------------------------------------------------
(* Safety *)

(* A getQuery that saw a prepared query finds one when it unlinks the      *)
(* root, as nobody else empties the stack between its look and its pop;    *)
(* and the worker never prepares more than queryStackSize, although it     *)
(* looks at the height once and then pushes while clients pop.             *)
StackSound ==
  /\ \A c \in Clients : clientPc[c] = "take" => ~(prepared[cmd[c]] = 0)
  /\ \A q \in Commands : prepared[q] <= StackSize

(* A client that waits for a select is the only one: until the status is   *)
(* set the slot holds its query, and then the rows are its own.            *)
AwaitsOwnAnswer ==
  \A c \in Clients : clientPc[c] = "await" =>
    /\ selectStatus = "notdone" => qSelect = c
    /\ selectStatus # "notdone" =>
         /\ selectRows \subseteq {c} \X (1..MaxCalls)
         /\ selectStatus = "rows" <=> selectRows # {}

(* Executed and queued writes together are the writes submitted: each of   *)
(* them once, those of a client in the order it issued them.               *)
Log == db \o writes
WritesInOrder ==
  /\ \A i \in DOMAIN Log : Log[i][2] <= issued[Log[i][1]]
  /\ \A i, j \in DOMAIN Log :
       i < j /\ Log[i][1] = Log[j][1] => Log[i][2] < Log[j][2]
  /\ \A c \in Clients : \A n \in 1..issued[c] : \E i \in DOMAIN Log : Log[i] = <<c, n>>

(* What the header promises of write-before-read: when the worker runs a   *)
(* select, no write its client queued earlier is still waiting.            *)
ReadYourWrites ==
  workerPc = "exec" => Written(qSelect, writes) = {}

(* The "synchronized read": what a caller takes out of selectRows is what  *)
(* its own select returned.                                                *)
RowsAreCallers ==
  \A c \in Clients : result[c] \subseteq {c} \X (1..MaxCalls)

(* Liveness *)

(* Every database call returns: it gets a prepared query, and a select its *)
(* answer.                                                                 *)
CallsReturn == \A c \in Clients : clientPc[c] # "idle" ~> clientPc[c] = "idle"

(* killWorker's wait() returns: a killed worker leaves its loop.           *)
ShutdownCompletes == kill ~> workerPc = "exited"
=============================================================================
