# DynaMind-Core in TLA+

DynaMind runs simulations made of modules: a module reads data (`System`) from
its in-ports, changes or creates data, and the core shifts it along links to the
in-ports of the next modules. All data lives in components that are partly held
in memory, in caches, and partly in a database that a worker thread serves.

This directory holds TLA+ models of that core, the TLC configurations that check
them on small instances, and proofs of what holds for every instance. Paths below
are relative to `src/src/core` of the repository. The file `PROJECT.json` maps
every definition to the lines it models.

## 1. Inventory

| Component | State | Operations | Modelled by |
|---|---|---|---|
| `Simulation` (`dmsimulation.cpp`) | module list, links, `status`, `canceled`; in `run` the worklist, the current group domain, two counters | `run`, `checkStream`, `shiftModuleOutput`, `shiftGroupInput`, `reset`, `cancel`; `addModule`, `removeModule`, `addLink`, `removeLink`, `loadSimulation` | run, cancel and reset in `SimulationRun`; editing and the incremental check in `SimulationNetwork`; who deletes a `System` in `SystemLifetime` |
| `Module`, `Group` (`dmmodule.cpp`, `dmgroup.cpp`) | in-ports, out-ports, views, status, `singleRunCondition` | `getData`, `inPortsSet`, `init`, `condition`, `reset`, `addData`, parameters, observers | `SimulationRun` (ports, data, condition), `SystemLifetime` (destructor) |
| `DBWorker`, `DBConnector` (`dmdbconnector.*`) | stacks of prepared queries, FIFO of writes, one select slot, three mutexes, `kill` | `getQuery`, `ExecuteQuery`, `ExecuteSelect`, `run`, `killWorker`, `Synchronize` | `DBWorker` |
| `Cache` (`dmcache.h`) | map and doubly linked list of nodes | `get`, `add`, `replace`, `remove`, `Clear` | `Cache`, abstractly `LruCache` |
| `DbCache`, `RasterData` (`dmdbcache.h`, `dmrasterdata.cpp`) | cache of blocks, labels with `isInserted`, rows of `rasterfields` | `setSize`, `setCell`, `getCell`, write-back, `Synchronize`, load from the database | `RasterBlocks` |
| `System`, `DerivedSystem` | owned components by kind, successors, predecessors, views | add, remove and get of components, `createSuccessor`, lazy copies from the predecessor | `Successors`, abstractly `SystemVersions`; nodes, edges and faces in `SystemGraph`; deletion in `SystemLifetime` |
| `Component`, `Attribute`, `Node`, `Edge`, `Face` | owned attributes and links, owner, `isInserted` | attribute changes, spilling to the database, connected edges | attributes and their owners in `Successors`; ends, corners and connected edges in `SystemGraph` |
| `View`, `DataViewer`, `DataFilter` | views and the components in them | add and remove components, migration, filters | `Successors` (no filters) |
| reader, writer, loader | XML entries | `loadSimulation`, `writeSimulation` | `SimulationFile` |
| logging, registry, observers, validation, Python, tool boxes | - | - | not modelled |

How they interact. The user's thread calls `run`; `run` executes one module at a
time on a pool thread and waits for it (`QtConcurrent::run(...).waitForFinished()`),
so modules never run at the same time, but `cancel` may come from another thread
at any moment. Modules call `getData` and change components; components and
rasters queue statements for the database thread and ask it for rows. Several
threads may use the database at once (a module may use threads of its own), and
they share its queues, its select slot and its mutexes. Shared pointers to a
`System` go from port to port; successors hold on to their predecessor.

What is hard here:

- `DBWorker`: tests outside mutexes (`FIFOQueue::pop`), a slot, a status and a
  result set shared by all threads, busy waiting on both sides, shutdown while
  the worker sleeps. Correct means: every call returns, an answer goes to the
  one that asked, no write is lost or overtaken, the shutdown ends.
- `Simulation::run`: the order of the worklist depends on pointer order and on
  postponing; groups are entered and left through the same worklist; data is
  moved, copied or shared depending on the number of branches; runs follow each
  other with whatever the last one left on the ports. Correct means: each module
  runs once, after its predecessors, on the data that the links say.
- editing: a link that comes or goes starts a check from one place only, and the
  maps of views it fills are never emptied as a whole. Correct means: what the
  modules know of their streams is what a full check would tell them, and a saved
  network comes back as it was.
- ownership: ports hold plain pointers, a `System` deletes its successors, and
  `reset`, the destructor of a module and a group all delete. Correct means: no
  `System` is used after it is deleted, and none is deleted twice.
- graphs in successors: edges and faces are copied late and find their nodes by
  name, nodes list edges. Correct means: ends, corners and lists fit together,
  and a successor is a graph of its own.
- caches: long series of calls on linked structures at their limit; data that
  moves between cache, queue and table. Correct means: the structure stays
  consistent, the limit holds, rows hold what was saved last.

## 2. Modules

### DBWorker

Client threads and the worker as program counters (`clientPc`, `workerPc`), one
action per step another thread can see. `queryLists` and `prepared` are the lists
of prepared queries and their heights, `writes` is the FIFO queue, `qSelect`,
`selectStatus`, `selectRows` the slot. A write is `<<client, number>>`, a select
asks for the rows of its client.

| Code | Actions |
|---|---|
| a wrapper `Insert`, `Select`, ... is called | `Call` |
| `getQuery` | `LockQueries`, `SeePrepared` (the unlocked test of `pop`), `TakePrepared` |
| `ExecuteQuery`, `addQuery` | `AddQuery` |
| `ExecuteSelect` and the use of `getResults` | `LockClientSelect`, `SubmitSelect`, `ResetStatus`, `SeeAnswer`, `ReturnStatus`, `ReadRows` |
| `run`: refill | `LoopTop`, `RefillList`, `SkipList`, `PushPrepared`, `ListRefilled`, `AllRefilled` |
| `run`: wait loop | `Wake` |
| `run`: writes and select | `DrainOne`, `DrainDone`, `NoSelect`, `BeginSelect`, `ExecSelect`, `EndSelect` |
| `killWorker` | `Kill`, when the callers have finished, as at program exit |

A push of `FIFOQueue` is one action: it holds the queue's mutex and its readers
test flags only. That the worker walks over `queryLists` while `getQuery` appends
is a data race of the code; the model takes the append as one step.

### SimulationRun

A network `net` (constant during a behaviour, chosen in `Init` from `Nets`) gives
the module list, groups, owners, views, links, successor mode and the modules
whose view check fails. A `System` is an identity with the set of modules that
have written to it, so a property can say where the data on a port comes from.
Identities that no port holds are free and named again.

| Code | Actions and operators |
|---|---|
| `checkStream` | `Passes`, `Carries`, `Views` (the walk as a bounded closure), `Visited`, `Rearmed`, `Checked` |
| start of `run` | `StartRun` |
| head of the worklist, other domain | `Takes`, `MustWait`, `Postpone` |
| a module executes | `StartModule`; `FinishModule` with the shift of its data, or `FailModule` |
| a group | `EnterGroup` (condition holds), `FinishGroup` (it does not) |
| `shiftData`, `createSuccessor` | `Shifted` |
| `shiftModuleOutput`, `shiftGroupInput` | `ShiftModuleOutput`, `ShiftGroupInput`, `Derived`, `KeepsInPorts` |
| end of `run` | `EndRun`, `EndCanceled` |
| `cancel`, `reset` | `Cancel`, `Reset` |

`Module::run` is the environment: it calls `getData` for any set of its streams
and succeeds or fails. `std::set<Module*>` is ordered by address, so the modules
of one shift are queued in any order. `checkStream` always returns true, so the
branch of `run` for a failed check is dead and is not in the model. `getData`
returns NULL when all in-ports are empty; a module that executes has all of them
set (`WorklistReady`), so the branch does not occur inside `run`.

`MCSimulationRun` holds the networks: `Diamond`, `Chain` (with successor mode),
`BrokenChain`, `OneGroup`, `TwoGroups`, `WideGroup`, `Nested`, `FanIn`,
`LostPort`, and for one run `NestedBeside`.

### SimulationNetwork, SimulationFile

`SimulationNetwork` is the network while it is edited: `modules` in their order,
`owner`, `links`, the views known at every port (`streamViews`, for groups also
`outStreamViews`) and the status of each module. The recursion of
`checkModuleStreamForward` and `checkGroupStreamForward` is the stack `todo`, one
record for each call with the views it still has to deliver. Edits wait until
the recursion has ended: all of this is one thread.

| Code | Actions and operators |
|---|---|
| `addModule`, `removeModule` | `AddModule`, `RemoveModule` |
| `isLinkingValid`, `addLink`, `removeLink` | `IsLinkingValid`, `AddLink`, `RemoveLink` |
| the part of `checkModuleStreamForward` before the links | `CheckModule`, `Verdict`, `Updated`, `ModuleCall` |
| the same of `checkGroupStreamForward` | `CheckGroup`, `GroupCall` |
| their loops over links and their return | `Deliver`, `Received`, `Told`, `Return` |
| `checkStream`, the check at the start of `run`, `reset` | `CheckStream`, `Recheck`, `ResetNetwork` |

`SimulationFile` adds `writeSimulation` (`Save`), `clear` (`Clear`) and
`loadSimulation`, entry by entry: `Load`, `PostponeEntry`, `CreateEntry`,
`EndEntries`, `LoadLink`, `EndLoad`. The XML is left out; an entry is a module,
its group and whether its class is known.

The users' part: they build no cycle of links (`Acyclic`; nothing refuses one,
and the recursion would not end) and load no file that has one
(`CycleAssumption`, in the owners the file gives its modules), an identity is used again for a group only
when no module names it as its owner, and after saving they clear and load. What
the check finds out about attributes, views named "dummy" and ports that `init`
makes are left out, as is the adaptor for old files with loop groups. A file is
loaded into an empty simulation.

### SystemLifetime

Which call deletes which `System`. `alive` are the Systems that are not deleted,
`parent` their predecessors; the list `sucessors` of a System holds all it ever
had. `run` is coarser than in `SimulationRun`: any module that is ready is next,
and the worklist is a set. Everything that uses a `System` says which it used;
when one of them is deleted, `undefined` is set and nothing happens any more.
`exposed` records that a call deleted something others still refer to.

| Code | Actions and operators |
|---|---|
| `Module::getData` | `Created`, `Found`, `AfterGetData`, `Uses` |
| `createSuccessor`, `~System` | `Change`, `Parents`; `Below`, `Deletable` |
| `run`, `shiftModuleOutput`, `shiftGroupInput` | `StartRun`, `FinishModule`, `FailModule`, `EnterGroup`, `FinishGroup`, `EndRun`, `ShiftModuleOutput` |
| `reset` | `Reset`, `RootsHeld` |
| `removeModule`, `~Module` | `RemoveModule`, `EndsIn`, `Twice` |
| `removeLink`, `Module::reset` | `RemoveLink`, `Removed` |

`WritesLeavesOnly` is the ground for the assumption `Leaf` of `Successors` and
`SystemGraph`: modules write only to Systems without successors.

### LruCache, Cache

`Cache` is the linked list of `dmcache.h`: `root`, `last`, `cnt` and the links of
the nodes, the operations as actions, each of them inside the cache's mutex.
`LruCache` is what the header promises, a dictionary "with limited size, sorted
by access order", as a sequence of keys. `SortedByAccess` says that `Cache`
implements it under the mapping that reads the keys along the list.

### RasterBlocks

`DbCache` over the operators of `Cache` (`C == INSTANCE Cache`), and the raster
that uses it. The content of a block is the number of the last write to it.
Statements go through `queue` to the table `rows`; that they arrive in order,
each once, is what `WritesInOrder` of `DBWorker` shows. A get of a block that was
dropped calls `LoadFromDb`, which uses and deletes a query the worker has deleted
already: undefined behaviour, so the action `LoadBlock` sets `undefined` and the
model stops. `truth` and `saved` record the writes and what `Synchronize` saved.

### SystemVersions, Successors

`DerivedSystem` copies a component when it is asked for, and the copy shares the
attributes of its source until they are accessed. `SystemVersions` is the promise
of `dmsystem.h`: each system a map of its own, only systems without successors
change. `Successors` is the code: component objects `<<system, name, number>>` on
a heap, attributes with an `owner`, the name maps, the lists of a viewer.
`SuccessorsAreVersions` says that it implements the promise when a system is read
by name (`Lookup`).

| Code | Actions and operators |
|---|---|
| `createSuccessor`, `DerivedSystem::DerivedSystem` | `CreateSuccessor` |
| `addComponent`, `addNode`, `addChild` | `Add`, `Registered` |
| `getComponentReadOnly`, `getComponent`, `SuccessorCopy` | `Find`, `GetComponent`, `SuccessorCopy`, `Owners` (nodes) |
| `removeChild`, `~Component` | `RemoveComponent`, `Forgotten`, `Unlisted`, `Deletes` |
| `Component::getAttribute`, `CloneAllAttributes` | `OwnAttribute`, `GetAttribute` |
| `addAttribute`, `changeAttribute`, `removeAttribute` | `ChangeAttribute`, `RemoveAttribute` |
| `DataViewer::getComponents`, `migrateAllComponents` | `GetComponents`, `Foreign`, `Migrated` |
| `addComponentToView`, `removeComponentFromView` | `AddComponentToView`, `RemoveComponentFromView` |

The modules are the environment, and three assumptions about them are guards:
they change only systems without a successor (`Leaf`: a predecessor is kept "for
read only purpose", `dmderivedsystem.h:31`; that runs keep to it is
`WritesLeavesOnly` of `SystemLifetime`), they change a component of a view only after enumerating that view with
write access (`Enumerated`), and they remove only what they have asked for
before. Without the second a write is lost, as `migrateAllComponents` copies a
component again that was copied by name. They read in every system, also in
predecessors. A component has its name when it is added. A component that is
removed from a successor shows the one of the predecessor again, at the next
lookup; `SystemVersions` contains this (`Remove`).

### SystemGraph

Nodes, edges and faces of a system and its successors as objects
`<<system, name, number>>`: `ends` of the edges, `corners` of the faces, and
`connectedEdges`, the list each node keeps. Attributes and views are left to
`Successors`.

| Code | Actions and operators |
|---|---|
| `createSuccessor` | `CreateSuccessor` |
| `addNode`, `addEdge`, `addFace`, the constructor of `Edge` | `AddNode`, `AddEdge`, `AddFace`, `ListedAtBoth` |
| `getNode`, `getEdge`, `getFace` by name, `SuccessorCopy`, `Node::operator=` | `GetNode`, `GetEdge`, `GetFace`, `EndsFor`, `CornersFor`, `ListsWith` |
| `setStartpoint`, `setEndpoint` | `MoveEnd`, `Unlisted` |
| `removeNode`, `removeComponent` of a node, `removeChild` | `RemoveNode`, `RemoveComponent`, `DeleteNode`, `Connected`, `Erased` |
| `removeEdge`, `removeFace` | `RemoveEdgeOrFace` |

The code reads a deleted node in `removeNode` (`dmsystem.cpp:278`): any of the
edges it should find may be missed (`missed`), and they, like edges and faces
whose node was removed alone, are `torn`. The destructor of `Edge` takes it off no
list, also when `addEdge` refuses and deletes it; moving one end of a loop takes
it off the list where the other end stays (`lost`). The assumptions about modules:
names are unique, they change only systems without successors, hand `addEdge` and
`addFace` nodes of the system or of its predecessors (`Visible`), move edges only
to nodes of their system, and remove no copy of a node (with it they would take
the name attribute it shares with its source, see `successors_of_nodes`).
Steps that read a deleted node are not taken, except in `removeNode`.

## 3. Runs

| Run | Configuration | Result |
|---|---|---|
| `dbworker` | `DBWorker.cfg` | passes |
| `dbworker_read_your_writes` | `DBWorkerReadYourWrites.cfg` | violated |
| `dbworker_rows` | `DBWorkerRows.cfg` | violated |
| `simulation_run` | `SimulationRun.cfg` | passes |
| `simulation_nested_group` | `SimulationRunNested.cfg` | violated |
| `cache` | `Cache.cfg` | passes |
| `raster_blocks` | `RasterBlocks.cfg` | passes |
| `successors` | `Successors.cfg` | passes |
| `successors_of_nodes` | `SuccessorsNodes.cfg` | violated |
| `simulation_file` | `SimulationFile.cfg` | passes |
| `system_lifetime` | `SystemLifetime.cfg` | passes |
| `system_graph` | `SystemGraph.cfg` | passes |

**dbworker.** Two clients, two calls each, one write and one select command, a
stack of two. Two clients are enough for every race on the slot and on a stack;
two calls let a client follow its own write; a stack of two is the smallest that
works and empties at once. Shown: `StackSound`, `AwaitsOwnAnswer`,
`WritesInOrder`, and with fairness `CallsReturn`, `ShutdownCompletes`.

**dbworker_read_your_writes** shows that the order "write-read" of the loop does
not give a client its own writes: a write and a select that arrive after the
queue was found empty, and before `qSelect` is tested, are executed in the wrong
order.

**dbworker_rows** shows that a caller may take the rows of another client: both the
status and the rows are read after `clientSelectMutex` is free again.

**simulation_run.** Three runs on each of nine networks, each from whatever
the one before left. Cancel and reset may happen at every step, and each module
may use each subset of its streams, or fail. Three runs are enough for what a
run can find: it leaves behind only ports, statuses and armed groups, which the
next one starts from, and after a failed and a completed run a third one starts
clean.

A run after a failed one may start in the middle of the network and share data,
which the model contains and no property excludes. `PredecessorsFirst`,
`SeesAllUpstream` and `EveryModuleRuns` are claimed for runs that start with no
data on the in-ports (`clean`). For `SeesUpstreamOnly` and `OwnsAlone` that is not
enough, as data also stays on out-ports: they are claimed as long as no run
since the last reset found data (`fresh`). Take a group with a member that fails
in the first run. The second enters the group again with the System still on its
in-port, and hands it to the group's first member although the failed one has
it. After the third run all in-ports are empty, but an out-port of the group and
one of a module behind it hold that System; the fourth starts clean, leaves
the group and hands it to another module. Three runs do not reach this; the
proof of `OwnsAlone` failed on it, and TLC then found it in four runs.

`SeesAllUpstream` is the other half: what was written on the way is there, if each
port has one link (`FedOnce`; of several links into a group's port the last one
to deliver counts) and every module that finished has written its streams
(`AllWritten`). A module that writes nothing hands nothing on, and its group may
hand out what an earlier run has left on its out-port. In `NestedBeside`, the
network of `simulation_nested_group`, it does not hold, for the reason of that
finding. `EveryModuleRuns` further asks for a well formed network: the check finds
views for every port and every in-port of a group is linked inwards. Where a group
hands its single in-port to several members, these share one `System`
(`FansOutUnsplit`).

`CancelSkips`: after `cancel` no module is started, none executes but the one that
did, no group is entered or left, and only that one module finishes.

**simulation_nested_group** shows that an outer group is left while a group
nested in it still waits; see the findings in `PROJECT.json`.

**cache.** Four keys, two values, size three: each key can be at both ends and in
the middle, and adding the fourth drops the last.

**raster_blocks.** Four blocks, a cache of two and a block writing size of three,
so that the guard that keeps the last block is reached; three writes, three
resizes, a queue of up to two statements before a `Synchronize` (a resize itself
may queue more). `RowsAsSaved`: once the queue is executed, the row of a cached
block holds the cells that `Synchronize` found in it the last time (`saved`, a
history variable), through saves before and after it was written again, and
through resizes that delete the rows and begin new ones under the same keys; the
row of a block that was dropped holds NoValue. The run never drops a block that
was written, and neither does the code as far as its behaviour is defined: only
`SQLInsertField` adds blocks, before any cell is written, and the other path,
`LoadFromDb`, is undefined.
The run has no deadlock check, as the bounds on writes and resizes stop it, and
so does `undefined`.

**successors.** One name, which need not be in the view, and three systems: a
chain of three, or two successors of one. Names do not interact: an action on one
leaves the objects and attributes of the others alone. Two writes tell a value
from the one it replaces; two objects of a name in a system are all that occur
(a bound of three gives the same states). Shown: `SuccessorsAreVersions`,
`HeapSound` (no dangling attribute, none without an owner that deletes it, shared
only with successors of the owner), `ViewsAgree`. The components of this run are
no nodes. It has no deadlock check, as the bounds stop it.

**successors_of_nodes.** With a node instead, `OnlyOneSystemChanges` fails:
`Node::SetOwner` gives the attributes to the copy, which then changes or deletes
what the predecessor and other successors still use.

**simulation_file.** Two sources, a group with a member, and a module with two
in-ports; six links to choose from, so that a port can be fed from two places,
into a group, inside it and out of it; two views, so that a module can fail its
check for one and pass for the other. Modules may be added and removed, files
saved and loaded twice together (`MaxChanges`); links come and go without a
bound. Shown: `StreamsCurrent` (the incremental check leaves at every port with
one live link what that link offers now), `ChecksCurrent`, `LoadsFile`,
`CallReturns`. After a removal that empties a port which is still served, the
code leaves the port empty until the next reset, and nothing is claimed
(`patched`). `LoadsFile` is claimed for files with the groups first, as the
writer makes them, and for files with nothing missing and no chain of waiting
groups; other files may be given up too early, as entries that never waited
count down as well.

**system_lifetime.** Six networks of four modules: branches, a chain with
successor mode, groups with two in-ports, with a lost in-port, with members that
share an in-port. Three runs, each from what the last one left, two removals,
eight Systems (a run of these networks makes at most four). `MemorySafe` is
claimed until a removal, or a group without a link inwards, deletes what others
still refer to (`exposed`); those deletions are in the model and what follows
them too. It has no deadlock check: it stops where behaviour is undefined.

**system_graph.** Two nodes (alike), an edge, a face, and three systems in any
shape; an edge may be a loop, copied before or after its nodes, moved or removed
twice; eight objects at most. Two nodes tell start from end, and one edge
is enough, as edges do not interact except through their nodes. Shown:
`EdgesListed`, `EndsAtHome`, `GraphsAreVersions`. Edges end in their own system, and
so do faces that a successor copied (`Copied`); a face that a module added to a
successor may keep nodes of a predecessor, in the code too, so `EndsAtHome` does not
say of it what `dmface.h:43` says. The bounds stop it, so there is no deadlock check.

### Departures from comments without a run of their own

- `setConfig` accepts a `queryStackSize` of 1 (`dmdbconnector.h:258`), with which
  no query is ever prepared (`dmdbconnector.cpp:260`): the first call never returns.
- The status of a simulation is set to failed and never reset
  (`dmsimulation.cpp:681`), although it should tell of the last run
  (`dmsimulation.h:147`).
- The test for read only modules (`dmsimulation.cpp:835`) is the opposite of the
  comment below it; `KeepsInPorts` has the test of the code.
- `getEdge(start, end)` returns an edge that starts at the one or ends at the
  other (`dmsystem.cpp:335`), where `dmsystem.h:144` promises 0 "if Edge doesn't
  exist".
- `addEdge` refuses an edge on nodes of a predecessor (`dmsystem.cpp:297`), `addFace`
  checks nothing (`dmsystem.cpp:356`), although "Faces only contain references to
  nodes stored in the system" (`dmface.h:43`). `AddFace` takes such faces.

### Fairness

`DBWorker`: weak fairness of the worker and of each client. They are threads of
the operating system that sleep with a time limit and test again. No fairness
for `Call` and `Kill`: nobody has to call. Mutexes need no strong fairness in the
bounded runs; with an endless stream of writes the drain loop could keep a
select waiting, which the bound `MaxCalls` excludes.

`SimulationRun`: weak fairness of `RunStep`: the loop of `run` continues and
`Module::run` returns. It is written as `[]<>(pc = "idle") \/
[]<><<RunStep>>_vars`, as `RunStep` is enabled exactly when `run` is active.
Nobody has to start, cancel or reset.

`SimulationFile`: weak fairness of `Step`, the walk of a check and the steps of a
load: one thread makes the call, and it goes on. Nobody has to edit, save or load.

`SystemLifetime` and `SystemGraph` claim safety only.

## 4. Proofs

Each component with proofs has a module `...Proofs` beside it. The theorems hold
for every value of the constants that meets the assumptions of the component's
module, and for behaviours of any length: the bounds of the runs (calls, copies,
writes, removals) are constants like others. Where a proof needs more than
the module assumes, the theorem says so in its `ASSUME`.

The inductive invariants, which of their parts the runs check, and what the other
parts are there for:

### DatabaseProofs

Proves about `DBWorker` and about `RasterBlocks`, whose data the worker stores.

**DBWorker.** Every set of clients and commands, every number of calls and every stack size. The
assumptions are those of `DBWorker`: the worker and `NoOne` are no clients, there
is a write command, no command is both a write and a select, the stack size is at
least one.

The properties are not inductive. `IInv` adds:

- `Locks`: which mutex is held at which place of a client and of the worker.
  Without it nothing says that only one client is between the look and the pop.
- `Stacks`: during a refill the height plus the pushes still to come are within
  the stack size; clients that pop meanwhile only lower it.
- `Slot`: which client the slot, the status and the rows belong to, in particular
  that a status is not "notdone" when the worker releases the slot and that a
  client which waits either is in the slot or has been answered.
- `Counts`: a write that is not queued yet has been counted as a call.

| Theorem | Statement |
|---|---|
| `Invariance` | `DBSpec => []IInv` |
| `TypeCorrect` | `DBSpec => []DBTypeOK` |
| `StackSafe` | `DBSpec => []StackSound` |
| `AnswersGoToAsker` | `DBSpec => []AwaitsOwnAnswer` |
| `WritesKeepOrder` | `DBSpec => []WritesInOrder` |

`WritesInOrder` speaks of `db \o writes`: a push appends to it and a drain leaves
it as it is (`AppendRight` and the lemma beside it), so the proof needs only the
counts of each client.

**RasterBlocks.** Every list of blocks, every size of the cache and of block writing. `RasterInv`
says of an open raster that for each block what reading it would yield, from
the cache, or else from the table once the queue is executed (`Content`), is what
was last written, and that `isInserted` holds of exactly the blocks that will
have a row (`Holds`); of a raster that is not open, that the cache is empty, and
the table will be (`Clean`); of both, that the list of the cache is a `Chain`, for
which the lemmas of `CacheProofs` are used (`K == INSTANCE CacheProofs`). `Kept` says
that the rows of the cached blocks will hold what was saved last: nothing, right
after `setSize`, as no block in the cache has a row then (`Unsaved`). The loops of the
code (drop until there is room, write back every block, execute every statement)
are recursive functions on an interval 0..n; the lemma `Recursion` of `Lineage` proves
an invariant of each by induction.

| Theorem | Statement |
|---|---|
| `SpecRasterInv` | `Spec => []RasterInv` |
| `SpecTypeOK` | `Spec => []TypeOK` |
| `SpecRowsAsSaved` | `Spec => []RowsAsSaved` |
| `SpecLabelsMatchRows` | `Spec => []LabelsMatchRows` |
| `SpecCacheKept` | `Spec => []CacheKept` |

### CacheProofs

`CacheInv == TypeOK /\ Listed /\ Bounded`. `Listed` says that there is one
sequence of keys without repetitions that `root`, `last`, `next`, `prev` and the
count spell out (`Chain`), and that its keys are those of the map; `Bounded` is the
size. Every operation is proved to turn that sequence into another one: a key
dropped (`Skipped`), put in front, cut at the end. That the walks `Forward` and `Backward`
give this sequence and its reverse is a lemma, so `ListMatchesMap` follows, and
the same sequence is the state of `LruCache`, to whose actions the operations map.

| Theorem | Statement |
|---|---|
| `SpecCacheInv` | `Spec => []CacheInv` |
| `SpecTypeOK` | `Spec => []TypeOK` |
| `SpecListMatchesMap` | `Spec => []ListMatchesMap` |
| `SpecSizeKept` | `Spec => []SizeKept` |
| `SpecSortedByAccess` | `Spec => SortedByAccess`, the refinement of `LruCache` |

### SuccessorsProofs

Every number of systems, names, copies and writes, with the assumption
`NodeNames = {}`: copies of nodes take the attributes over and change several
systems at once, as `successors_of_nodes` shows, so the theorems would be false
of them. `SuccInv == TypeOK /\ TreeOK /\ Shaped /\ HeapSound /\ Viewing`: systems
are younger than their predecessors (`TreeOK`), a system that is not there yet
has no components (`Shaped`), attributes have owners (`HeapSound`), and every
component a viewer lists reads as its name does, and, when it still belongs to a
predecessor, as the name does in the direct predecessor (`Viewing`). The last
part is what lets a migration replace it by a copy.

| Theorem | Statement |
|---|---|
| `SpecSuccInv` | `NodeNames = {}` gives `Spec => []SuccInv` |
| `SpecTypeOK` | the same, `Spec => []TypeOK` |
| `SpecHeapSound` | the same, `Spec => []HeapSound` |
| `SpecViewsAgree` | the same, `Spec => []ViewsAgree` |
| `SpecSuccessorsAreVersions` | the same, `Spec => SuccessorsAreVersions`, the refinement of `SystemVersions` |

### SystemGraphProofs

Every number of nodes, edges, faces, systems and edits.
`GraphInv == Shaped /\ History /\ EdgesListed /\ EndsAtHome`. `Shaped` holds the
types, the tree of systems and that living objects of a system have distinct
names; `History` says what `lost`, `torn` and the ends of deleted objects may
contain, which `EdgesListed` needs as it makes an exception of them. For
`GraphsAreVersions` every edit is shown to change what one system reads only.
`EndsAtHome` is proved in its two halves, `EdgesAtHome` and `FacesAtHome`.

| Theorem | Statement |
|---|---|
| `SpecGraphInv` | `Spec => []GraphInv` |
| `SpecTypeOK` | `Spec => []TypeOK` |
| `SpecEdgesListed` | `Spec => []EdgesListed` |
| `SpecEndsAtHome` | `Spec => []EndsAtHome` |
| `SpecGraphsAreVersions` | `Spec => GraphsAreVersions` |

### SystemLifetimeProofs

Every network (finitely many links and streams, owners that are groups of it),
every number of Systems, runs and removals.
`LifeInv == TypeOK /\ Grounded /\ (~exposed => Safe)`. `Grounded`: predecessors are
older, and identities above `created` are not used. `Safe`: the ports of the modules
that are present hold Systems that are alive, and a System that is alive has no
successor that was deleted before it. Deletion takes a subtree (`Below`), so it
keeps this when no port outside looks into the subtree; otherwise it sets
`exposed`.

`WritesLeavesOnly` is proved for networks that are `Linked`: `isLinkingValid`
demands the ports at both ends and refuses a second link at the in-port of a
module; beyond that, the hypothesis leaves out links across groups, a port of a
group with two links from the same side, groups and members of groups without an
in-port, and groups that own each other. `MCSystemLifetime` assumes the same of its
networks, so TLC checks that they meet it. The invariant is `FreshInv`: there are a
set `P` of modules still to finish and a set `E` of groups still to be entered
(`Untouched`) such that who waits is in them and what their links lead to is too
(`Awaited`), data on an in-port came over a link from outside of them (`Fed`), and
what lies on a port of theirs is on no other, but for the in-ports of groups that
were entered (`Unshared`), and has no successors (`Leaves`). `P` and `E` are not
functions of the state: a module that finishes is taken from `P`, a group that is
entered from `E`, and the rest follows because `shiftModuleOutput` gives each
link at a shared port a successor of its own, and so does a group with more
than one in-port; `FansOutUnsplit` is the case where it does not.

| Theorem | Statement |
|---|---|
| `SpecLifeInv` | `Spec => []LifeInv` |
| `SpecTypeOK` | `Spec => []TypeOK` |
| `SpecMemorySafe` | `Spec => []MemorySafe` |
| `SpecWritesLeavesOnly` | every network `Linked` gives `Spec => []WritesLeavesOnly` |

### SimulationRunProofs

Every network that `IsNet` admits and any series of runs, failures, cancels and
resets. The theorems about the ports assume `~IsFiniteSet(Systems)`: a new
System gets an identity that no port holds, and with finitely many identities
these could run out (TLC has a dozen, more than the ports of its networks hold).
`RunInv == TypeOK /\ WorklistReady /\ Phased /\ Counted`. `Phased` relates
`pc`, `current`, the statuses and the worklist: only the current module, or a group
that is entered, is executing, so a module that executes is in no worklist.
`Counted`: every execution beyond the first of its module has raised the number
to finish before.
`WorklistReady` is kept by a shift because data only leaves the in-ports of the
module that finishes, and that one is not in the worklist.

`PredecessorsFirst` is proved for networks that are `Plain`: no group is inside
another, a link stays in a group or crosses its border, and each in-port has one
link. The first condition is needed, as `simulation_nested_group` shows how an
outer group goes on too early, and the third is what `isLinkingValid` demands
except for in-ports of groups. What the links say and what the ports hold are
related by `OrderInv`, which a run that starts clean keeps:

- `Fed`: data on an in-port came by its one link, whose source has handed on its
  data for good (`Delivered`): a module when it is done, a group when it is
  entered, and it is armed then.
- `Once`: nothing waits or executes that is done.
- `GroupsShut`: a group that is done is not armed, and the in-ports of one with
  out-ports are empty, so it is not entered again.
- `GroupsOpen`: while members of a group that was entered wait, the group is the
  current domain and still executing, so it does not finish under them.

Each needs the others: that a shift delivers nothing twice follows from `Once`
of the module that finishes, and `Once` of the modules it wakes from `Fed`.

`EveryModuleRuns` is the converse, that nothing is forgotten. `ProgressInv` says of
a clean run in a well formed network, in which the modules that are done have
written their streams:

- `Sent`: what was handed on along a link is there until its destination is done.
- `ReadyWaits`: whoever has all its in-ports set and is not done waits.
- `LeavesNext`: a group that a member has fed waits until it is done.
- `KeptInside`: an entered group keeps its in-ports, without which it would not be
  inserted again.
- `EnteredFirst` and `MembersFirst`: no member is done before its group is entered,
  nor waits while another domain is current.
- `Recorded`: only modules that are done have written.

A group is left when no member waits, so all its members are done (`MembersDone`)
and all its out-ports set; when nothing waits at all, everything has run
(`NothingLeft`). Both arguments take a module that is not done and has no other
such module before it, which exists where links lead forward (`Forward`): a loop
that leaves a group and comes back to another of its in-ports passes the check,
which takes each stream of a group by itself, but the group is never entered.
`Forward` also asks that members have in-ports. One without may run before its
group is entered, and is not executed again for it; if it is the only one to feed
the group, the group is never left. Neither is excluded by the code.

`OwnsAlone` and `SeesUpstreamOnly` follow from one invariant, `ShareInv`, for
networks in which no group is inside another (`Unnested`). It speaks of places, the
in- and out-ports, as long as `fresh` holds: no two places hold the same System,
but for the in- and the out-port of one stream of a module (`Alone`), and the
System of a place was written to only by modules on its `Trail` (`Within`). The
in-port of a group that was entered does not count: its members hold its
System. So when the group is entered again, it must have lost that System; as
the failure above shows, this takes that the run started without data. When no run
is active the invariant says nothing of what data on in-ports holds, only who
holds it. Groups in groups are left out: entering the outer one arms the inner one
again, and the invariant would have to know that its in-port is empty then.
`ShiftModuleOutputMoves` and `ShiftGroupInputMoves` say what a shift does to places:
Systems arrive along links, each either new or taken away from where it was.
`TrailSettles` says that the trails include those of the links that lead to a place:
`Trail` takes one more link in each round, and within as many rounds as there are
links it has stopped growing.

`SeesAllUpstream` uses the same lemmas. `WholeInv` says of a clean run in a well formed
network, where `AllWritten` and `FedOnce` hold, that the System of a `Settled`
place holds the whole trail (`Whole`): of every in-port, and of the out-ports of a
group once the modules that feed them are done. Before, an out-port may hold what
an earlier run has left. That the out-ports are settled when the group is left is
`MembersDone`, so this theorem takes `Plain` and `Forward` networks, and is
stated as `WellFormed => SeesAllUpstream`.

| Theorem | Statement |
|---|---|
| `SpecRunInv` | infinitely many identities give `Spec => []RunInv` |
| `SpecTypeOK` | the same, `Spec => []TypeOK` |
| `SpecWorklistReady` | the same, `Spec => []WorklistReady` |
| `SpecProgressBounded` | the same, `Spec => []ProgressBounded` |
| `SpecCancelSkips` | `Spec => CancelSkips` |
| `SpecPredecessorsFirst` | the same as for `SpecRunInv`, and `Plain` networks, give `Spec => []PredecessorsFirst` |
| `SpecEveryModuleRuns` | the same, and `Forward` networks, give `Spec => EveryModuleRuns` |
| `SpecOwnsAlone` | the same as for `SpecRunInv`, and `Unnested` networks, give `Spec => []OwnsAlone` |
| `SpecSeesUpstreamOnly` | the same, `Spec => []SeesUpstreamOnly` |
| `SpecSeesAllUpstream` | the same as for `SpecEveryModuleRuns`, `Spec => [](WellFormed => SeesAllUpstream)` |

### SimulationFileProofs

Every palette of modules, groups, ports and views, every series of edits, and
every file. The assumptions of `SimulationNetwork` say what `addData`
(`dmmodule.cpp:228`) makes of the views a module declares: in-ports for what it
asks for, an out-port for each stream it adds a view to or modifies one of
(`OfferAssumption`), and for a group both ports of each stream. Those of
`SimulationFile` say that a file lists a module once and has no cycle
(`CycleAssumption`).

`FileInv` is inductive for `TypeOK` and `ChecksCurrent`: the network is
typed, links are between present modules and fit their ports (`Linked`), the
status of each module is the verdict on the views it has now (`Judgements`), and
each phase of a load leaves empty what the next one fills. `Judgements` holds in
the middle of a walk too, as a module is judged in the step that changes its
in-ports. A module is taken out of the list by `Kept`, a recursive function, of
which lemmas say what it keeps and that it keeps the order.

`StreamsCurrent` needs to know what a walk that is not finished will still do.
`StreamsFileInv` adds three facts:

- `Ranks`: the places views pass through (a module, or one side of a port of a
  group) can be numbered such that every link leads to a lower one. `RanksExist`
  gets the numbers from `Acyclic`: the rank of a place is the number of links that
  can be followed from it.
- `Streaming`: in the stack of calls, those further in are for places of lower
  rank (`Nested`), and each has still to deliver what its place offers now
  (`Ready`). The second needs the first: a delivery changes a port of lower rank
  only, so it does not change what the calls around it have read before.
- `Settled`, unless a removal has emptied a port others serve (`patched`): there is
  a set `X` of links which contains every link whose source passes its check or is fed
  by a link of `X`, except those a call on the stack still has to serve
  (`Reaches`), and for which the port they alone lead to holds what they offer (`Holds`).

With an empty stack `X` contains the live links (`LiveAreSettled`, by induction
over the rounds of `Live`). `X` is not a function of the state: it may contain links
of groups whose data has gone since, which a removal takes out (`LosesOnly`), and it
grows with each delivery. While a file is loaded the invariant only says that
modules and links come from the file, so the numbers exist at the end; the check
of the whole network at the end of the load starts with no link settled.

| Theorem | Statement |
|---|---|
| `SpecFileInv` | `Spec => []FileInv` |
| `SpecTypeOK` | `Spec => []TypeOK` |
| `SpecChecksCurrent` | `Spec => []ChecksCurrent` |
| `SpecStreamsFileInv` | `Spec => []StreamsFileInv` |
| `SpecStreamsCurrent` | `Spec => []StreamsCurrent` |

### Lineage

The walk from a system to its predecessors is used in `Successors`,
`SystemGraph` and `SystemLifetime`, each as a recursive function. `Lineage`
proves its equations and that it reaches only older systems. The prover's
induction theorems take an operator as a parameter, which the backends cannot
instantiate; instead each induction takes the least number for which the claim
fails (`LeastExists`, from the well-foundedness of `<`), and a recursive
function is unfolded by exhibiting a function that solves its equation. `Induction`
and `Recursion` are the same for functions on an interval 0..n: the loops of
`DatabaseProofs`, the rounds `Views` of `SimulationRunProofs` and `Kept` of
`SimulationFileProofs`. `RecursionOnNat` is `Recursion` for functions on all numbers, which
`Live`, `EndsIn` and `Trail` are.

### What is only model-checked

- Liveness (`CallsReturn`, `ShutdownCompletes`, `RunReturns`, `CallReturns`): fairness
  and `ENABLED` are out of the prover's reach.
- `PredecessorsFirst`, `EveryModuleRuns`, `OwnsAlone`, `SeesUpstreamOnly` and
  `SeesAllUpstream` of `SimulationRun` for groups inside groups (`Nested`), and for
  the networks the hypotheses of the theorems leave out.
- `LoadsFile` of `SimulationFile`: that a sorted file loads whole is an argument about
  the order of its entries and the number of attempts that are left, over a
  recursive reading of the file (`Resolvable`).
- The four violations: a counterexample is found, there is nothing to prove.

## 5. Not modelled

- Texts of statements, the creation of tables, the profiling counters, logging.
- `DbCache::resize` and `preCache`: nothing in the repository calls them.
- Values of rasters, geometry, interpolation and neighbourhoods.
- Conditions of derived groups (loops): a `Group` runs its members once.
- Attributes of views in the stream check, ports made by `init`, `LoopGroupAdaptor`,
  loading into a simulation that is not empty.
- Statements queued while the program ends: every start names a new database file
  by the time (`dmdbconnector.cpp:181`), so nothing of the last run is read again.
- Holes of faces, `getAll...` and the flags that load the lists once,
  `getEdge(start, end)`, filters of views, subsystems.
- The state of systems, components and attributes in the database. Two places to
  know before they are modelled: `Component::isInserted` is not initialised by any
  constructor of `Component`, and `SaveToDb` (`dmcomponent.cpp:380`) chooses between
  INSERT and UPDATE by it; `MoveAttributeToDb` saves an attribute under its owner,
  while `getAttribute` loads it under the component itself, which differ for an
  attribute shared with a predecessor. Only a unit test calls `MoveAttributeToDb`.
- Everything the inventory marks as not modelled: text, dynamic loading, geometry
  and bindings, without control worth a model.

## 6. Plan

1. `Successors`: the lists by kind (`getAllComponents` and the flags that load
   them once), raster data, which is never copied.
2. `SystemGraph`: holes of faces, and the filters of views over it.
3. Proofs: `LoadsFile`; the theorems of `SimulationRun` for groups inside groups.
