--------------------------- MODULE SystemLifetime ---------------------------
(***************************************************************************)
(* Who deletes a System.  Ports of modules hold plain pointers to Systems; *)
(* a System lists its successors and deletes them with itself, but nobody  *)
(* takes a deleted successor off that list.  Systems are made by getData   *)
(* and by createSuccessor on branches, and deleted by reset (the roots     *)
(* that ports hold), by the destructor of a module (what ends in it) and   *)
(* by a group that finds no link into it.                                  *)
(*                                                                         *)
(* Runs are coarser than in SimulationRun: any ready module may be next.   *)
(* What the use of a deleted System or module does is undefined; the model *)
(* stops there.                                                            *)
(***************************************************************************)
EXTENDS Integers, FiniteSets, Sequences, SequencesExt

CONSTANTS
  Modules, Streams,
  NULL,            \* a port without data
  Root,            \* the owner of a module outside of every group
  Nets,            \* the networks to run
  MaxSystems,      \* bound: Systems ever created
  MaxRuns,         \* bound: calls of run
  MaxEdits         \* bound: modules and links removed

Access == {"read", "modify", "write"}
Link == [src : Modules, out : Streams, dst : Modules, in : Streams]
IsNet(n) ==
  /\ n.groups \subseteq Modules
  /\ n.owner \in [Modules -> n.groups \cup {Root}]
  /\ n.views \in [Modules -> SUBSET (Streams \X Access)]
  /\ n.links \subseteq Link /\ IsFiniteSet(n.links)
  /\ n.successorMode \subseteq Modules
ASSUME NetAssumption == \A n \in Nets : IsNet(n)
ASSUME FiniteAssumption == IsFiniteSet(Streams)
ASSUME BoundAssumption == /\ MaxSystems \in Nat /\ MaxRuns \in Nat /\ MaxEdits \in Nat
                          /\ NULL \notin Nat /\ Root \notin Modules

Systems == 1..MaxSystems

VARIABLES
  net, present,      \* the network; the modules that are there
  inPort, outPort,   \* Module -> stream -> System or NULL
  created, alive,    \* how many Systems were made, those not deleted
  parent,            \* System -> its predecessor or 0
  armed,             \* the groups whose condition holds once more
  running, ready,    \* inside run; the worklist, in any order
  undefined,         \* something deleted was used
  exposed,           \* history: a removal, or a group, deleted what others refer to
  fresh, spoiled,    \* history: the run began without data; a predecessor was written
  runs, edits        \* bounds

data    == <<inPort, outPort, created, alive, parent, undefined, exposed>>
control == <<armed, running, ready, fresh, spoiled, runs>>
vars    == <<net, present, data, control, edits>>

IsGroup(m) == m \in net.groups
Ins(m)  == {v[1] : v \in {w \in net.views[m] : w[2] # "write"}}
Outs(m) == {v[1] : v \in {w \in net.views[m] : w[2] # "read"}}
IsIntoGroup(l)  == net.owner[l.dst] = l.src
IsOutOfGroup(l) == net.owner[l.src] = l.dst
Outgoing(m)  == {l \in net.links : l.src = m /\ ~IsIntoGroup(l)}
IntoGroup(g) == {l \in net.links : l.src = g /\ IsIntoGroup(l)}
Members(g)   == {m \in present : net.owner[m] = g}

InPortsSet(m, in) == \A s \in Ins(m) : in[m][s] # NULL
NoPorts == [s \in Streams |-> NULL]
NoData  == [m \in Modules |-> NoPorts]
On(port, m) == {port[m][s] : s \in Streams} \ {NULL}
Held(in, out) == UNION {On(in, m) \cup On(out, m) : m \in present}

(* The list sucessors of y: what createSuccessor appended, nothing removed. *)
Sucessors(y) == {z \in 1..created : parent[z] = y}
(* These Systems and all their successors, par being the predecessors.     *)
Below(ys, par) ==
  LET Lineage[z \in Systems] == {z} \cup (IF par[z] = 0 THEN {} ELSE Lineage[par[z]])
  IN {z \in Systems : Lineage[z] \cap ys # {}}

TypeOK ==
  /\ IsNet(net) /\ present \subseteq Modules
  /\ inPort \in [Modules -> [Streams -> Systems \cup {NULL}]]
  /\ outPort \in [Modules -> [Streams -> Systems \cup {NULL}]]
  /\ created \in 0..MaxSystems /\ alive \subseteq 1..created
  /\ parent \in [Systems -> 0..MaxSystems] /\ \A y \in Systems : parent[y] < y
  /\ armed \subseteq Modules /\ ready \subseteq present
  /\ running \in BOOLEAN /\ undefined \in BOOLEAN /\ exposed \in BOOLEAN
  /\ fresh \in BOOLEAN /\ spoiled \subseteq Systems
  /\ runs \in 0..MaxRuns /\ edits \in 0..MaxEdits

Init ==
  /\ net \in Nets /\ present = Modules
  /\ inPort = NoData /\ outPort = NoData
  /\ created = 0 /\ alive = {} /\ parent = [y \in Systems |-> 0]
  /\ armed = net.groups
  /\ running = FALSE /\ ready = {}
  /\ undefined = FALSE /\ exposed = FALSE
  /\ fresh = TRUE /\ spoiled = {}
  /\ runs = 0 /\ edits = 0

-----------------------------------------------------------------------------
(* Creating and deleting *)

(* ~System deletes all successors it ever had, alive or not: undefined if  *)
(* one of them, or of these Systems themselves, is gone when its turn comes. *)
Deletable(ys, par, living) ==
  /\ Below(ys, par) \subseteq living
  /\ \A y, z \in ys : y # z => z \notin Below({y}, par)

(* Somebody still refers to what is deleted: a port, or a predecessor that *)
(* will delete it again.                                                   *)
Exposes(ys, held, par, living) ==
  \/ Below(ys, par) \cap held # {}
  \/ \E y \in ys : par[y] \in living \ Below(ys, par)
  \/ \E y, z \in ys : y # z /\ z \in Below({y}, par)

-----------------------------------------------------------------------------
(* run *)

StartRun ==
  /\ ~undefined /\ ~running /\ runs < MaxRuns
  /\ running' = TRUE /\ runs' = runs + 1
  /\ ready' = {m \in present : InPortsSet(m, inPort)}
  /\ \E again \in SUBSET net.groups : armed' = armed \cup again   \* by the check
  /\ fresh' = (Held(inPort, outPort) = {}) /\ spoiled' = {}
  /\ UNCHANGED <<net, present, data, edits>>

(* shiftData along the links ls, carrying the Systems data: the ports      *)
(* afterwards.                                                             *)
Shifted(ls, carried, in, out) ==
  LET Into(m, s) == {l \in ls : l.dst = m /\ l.in = s /\ ~IsOutOfGroup(l)}
      Upon(m, s) == {l \in ls : l.dst = m /\ l.in = s /\
                       (IsOutOfGroup(l) \/ (s \in Outs(m) /\ ~IsGroup(m)))}
      Put(port, m, s, from) ==
        IF from = {} THEN port[m][s] ELSE carried[CHOOSE l \in from : TRUE]
  IN [in  |-> [m \in Modules |-> [s \in Streams |-> Put(in, m, s, Into(m, s))]],
      out |-> [m \in Modules |-> [s \in Streams |-> Put(out, m, s, Upon(m, s))]]]

Emptied(port, m, which) ==
  [port EXCEPT ![m] = [s \in Streams |-> IF s \in which THEN NULL ELSE @[s]]]

SparesOne(m, branches) ==                                 \* mutant of Derived
  {l \in branches : l # CHOOSE k \in branches : k.out = l.out}
Derived(m, branches) ==
  {l \in branches : \/ m \in net.successorMode
                    \/ Cardinality({k \in branches : k.out = l.out}) > 1}
KeepsInPorts(m) == Outs(m) = {} /\ (IsGroup(m) \/ \A v \in net.views[m] : v[2] # "read")

(* Names for new Systems, n having been made before.                       *)
Named(new, n) == CHOOSE f \in [new -> (n + 1)..(n + Cardinality(new))] : IsInjective(f)

(* New Systems: fromNew by getData, then one by createSuccessor for each   *)
(* link of new, of the System src[l], whose successors so far are read.    *)
(* used were read or written before; gone are deleted at last.             *)
Parents(new, src, n) ==
  [y \in Systems |-> LET as == {l \in new : Named(new, n)[l] = y}
                    IN IF as = {} THEN parent[y] ELSE src[CHOOSE l \in as : TRUE]]
Change(new, src, fromNew, used, gone) ==
  LET n      == created + fromNew
      living == alive \cup ((created + 1)..n)
      par    == Parents(new, src, n)
      read   == UNION {{src[l]} \cup Sucessors(src[l]) : l \in new}
  IN /\ n + Cardinality(new) <= MaxSystems
     /\ created' = n + Cardinality(new)
     /\ parent' = par
     /\ alive' = (living \cup ((n + 1)..(n + Cardinality(new)))) \ Below(gone, par)
     /\ undefined' = ~(used \cup read \subseteq living /\ Deletable(gone, parent, living))

Queue(ls, in, rest) == ready' = rest \cup {l.dst : l \in {k \in ls : InPortsSet(k.dst, in)}}

(* shiftModuleOutput of m, whose run has left the ports out.               *)
ShiftModuleOutput(m, out, fromNew, used) ==
  LET branches == {l \in Outgoing(m) : out[m][l.out] # NULL}
      new  == Derived(m, branches)
      src  == [l \in branches |-> out[m][l.out]]
      name == Named(new, created + fromNew)
      sh   == Shifted(branches, [l \in branches |-> IF l \in new THEN name[l] ELSE src[l]],
                      inPort, out)
  IN /\ Change(new, src, fromNew, used, {})
     /\ outPort' = Emptied(sh.out, m, {l.out : l \in branches \ new})
     /\ inPort' = IF KeepsInPorts(m) THEN sh.in ELSE Emptied(sh.in, m, Streams)
     /\ Queue(branches, sh.in, ready \ {m})

(* Module::run uses any of its streams.  getData: the System of the        *)
(* in-port, else the one on the out-port already, else a new one.          *)
Created(m, used) == {s \in used : inPort[m][s] = NULL /\ outPort[m][s] = NULL}
Found(m, used) ==
  {IF inPort[m][s] # NULL THEN inPort[m][s] ELSE outPort[m][s] : s \in used \ Created(m, used)}
AfterGetData(m, used) ==
  LET made == Created(m, used)
  IN [outPort EXCEPT ![m] = [s \in Streams |->
        IF s \in made THEN Named(made, created)[s]
        ELSE IF s \in used \cap Outs(m) /\ inPort[m][s] # NULL THEN inPort[m][s]
        ELSE @[s]]]
Uses(m, used) ==
  /\ ~undefined /\ running /\ m \in ready /\ ~IsGroup(m)
  /\ used \subseteq Ins(m) \cup Outs(m)
  /\ spoiled' = spoiled \cup {y \in Found(m, used \cap Outs(m)) : Sucessors(y) # {}}

FinishModule(m, used) ==
  /\ Uses(m, used)
  /\ ShiftModuleOutput(m, AfterGetData(m, used), Cardinality(Created(m, used)), Found(m, used))
  /\ UNCHANGED <<net, present, exposed, armed, running, fresh, runs, edits>>

(* A module that fails leaves the run as it is; its owner, perhaps         *)
(* deleted, is told.                                                       *)
FailModule(m, used) ==
  /\ Uses(m, used)
  /\ Change({}, <<>>, Cardinality(Created(m, used)),
            Found(m, used) \cup (IF net.owner[m] \in present \cup {Root} THEN {} ELSE {0}), {})
  /\ outPort' = AfterGetData(m, used)
  /\ running' = FALSE /\ ready' = {}
  /\ UNCHANGED <<net, present, inPort, exposed, armed, fresh, runs, edits>>

(* A group that is entered: its members' out-ports are cleared; data       *)
(* without a link into the group is deleted.                               *)
EnterGroup(g) ==
  /\ ~undefined /\ running /\ g \in ready /\ IsGroup(g) /\ g \in armed
  /\ armed' = (armed \ {g}) \cup (Members(g) \cap net.groups)
  /\ LET ls   == {l \in IntoGroup(g) : inPort[g][l.out] # NULL}
         new  == IF Cardinality(Ins(g)) > 1 THEN ls ELSE {}
         src  == [l \in ls |-> inPort[g][l.out]]
         name == Named(new, created)
         unlinked == Ins(g) \ {l.out : l \in ls}
         gone == {inPort[g][s] : s \in unlinked} \ {NULL}
         out  == [m \in Modules |-> IF m \in Members(g) THEN NoPorts ELSE outPort[m]]
         sh   == Shifted(ls, [l \in ls |-> IF l \in new THEN name[l] ELSE src[l]], inPort, out)
         in   == Emptied(sh.in, g, unlinked)
     IN /\ Change(new, src, 0, {}, gone)
        /\ inPort' = in /\ outPort' = sh.out
        /\ exposed' = (exposed \/ Exposes(gone, Held(in, sh.out), Parents(new, src, created), alive))
        /\ Queue(ls, in, ready \ {g})
  /\ UNCHANGED <<net, present, running, fresh, spoiled, runs, edits>>

FinishGroup(g) ==
  /\ ~undefined /\ running /\ g \in ready /\ IsGroup(g) /\ g \notin armed
  /\ ShiftModuleOutput(g, outPort, 0, {})
  /\ UNCHANGED <<net, present, exposed, armed, running, fresh, spoiled, runs, edits>>

EndRun ==
  /\ ~undefined /\ running /\ ready = {}
  /\ running' = FALSE
  /\ UNCHANGED <<net, present, data, armed, ready, fresh, spoiled, runs, edits>>

-----------------------------------------------------------------------------
(* Calls between the runs; a canceled run ends with reset.                 *)

(* reset gathers the roots first, as deleting one makes the predecessors   *)
(* of its successors corrupt; then all ports forget.                       *)
EveryHeld == Held(inPort, outPort)                        \* mutant of RootsHeld
RootsHeld == {y \in Held(inPort, outPort) : parent[y] = 0}

Reset ==
  /\ ~undefined
  /\ alive' = alive \ Below(RootsHeld, parent)
  /\ undefined' = ~(/\ Held(inPort, outPort) \subseteq alive
                   /\ Deletable(RootsHeld, parent, alive))
  /\ inPort' = [m \in Modules |-> IF m \in present THEN NoPorts ELSE inPort[m]]
  /\ outPort' = [m \in Modules |-> IF m \in present THEN NoPorts ELSE outPort[m]]
  /\ running' = FALSE /\ ready' = {}
  /\ UNCHANGED <<net, present, created, parent, armed, exposed, fresh, spoiled, runs, edits>>

(* removeModule: its links go, and the destructor deletes what is on its   *)
(* in-ports and not on its out-ports.  Members of a group keep it as their *)
(* owner.  exposed also when one System is on two of its in-ports.         *)
EndsIn(m) == On(inPort, m) \ On(outPort, m)
Twice(m) == \E s, t \in Streams : s # t /\ inPort[m][s] = inPort[m][t] /\ inPort[m][s] \in EndsIn(m)

LinksFrom(m) == {l \in net.links : l.src = m}             \* mutant of LinksOf
LinksOf(m) == {l \in net.links : m \in {l.src, l.dst}}
Removed(port, m) == [port EXCEPT ![m] = NoPorts]
RemoveModule(m) ==
  /\ ~undefined /\ ~running /\ m \in present /\ edits < MaxEdits
  /\ edits' = edits + 1
  /\ present' = present \ {m}
  /\ net' = [net EXCEPT !.links = @ \ LinksOf(m)]
  /\ inPort' = Removed(inPort, m) /\ outPort' = Removed(outPort, m)
  /\ alive' = alive \ Below(EndsIn(m), parent)
  /\ undefined' = (Twice(m) \/ ~Deletable(EndsIn(m), parent, alive))
  /\ exposed' = (\/ exposed \/ Twice(m) \/ Members(m) # {}
                 \/ Exposes(EndsIn(m), Held(Removed(inPort, m), Removed(outPort, m)), parent, alive))
  /\ UNCHANGED <<created, parent, control>>

(* removeLink resets its destination: the ports forget, nothing is deleted. *)
RemoveLink(l) ==
  /\ ~undefined /\ ~running /\ l \in net.links /\ edits < MaxEdits
  /\ edits' = edits + 1
  /\ net' = [net EXCEPT !.links = @ \ {l}]
  /\ inPort' = Removed(inPort, l.dst) /\ outPort' = Removed(outPort, l.dst)
  /\ UNCHANGED <<present, created, alive, parent, undefined, exposed, control>>

RunStep ==
  \/ \E m \in ready : \E used \in SUBSET Streams : FinishModule(m, used)
  \/ \E m \in ready : \E used \in SUBSET Streams : FailModule(m, used)
  \/ \E g \in ready : EnterGroup(g)
  \/ \E g \in ready : FinishGroup(g)
  \/ EndRun

Next ==
  \/ StartRun \/ RunStep \/ Reset
  \/ \E m \in Modules : RemoveModule(m)
  \/ \E l \in net.links : RemoveLink(l)

Spec == Init /\ [][Next]_vars

-----------------------------------------------------------------------------
(* Safety *)

(* Runs in any order, failed, canceled and repeated, and resets between    *)
(* them never use a deleted System, delete one twice or leave a port or a  *)
(* list of successors pointing to one; only a removal, or a group without  *)
(* a link inwards, that deletes what others still refer to does that.      *)
MemorySafe ==
  ~exposed =>
    /\ ~undefined
    /\ Held(inPort, outPort) \subseteq alive
    /\ \A y \in alive : Sucessors(y) \subseteq alive

FansOutUnsplit ==
  \E g \in net.groups : Cardinality(Ins(g)) = 1 /\ Cardinality(IntoGroup(g)) > 1

(* The networks that WritesLeavesOnly is proved for.  isLinkingValid wants  *)
(* the ports of a link to be there, and one link at the in-port of a module. *)
(* Further, links stay in one domain or lead to a member or its group; a    *)
(* port of a group is linked to once from either side; a group and what it *)
(* owns wait for an in-port; and no group is owned by what it owns.         *)
Linked(n) ==
  /\ \A l \in n.links :
       /\ \/ n.owner[l.src] = n.owner[l.dst]
          \/ n.owner[l.dst] = l.src
          \/ n.owner[l.src] = l.dst
       /\ \E v \in n.views[l.src] :
            v[1] = l.out /\ v[2] # (IF n.owner[l.dst] = l.src THEN "write" ELSE "read")
       /\ \E v \in n.views[l.dst] :
            v[1] = l.in /\ v[2] # (IF n.owner[l.src] = l.dst THEN "read" ELSE "write")
  /\ \A k, l \in n.links :
       (/\ k.dst = l.dst /\ k.in = l.in
        /\ n.owner[k.src] = k.dst <=> n.owner[l.src] = l.dst) => k = l
  /\ \A m \in Modules : m \in n.groups \/ n.owner[m] # Root => \E v \in n.views[m] : v[2] # "write"
  /\ \A m, k \in Modules : n.owner[m] = k => n.owner[k] # m

(* A run that starts without data never writes to a System that has        *)
(* successors already, which are copies of it made when needed ("for read  *)
(* only purpose"): not where a group hands one System to several members.  *)
WritesLeavesOnly == (running /\ fresh /\ ~FansOutUnsplit) => spoiled = {}
=============================================================================
