--------------------------- MODULE SimulationRun ---------------------------
(***************************************************************************)
(* Simulation::run of dmsimulation: a worklist of modules whose in-ports   *)
(* hold data, executed one at a time; the data of a finished module is     *)
(* shifted along the links to its successors; groups are entered, their    *)
(* members executed, and left again.  Around it cancel, reset and reruns.  *)
(*                                                                         *)
(* Data is abstracted: a System is an identity with the set of modules     *)
(* that have written to it, a view is its access type, an identity nobody  *)
(* holds is free.  What std::set orders by address is left arbitrary.      *)
(***************************************************************************)
EXTENDS Integers, Sequences, FiniteSets, SequencesExt

CONSTANTS
  Modules,     \* modules and groups
  Streams,     \* port names
  Systems,     \* identities of System objects
  NULL,        \* a port without data
  Root,        \* the owner of a module outside of every group
  Nets,        \* the networks of modules and links to run
  MaxRuns      \* bound: calls of run

(* A network: the order of the module list, the groups, the owner of each  *)
(* module, its ports' access types, its links, the modules in successor    *)
(* mode and those that ask for a view their stream does not offer.  As     *)
(* isLinkingValid has it, no link leads from a module to itself, both its  *)
(* ports are there, and only ports of groups are linked to twice.          *)
Access == {"read", "modify", "write"}
Link == [src : Modules, out : Streams, dst : Modules, in : Streams]
PortsBut(access, views) == {v[1] : v \in {w \in views : w[2] # access}}
IsLinkingValid(n, l) ==
  /\ l.src # l.dst
  /\ l.out \in PortsBut(IF n.owner[l.dst] = l.src THEN "write" ELSE "read", n.views[l.src])
  /\ l.in \in PortsBut(IF n.owner[l.src] = l.dst THEN "read" ELSE "write", n.views[l.dst])
  /\ l.dst \in n.groups \/ \A k \in n.links : k.dst = l.dst /\ k.in = l.in => k = l
IsNet(n) ==
  /\ n.list \in Seq(Modules) /\ IsInjective(n.list)
  /\ n.groups \subseteq ToSet(n.list)
  /\ n.owner \in [Modules -> n.groups \cup {Root}]
  /\ n.views \in [Modules -> SUBSET (Streams \X Access)]
  /\ n.links \subseteq Link
  /\ \A l \in n.links : IsLinkingValid(n, l) /\ {l.src, l.dst} \subseteq ToSet(n.list)
  /\ n.successorMode \subseteq Modules
  /\ n.broken \subseteq Modules
ASSUME NetAssumption == \A n \in Nets : IsNet(n)
ASSUME RunAssumption == /\ IsFiniteSet(Modules) /\ IsFiniteSet(Streams)
                        /\ Systems \subseteq Nat /\ NULL \notin Systems
                        /\ Root \notin Modules
                        /\ MaxRuns \in Nat

VARIABLES
  net,                      \* the network, fixed
  status, armed,            \* per module: ModuleStatus; per group: singleRunCondition
  inPort, outPort,          \* module -> stream -> System or NULL
  content,                  \* System -> the modules that wrote to it
  simStatus, canceled,
  pc, worklist, current, currentGroupDomain,   \* the locals of run
  finished, toFinish,       \* cntModulesFinished, numModulesToFinish
  runs, clean, done, wrote, \* history: run number, started clean, what it did
  fresh                     \* history: no run since the last reset found data

ports   == <<inPort, outPort, content>>
history == <<runs, clean, done, wrote, fresh>>
locals  == <<worklist, current, currentGroupDomain, finished, toFinish>>
vars    == <<net, status, armed, ports, simStatus, canceled, pc, locals, history>>

IsGroup(m) == m \in net.groups
Members(g) == {m \in ToSet(net.list) : net.owner[m] = g}
Ins(m)  == PortsBut("write", net.views[m])
Outs(m) == PortsBut("read", net.views[m])

IsIntoGroup(l)  == net.owner[l.dst] = l.src
IsOutOfGroup(l) == net.owner[l.src] = l.dst
Outgoing(m)  == {l \in net.links : l.src = m /\ ~IsIntoGroup(l)}
IntoGroup(g) == {l \in net.links : l.src = g /\ IsIntoGroup(l)}

AnyPortSet(m, in) ==                                      \* mutant of InPortsSet
  Ins(m) = {} \/ \E s \in Ins(m) : in[m][s] # NULL
InPortsSet(m, in) == \A s \in Ins(m) : in[m][s] # NULL

Held(in, out) == (UNION {{in[m][s], out[m][s]} : m \in Modules, s \in Streams}) \ {NULL}
(* A name of its own, that no port holds, for each of a set of new Systems.  *)
Named(new, in, out) ==
  LET free == Systems \ Held(in, out)
      low  == {y \in free : Cardinality({x \in free : x < y}) < Cardinality(new)}
  IN CHOOSE f \in [new -> low] : IsInjective(f)

TypeOK ==
  /\ net \in Nets
  /\ status \in [Modules -> {"untouched", "checked", "executing", "ok", "error"}]
  /\ armed \in [Modules -> BOOLEAN]
  /\ inPort \in [Modules -> [Streams -> Systems \cup {NULL}]]
  /\ outPort \in [Modules -> [Streams -> Systems \cup {NULL}]]
  /\ content \in [Systems -> SUBSET Modules]
  /\ simStatus \in {"ok", "failed"}
  /\ canceled \in BOOLEAN
  /\ pc \in {"idle", "loop", "exec"}
  /\ worklist \in Seq(Modules)
  /\ current \in Modules \cup {Root}
  /\ currentGroupDomain \in Modules \cup {Root}
  /\ finished \in Nat /\ toFinish \in Nat
  /\ runs \in 0..MaxRuns
  /\ clean \in BOOLEAN
  /\ done \subseteq Modules
  /\ wrote \subseteq Modules \X Streams
  /\ fresh \in BOOLEAN

NoData == [m \in Modules |-> [s \in Streams |-> NULL]]

(* addModule has called init on every module, which arms the groups.       *)
Init ==
  /\ net \in Nets
  /\ status = [m \in Modules |-> "untouched"]
  /\ armed = [m \in Modules |-> TRUE]
  /\ inPort = NoData /\ outPort = NoData
  /\ content = [y \in Systems |-> {}]
  /\ simStatus = "ok" /\ canceled = FALSE
  /\ pc = "idle" /\ worklist = <<>> /\ current = Root /\ currentGroupDomain = Root
  /\ finished = 0 /\ toFinish = 0
  /\ runs = 0 /\ clean = TRUE /\ done = {} /\ wrote = {} /\ fresh = TRUE

-----------------------------------------------------------------------------
(* checkStream: views walk forward from the modules without in-ports.      *)
(* Views[n] holds the ports, <<"in" or "out", module, stream>>, that have  *)
(* views after n links.  A module passes when all its in-ports have them   *)
(* and every view it asks for exists; a group passes each stream by itself.*)
Passes(seen, m) ==
  /\ m \notin net.broken
  /\ \A s \in Ins(m) : <<"in", m, s>> \in seen
Carries(seen, l) ==
  IF IsIntoGroup(l) THEN <<"in", l.src, l.out>> \in seen
  ELSE IF IsGroup(l.src) THEN <<"out", l.src, l.out>> \in seen
  ELSE Passes(seen, l.src)
Views[n \in 0..Cardinality(net.links)] ==
  IF n = 0 THEN {}
  ELSE LET seen == Views[n - 1] IN
       seen \cup {<<IF IsOutOfGroup(l) THEN "out" ELSE "in", l.dst, l.in>> :
                  l \in {k \in net.links : Carries(seen, k)}}
StreamViews == Views[Cardinality(net.links)]

Visited(m) == Ins(m) = {} \/ \E s \in Ins(m) : <<"in", m, s>> \in StreamViews

(* A visited module gets a status of the check and a visited group, by its *)
(* init, its single run back; what is not reached keeps what it had.       *)
Rearmed(m) == armed[m] \/ Visited(m)
Checked(st) == [m \in Modules |-> IF m \in ToSet(net.list) /\ Visited(m)
                                  THEN "checked" ELSE st[m]]

-----------------------------------------------------------------------------
(* The worklist *)

(* unique_insert of every module of the set nextModules, in any order.     *)
InsertTwice(w, S) == {w \o s : s \in SetToSeqs(S)}         \* mutant of UniqueInsert
UniqueInsert(w, S) == {w \o s : s \in SetToSeqs(S \ ToSet(w))}

(* The modules of the set in the order of the module list.                 *)
InListOrder(w) ==
  \A i, j \in DOMAIN w : i < j =>
    \E x, y \in DOMAIN net.list : x < y /\ net.list[x] = w[i] /\ net.list[y] = w[j]

(* A module of another domain waits while one of the current domain does.  *)
LeaveEarly(m, rest) == FALSE                              \* mutants of MustWait
AlwaysWait(m, rest) == net.owner[m] # currentGroupDomain
MustWait(m, rest) ==
  /\ net.owner[m] # currentGroupDomain
  /\ \E n \in ToSet(rest) : net.owner[n] = currentGroupDomain

(* shiftData along the links ls that carry the Systems src, those of new   *)
(* as a successor with the same content: the data arrives on the out-port  *)
(* of the group it leaves, else on the in-port and, unless that is a       *)
(* group's, on the out-port of the same stream.                            *)
Shifted(ls, new, src, in, out, written) ==
  LET name == Named(new, in, out)
      data == [l \in ls |-> IF l \in new THEN name[l] ELSE src[l]]
      Into(m, s) == {l \in ls : l.dst = m /\ l.in = s /\ ~IsOutOfGroup(l)}
      Upon(m, s) == {l \in ls : l.dst = m /\ l.in = s /\
                       (IsOutOfGroup(l) \/ (s \in Outs(m) /\ ~IsGroup(m)))}
      Put(port, m, s, from) ==
        IF from = {} THEN port[m][s] ELSE data[CHOOSE l \in from : TRUE]
  IN [in  |-> [m \in Modules |-> [s \in Streams |-> Put(in, m, s, Into(m, s))]],
      out |-> [m \in Modules |-> [s \in Streams |-> Put(out, m, s, Upon(m, s))]],
      content |-> [y \in Systems |->
        LET as == {l \in new : name[l] = y}
        IN IF as = {} THEN written[y] ELSE written[src[CHOOSE l \in as : TRUE]]]]

Queue(ls, in, rest) ==
  worklist' \in UniqueInsert(rest, {l.dst : l \in {k \in ls : InPortsSet(k.dst, in)}})

(* An out-port with one link hands its System on, one with several, or of  *)
(* a module in successor mode, keeps it and hands on successors.           *)
NoSuccessors(branches, m) == {}                           \* mutant of Derived
Derived(branches, m) ==
  {l \in branches : \/ m \in net.successorMode
                    \/ Cardinality({k \in branches : k.out = l.out}) > 1}

(* readOnly, as it is computed, holds when no view is a READ view.         *)
AlwaysKeeps(m) == TRUE                                    \* mutant of KeepsInPorts
KeepsInPorts(m) == Outs(m) = {} /\ (IsGroup(m) \/ \A v \in net.views[m] : v[2] # "read")

EraseThem(data, m, which) ==                              \* mutant of Emptied
  [data EXCEPT ![m] = [s \in Streams \ which |-> @[s]]]
Emptied(data, m, which) ==
  [data EXCEPT ![m] = [s \in Streams |-> IF s \in which THEN NULL ELSE @[s]]]

(* shiftModuleOutput of m, whose run has left the ports out and written.   *)
ShiftModuleOutput(m, out, written, rest) ==
  LET branches == {l \in Outgoing(m) : out[m][l.out] # NULL}
      new == Derived(branches, m)
      sh  == Shifted(branches, new, [l \in branches |-> out[m][l.out]], inPort, out, written)
  IN /\ outPort' = Emptied(sh.out, m, {l.out : l \in branches \ new})
     /\ inPort' = IF KeepsInPorts(m) THEN sh.in ELSE Emptied(sh.in, m, Streams)
     /\ content' = sh.content
     /\ Queue(branches, sh.in, rest)

(* shiftGroupInput of g: successors when the group has several in-ports;   *)
(* data on an in-port without a link into the group is deleted.            *)
ShiftGroupInput(g, out, rest) ==
  LET ls  == {l \in IntoGroup(g) : inPort[g][l.out] # NULL}
      new == IF Cardinality(Ins(g)) > 1 THEN ls ELSE {}
      sh  == Shifted(ls, new, [l \in ls |-> inPort[g][l.out]], inPort, out, content)
  IN /\ outPort' = sh.out
     /\ inPort' = Emptied(sh.in, g, Ins(g) \ {l.out : l \in ls})
     /\ content' = sh.content
     /\ Queue(ls, sh.in, rest)

-----------------------------------------------------------------------------
(* run *)

StartRun ==
  /\ pc = "idle" /\ runs < MaxRuns
  /\ pc' = "loop"
  /\ canceled' = FALSE
  /\ status' = Checked(status)
  /\ armed' = [m \in Modules |-> Rearmed(m)]
  /\ worklist' \in SetToSeqs({m \in ToSet(net.list) : InPortsSet(m, inPort)})
  /\ InListOrder(worklist')
  /\ currentGroupDomain' = Root
  /\ finished' = 0 /\ toFinish' = Len(net.list)
  /\ runs' = runs + 1 /\ done' = {} /\ wrote' = {}
  /\ clean' = (inPort = NoData) /\ fresh' = (fresh /\ clean')
  /\ UNCHANGED <<net, ports, simStatus, current>>

(* The loop takes the first module of the worklist.                        *)
IgnoreCancel == TRUE                                      \* mutant of NotCanceled
NotCanceled == ~canceled

Takes(m) ==
  /\ pc = "loop" /\ NotCanceled
  /\ worklist # <<>> /\ m = Head(worklist)

Postpone(m) ==
  /\ Takes(m)
  /\ MustWait(m, Tail(worklist))
  /\ worklist' \in UniqueInsert(Tail(worklist), {m})
  /\ UNCHANGED <<net, status, armed, ports, simStatus, canceled, pc, current,
                 currentGroupDomain, finished, toFinish, history>>

NeverCounted(m) == toFinish                               \* mutant of CountedAgain
CountedAgain(m) == toFinish + IF status[m] = "ok" THEN 1 ELSE 0

StartModule(m) ==
  /\ Takes(m) /\ ~MustWait(m, Tail(worklist)) /\ ~IsGroup(m)
  /\ pc' = "exec" /\ current' = m
  /\ worklist' = Tail(worklist)
  /\ toFinish' = CountedAgain(m)
  /\ status' = [status EXCEPT ![m] = "executing"]
  /\ UNCHANGED <<net, armed, ports, simStatus, canceled, currentGroupDomain, finished,
                 history>>

(* getData of the streams used: the System of the in-port, else the one    *)
(* already on the out-port, else a new one; it is set on the out-port and  *)
(* carries what the module writes.                                         *)
ObtainedAnew(m, used) == Named(used, inPort, outPort)      \* mutant of Obtained
Obtained(m, used) ==
  LET created == {s \in used : inPort[m][s] = NULL /\ outPort[m][s] = NULL}
      name    == Named(created, inPort, outPort)
  IN [s \in used |->
       IF inPort[m][s] # NULL THEN inPort[m][s]
       ELSE IF outPort[m][s] # NULL THEN outPort[m][s]
       ELSE name[s]]
AfterGetData(m, used) ==
  LET got   == Obtained(m, used)
      write == used \cap Outs(m)
  IN [out |-> [outPort EXCEPT ![m] = [s \in Streams |-> IF s \in write THEN got[s] ELSE @[s]]],
      content |-> [y \in Systems |->
        (IF \E s \in used : got[s] = y /\ inPort[m][s] = NULL /\ outPort[m][s] = NULL
         THEN {} ELSE content[y])
        \cup (IF \E s \in write : got[s] = y THEN {m} ELSE {})]]

(* Module::run is the model's environment: it uses any of its streams.     *)
FinishModule(m, used) ==
  /\ pc = "exec" /\ m = current
  /\ pc' = "loop" /\ current' = Root
  /\ status' = [status EXCEPT ![m] = "ok"]
  /\ finished' = finished + 1
  /\ done' = done \cup {m}
  /\ wrote' = wrote \cup ({m} \X (used \cap Outs(m)))
  /\ LET got == AfterGetData(m, used)
     IN ShiftModuleOutput(m, got.out, got.content, worklist)
  /\ UNCHANGED <<net, armed, simStatus, canceled, currentGroupDomain, toFinish, runs, clean, fresh>>

(* A module that sets the error status ends the run where it is.           *)
FailModule(m, used) ==
  /\ pc = "exec" /\ m = current
  /\ pc' = "idle" /\ current' = Root
  /\ status' = [n \in Modules |-> IF n \in {m, net.owner[m]} THEN "error" ELSE status[n]]
  /\ simStatus' = "failed"
  /\ outPort' = AfterGetData(m, used).out
  /\ content' = AfterGetData(m, used).content
  /\ wrote' = wrote \cup ({m} \X (used \cap Outs(m)))
  /\ worklist' = <<>> /\ currentGroupDomain' = Root /\ finished' = 0 /\ toFinish' = 0
  /\ UNCHANGED <<net, armed, inPort, canceled, runs, clean, done, fresh>>

(* A group whose condition holds: init and clear its members, shift in.    *)
EnterGroup(g) ==
  /\ Takes(g) /\ ~MustWait(g, Tail(worklist)) /\ IsGroup(g)
  /\ armed[g]
  /\ armed' = [m \in Modules |-> IF m = g THEN FALSE ELSE armed[m] \/ net.owner[m] = g]
  /\ currentGroupDomain' = g
  /\ status' = [status EXCEPT ![g] = "executing"]
  /\ ShiftGroupInput(g, [m \in Modules |-> IF m \in Members(g) THEN NoData[m] ELSE outPort[m]],
                     Tail(worklist))
  /\ UNCHANGED <<net, simStatus, canceled, pc, current, finished, toFinish, history>>

(* Its condition no longer holds: shift out and return to the owner.       *)
FinishGroup(g) ==
  /\ Takes(g) /\ ~MustWait(g, Tail(worklist)) /\ IsGroup(g)
  /\ ~armed[g]
  /\ currentGroupDomain' = net.owner[g]
  /\ status' = [status EXCEPT ![g] = "ok"]
  /\ done' = done \cup {g}
  /\ ShiftModuleOutput(g, outPort, content, Tail(worklist))
  /\ UNCHANGED <<net, armed, simStatus, canceled, pc, current, finished, toFinish, runs,
                 clean, wrote, fresh>>

EndRun ==
  /\ pc = "loop" /\ worklist = <<>> /\ ~canceled
  /\ pc' = "idle"
  /\ currentGroupDomain' = Root /\ finished' = 0 /\ toFinish' = 0
  /\ UNCHANGED <<net, status, armed, ports, simStatus, canceled, worklist, current, history>>

(* reset: all data and statuses go, and the streams are checked again.     *)
ResetAll ==
  /\ inPort' = NoData /\ outPort' = NoData
  /\ content' = [y \in Systems |-> {}]
  /\ status' = Checked([m \in Modules |-> "untouched"])
  /\ armed' = [m \in Modules |-> Rearmed(m)]
  /\ fresh' = TRUE

EndCanceled ==
  /\ pc = "loop" /\ canceled
  /\ pc' = "idle"
  /\ worklist' = <<>> /\ currentGroupDomain' = Root /\ finished' = 0 /\ toFinish' = 0
  /\ ResetAll
  /\ UNCHANGED <<net, simStatus, canceled, current, runs, clean, done, wrote>>

(* The user's calls between and during the runs.                           *)
Reset ==
  /\ pc = "idle" /\ runs > 0
  /\ ResetAll
  /\ UNCHANGED <<net, simStatus, canceled, pc, locals, runs, clean, done, wrote>>

Cancel ==
  /\ ~canceled
  /\ canceled' = TRUE
  /\ UNCHANGED <<net, status, armed, ports, simStatus, pc, locals, history>>

RunStep ==
  \/ \E m \in Modules : Postpone(m)
  \/ \E m \in Modules : StartModule(m)
  \/ \E m \in Modules, used \in SUBSET Streams :
       used \subseteq Ins(m) \cup Outs(m) /\ FinishModule(m, used)
  \/ \E m \in Modules, used \in SUBSET Streams :
       used \subseteq Ins(m) \cup Outs(m) /\ FailModule(m, used)
  \/ \E g \in Modules : EnterGroup(g)
  \/ \E g \in Modules : FinishGroup(g)
  \/ EndRun
  \/ EndCanceled

Next == StartRun \/ RunStep \/ Reset \/ Cancel

(* The thread in run keeps going and Module::run returns; nobody has to    *)
(* start, cancel or reset a simulation.  RunStep is enabled exactly when   *)
(* run is active, so the fairness below is its weak fairness, spelled out. *)
Spec == Init /\ [][Next]_vars
FairSpec == Spec /\ ([]<>(pc = "idle") \/ []<><<RunStep>>_vars)

-----------------------------------------------------------------------------
(* Safety *)

(* Whatever waits in the worklist, or executes, has all its in-ports set,  *)
(* and waits there once: between the moment a module was found ready and   *)
(* its turn no other module and no group entry takes its data away.        *)
WorklistReady ==
  /\ \A m \in ToSet(worklist) \cup {current} : m # Root => InPortsSet(m, inPort)
  /\ IsInjective(worklist)

(* In a run that starts without data on the in-ports a module executes     *)
(* once, and only after every module linked to it has delivered.           *)
PredecessorsFirst ==
  (pc = "exec" /\ clean) =>
    /\ current \notin done
    /\ \A l \in net.links : l.dst = current =>
         IF IsIntoGroup(l) THEN status[l.src] = "executing" ELSE l.src \in done

(* The modules that write to the System of a port, <<"in" or "out", module, *)
(* stream>>, on its way there: what the links say, against what the         *)
(* shifting does.  Trail[n] takes in the last n links.                      *)
Places == {"in", "out"} \X Modules \X Streams
From(l) == <<IF IsIntoGroup(l) THEN "in" ELSE "out", l.src, l.out>>
Feeding(p) ==
  {l \in net.links : l.dst = p[2] /\ l.in = p[3] /\
                     (IsOutOfGroup(l) <=> (p[1] = "out" /\ IsGroup(p[2])))}
Itself(p) == IF p[1] = "out" /\ ~IsGroup(p[2]) THEN {p[2]} ELSE {}
Trail[n \in Nat] ==
  IF n = 0 THEN [p \in Places |-> {}]
  ELSE [p \in Places |-> Itself(p) \cup UNION {Trail[n - 1][From(l)] : l \in Feeding(p)}]
Upstream(m, s) == Trail[Cardinality(net.links) + 1][<<"in", m, s>>]

FansOutUnsplit ==
  \E g \in net.groups : /\ Cardinality(Ins(g)) = 1
                        /\ Cardinality(IntoGroup(g)) > 1

(* In a run that starts without data, as did all since the last reset, the *)
(* System a module finds on its in-port holds what the modules on the path *)
(* of links to it wrote and nothing written on another branch: each branch *)
(* of a fan-out has its own successor.                                     *)
SeesUpstreamOnly ==
  (pc = "exec" /\ fresh /\ ~FansOutUnsplit) =>
    \A s \in Ins(current) : content[inPort[current][s]] \subseteq Upstream(current, s)

(* Where each port has one link, it holds all that was written on the way  *)
(* if every module executed in this run wrote its streams.  One that does  *)
(* not hands nothing on, and its group ships what an earlier run has left. *)
AllWritten == \A m \in done \ net.groups : \A s \in Outs(m) : <<m, s>> \in wrote
FedOnce == \A p \in Places : \A k, l \in Feeding(p) : k = l
SeesAllUpstream ==
  (pc = "exec" /\ clean /\ AllWritten /\ FedOnce) =>
    \A s \in Ins(current) : Upstream(current, s) \subseteq content[inPort[current][s]]

(* As long as no run since the last reset has started with data, two       *)
(* modules hold the same System only behind a group that hands its single  *)
(* in-port to several members.                                             *)
OwnsAlone ==
  (fresh /\ ~FansOutUnsplit) =>
    \A m, n \in Modules \ net.groups : m # n =>
      \A s, t \in Streams :
        Held(inPort, outPort) \cap {inPort[m][s], outPort[m][s]}
                              \cap {inPort[n][t], outPort[n][t]} = {}

(* The progress reported to the observers never exceeds one, although a    *)
(* module left ready by a failed run executes twice in the next.           *)
ProgressBounded == finished <= toFinish

(* A clean run in which every module writes its streams executes every     *)
(* module and leaves every group that has out-ports, where the check finds *)
(* views for all ports and every in-port of a group is linked into it.     *)
Complete ==
  \A m \in ToSet(net.list) : m \in done \/ (IsGroup(m) /\ Outs(m) = {})
WellFormed ==
  /\ \A m \in ToSet(net.list) : Passes(StreamViews, m)
  /\ \A g \in net.groups : /\ \A s \in Outs(g) : <<"out", g, s>> \in StreamViews
                           /\ \A s \in Ins(g) : \E l \in IntoGroup(g) : l.out = s
EveryModuleRuns ==
  [][(/\ pc = "loop" /\ pc' = "idle" /\ ~canceled
      /\ clean /\ WellFormed /\ AllWritten)
     => Complete]_vars

(* "All successing modules get skipped": after cancel no module is started *)
(* and no group is entered or left; only the module that executes at that  *)
(* moment still finishes or fails.                                         *)
CancelSkips ==
  [][canceled =>
       /\ current' \in {current, Root}
       /\ done' \subseteq done \cup {current}
       /\ \A m \in Modules \ {current} :
            status'[m] \in {"executing", "ok"} => status'[m] = status[m]]_vars

(* Postponing a module of another domain never goes round for ever.        *)
RunReturns == pc # "idle" ~> pc = "idle"

-----------------------------------------------------------------------------
(* What a comment of the code promises and the code does not keep *)

(* Going out of a group, the current one is finished: no module inside it, *)
(* at any depth, still waits in the worklist.                              *)
Inside[n \in Nat, m \in Modules, g \in Modules] ==
  /\ n > 0 /\ m \notin {Root, g}
  /\ net.owner[m] = g \/ (net.owner[m] # Root /\ Inside[n - 1, net.owner[m], g])
GroupDoneBeforeLeaving ==
  [][\A g \in net.groups :
       (status[g] = "executing" /\ g \in done' \ done) =>
         \A m \in ToSet(Tail(worklist)) : ~Inside[Cardinality(Modules), m, g]]_vars

=============================================================================
