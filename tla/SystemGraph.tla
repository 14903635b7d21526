---------------------------- MODULE SystemGraph ----------------------------
(***************************************************************************)
(* Nodes, edges and faces of a system and its successors.  Edges and faces *)
(* point to nodes, nodes list the edges that connect them.  A successor    *)
(* copies an edge or a face when it is asked for by name, and the nodes it *)
(* needs with it; a copied node starts with the list of its source.        *)
(*                                                                         *)
(* Attributes and views are in Successors.  A component object is a triple *)
(* of its system, its name and a number.  Modules change systems without   *)
(* successors only, and hand addEdge and addFace nodes of the system or of *)
(* a predecessor: addEdge refuses the latter, addFace takes them.  They    *)
(* move edges to nodes of their system and remove no copy of a node: it    *)
(* would take the name of its source with it.  What reads a deleted node   *)
(* is undefined; the model takes no such step, except in RemoveNode.       *)
(***************************************************************************)
EXTENDS Integers, FiniteSets

CONSTANTS
  LastSystem,              \* bound: the systems are 0..LastSystem
  Nodes, Edges, Faces,     \* names
  MaxCopies,               \* bound: objects with the same name in a system
  MaxObjects,              \* bound: when there are as many, nothing is added or copied
  MaxEdits,                \* bound: ends moved and components removed
  None

Systems == 0..LastSystem
Names == Nodes \cup Edges \cup Faces
Objects(ns) == Systems \X ns \X (1..MaxCopies)

ASSUME SystemAssumption == LastSystem \in Nat
ASSUME NameAssumption == Nodes \cap Edges = {} /\ Nodes \cap Faces = {} /\ Edges \cap Faces = {}
ASSUME CopyAssumption == MaxCopies \in Nat \ {0} /\ {MaxObjects, MaxEdits} \subseteq Nat
ASSUME NoneAssumption == None \notin Systems \cup Objects(Names)

VARIABLES
  last, parent,     \* the youngest system, and the predecessors
  nodes,            \* the nodes of all systems
  ends,             \* edge -> its start and end, of the edges of all systems
  corners,          \* face -> its nodes, of the faces of all systems
  connectedEdges,   \* node -> the edges it lists
  dead,             \* what was deleted
  torn,             \* history: edges and faces whose node was deleted under them
  lost,             \* history: <<edge, node>> where moving one end of a loop unlisted both
  edits             \* bound

graph == <<nodes, ends, corners, connectedEdges, dead>>
vars  == <<last, parent, graph, torn, lost, edits>>

Sys(o) == o[1]
Name(o) == o[2]
Derived(s) == parent[s] # None
Leaf(s) == s <= last /\ \A t \in Systems : parent[t] # s
Predecessors[s \in Systems] ==
  IF Derived(s) THEN {parent[s]} \cup Predecessors[parent[s]] ELSE {}

(* getComponentReadOnly: the object of the system or of the nearest, which *)
(* is the youngest, predecessor that has one of this name.                 *)
Living == nodes \cup DOMAIN ends \cup DOMAIN corners
Here(s, n) == {o \in Living : Sys(o) = s /\ Name(o) = n}
Find(s, n) ==
  LET named == {o \in Living : Name(o) = n /\ Sys(o) \in {s} \cup Predecessors[s]}
  IN IF named = {} THEN None ELSE CHOOSE o \in named : \A p \in named : Sys(p) <= Sys(o)

Node(s, n) == <<s, n, 1>>
Fresh(s, n) == {i \in 1..MaxCopies : <<s, n, i>> \notin Living \cup dead}
New(s, n) == <<s, n, CHOOSE i \in Fresh(s, n) : TRUE>>
Room == Cardinality(Living \cup dead) < MaxObjects
Unused(n) == Room /\ \A o \in Living \cup dead : Name(o) # n
Home(s) == {x \in nodes : Sys(x) = s}
Visible(s) == {x \in nodes : Sys(x) \in {s} \cup Predecessors[s]}

TypeOK ==
  /\ last \in Systems /\ parent \in [Systems -> Systems \cup {None}]
  /\ nodes \subseteq Objects(Nodes)
  /\ DOMAIN ends \subseteq Objects(Edges)
  /\ \A e \in DOMAIN ends : ends[e] \in [start : Objects(Nodes), end : Objects(Nodes)]
  /\ DOMAIN corners \subseteq Objects(Faces)
  /\ \A f \in DOMAIN corners : corners[f] \in (SUBSET Objects(Nodes)) \ {{}}
  /\ connectedEdges \in [nodes -> SUBSET Objects(Edges)]
  /\ dead \subseteq Objects(Names) \ Living
  /\ torn \subseteq Living /\ lost \subseteq Objects(Edges) \X Objects(Nodes)
  /\ edits \in 0..MaxEdits

Init ==
  /\ last = 0 /\ parent = [s \in Systems |-> None]
  /\ nodes = {} /\ ends = <<>> /\ corners = <<>> /\ connectedEdges = <<>>
  /\ dead = {} /\ torn = {} /\ lost = {} /\ edits = 0

Add(f, x, v) == [y \in DOMAIN f \cup {x} |-> IF y = x THEN v ELSE f[y]]
Without(f, S) == [y \in DOMAIN f \ S |-> f[y]]

CreateSuccessor(p) ==
  /\ last < LastSystem
  /\ last' = last + 1
  /\ parent' = [parent EXCEPT ![last + 1] = p]
  /\ UNCHANGED <<graph, torn, lost, edits>>

-----------------------------------------------------------------------------
(* What modules add *)

AddNode(s, n) ==
  /\ Leaf(s) /\ Unused(n)
  /\ nodes' = nodes \cup {Node(s, n)}
  /\ connectedEdges' = Add(connectedEdges, Node(s, n), {})
  /\ UNCHANGED <<last, parent, ends, corners, dead, torn, lost, edits>>

(* The constructor of Edge lists it at both nodes, before addEdge refuses  *)
(* and deletes an edge between nodes that are not of the system.           *)
Listed(list, e, x) == [list EXCEPT ![x] = @ \cup {e}]
ListedAtStart(list, e, a, b) == Listed(list, e, a)    \* mutant of ListedAtBoth
ListedAtBoth(list, e, a, b) == Listed(Listed(list, e, a), e, b)

AddEdge(s, n, a, b) ==
  LET e == New(s, n) IN
  /\ Leaf(s) /\ Unused(n)
  /\ {a, b} \subseteq Visible(s)
  /\ connectedEdges' = ListedAtBoth(connectedEdges, e, a, b)
  /\ IF {a, b} \subseteq Home(s)
       THEN ends' = Add(ends, e, [start |-> a, end |-> b]) /\ UNCHANGED dead
       ELSE dead' = dead \cup {e} /\ UNCHANGED ends
  /\ UNCHANGED <<last, parent, nodes, corners, torn, lost, edits>>

(* addFace asks nobody where the nodes of the face are.                    *)
AddFace(s, n, xs) ==
  /\ Leaf(s) /\ Unused(n)
  /\ corners' = Add(corners, New(s, n), xs)
  /\ UNCHANGED <<last, parent, nodes, ends, connectedEdges, dead, torn, lost, edits>>

-----------------------------------------------------------------------------
(* What a successor copies when it is asked for it *)

(* getNode of these names: the nodes of the system, the missing ones       *)
(* copied.  Node::operator= takes over the list of the source.             *)
NodesWith(s, ns) == nodes \cup {Node(s, n) : n \in ns}
ListsWith(s, ns) ==
  [x \in NodesWith(s, ns) |->
     IF x \in nodes THEN connectedEdges[x] ELSE connectedEdges[Find(s, Name(x))]]

Missing(s, n) == Room /\ s <= last /\ Here(s, n) = {} /\ Find(s, n) # None
Resolved(s, x) == Node(s, Name(x))

(* The edge and the face between the nodes of the same names in s.         *)
Reversed(s, src) ==                                   \* mutant of EndsFor
  [start |-> Resolved(s, ends[src].end), end |-> Resolved(s, ends[src].start)]
EndsFor(s, src) ==
  [start |-> Resolved(s, ends[src].start), end |-> Resolved(s, ends[src].end)]
CornersFor(s, src) == {Resolved(s, x) : x \in corners[src]}

GetNode(s, n) ==
  /\ Missing(s, n)
  /\ nodes' = NodesWith(s, {n})
  /\ connectedEdges' = ListsWith(s, {n})
  /\ UNCHANGED <<last, parent, ends, corners, dead, torn, lost, edits>>

GetEdge(s, n) ==
  LET src == Find(s, n)
      ns  == {Name(ends[src].start), Name(ends[src].end)}
      new == EndsFor(s, src)
  IN /\ Missing(s, n) /\ src \notin torn /\ Fresh(s, n) # {}
     /\ nodes' = NodesWith(s, ns)
     /\ ends' = Add(ends, New(s, n), new)
     /\ connectedEdges' = ListedAtBoth(ListsWith(s, ns), New(s, n), new.start, new.end)
     /\ UNCHANGED <<last, parent, corners, dead, torn, lost, edits>>

GetFace(s, n) ==
  LET src == Find(s, n)
      ns  == {Name(x) : x \in corners[src]}
  IN /\ Missing(s, n) /\ src \notin torn /\ Fresh(s, n) # {}
     /\ nodes' = NodesWith(s, ns)
     /\ connectedEdges' = ListsWith(s, ns)
     /\ corners' = Add(corners, New(s, n), CornersFor(s, src))
     /\ UNCHANGED <<last, parent, ends, dead, torn, lost, edits>>

-----------------------------------------------------------------------------
(* What modules move and remove *)

Edit == edits < MaxEdits /\ edits' = edits + 1

(* setStartpoint and setEndpoint.  The list of the old node forgets the    *)
(* edge altogether, also when its other end stays there.                   *)
Unlisted(list, e, x) == [list EXCEPT ![x] = @ \ {e}]

MoveEnd(s, n, side, x) ==
  LET e == Find(s, n)
      old == ends[e][side]
      loop == ends[e].start = ends[e].end
  IN /\ Leaf(s) /\ Here(s, n) # {} /\ e \notin torn
     /\ ends' = [ends EXCEPT ![e][side] = x]
     /\ connectedEdges' = Listed(Unlisted(connectedEdges, e, old), e, x)
     /\ lost' = (lost \ {<<e, old>>, <<e, x>>})
                  \cup (IF loop /\ x # old THEN {<<e, old>>} ELSE {})
     /\ Edit
     /\ UNCHANGED <<last, parent, nodes, corners, dead, torn>>

(* removeNode deletes the node and then compares the ids of the ends of    *)
(* all edges with its own, reading them from the deleted node: any of the  *)
(* edges it connects may be missed.  Faces are not looked at.              *)
StartsAt(s, x) == {e \in DOMAIN ends : Sys(e) = s /\ ends[e].start = x} \* mutant of Connected
Connected(s, x) == {e \in DOMAIN ends : Sys(e) = s /\ x \in {ends[e].start, ends[e].end}}
OnFace(s, x) == {f \in DOMAIN corners : Sys(f) = s /\ x \in corners[f]}
OwnNode(s, n) == Leaf(s) /\ Here(s, n) # {} /\ (Derived(s) => Find(parent[s], n) = None)

StayInMap(es) == ends                                 \* mutant of Erased
Erased(es) == Without(ends, es)

DeleteNode(x, es, missed) ==
  /\ nodes' = nodes \ {x}
  /\ connectedEdges' = Without(connectedEdges, {x})
  /\ ends' = Erased(es)
  /\ dead' = dead \cup es \cup {x}
  /\ torn' = torn \cup missed \cup OnFace(Sys(x), x)
  /\ Edit
  /\ UNCHANGED <<last, parent, corners, lost>>

RemoveNode(s, n, missed) ==
  LET x == Node(s, n) IN
  /\ OwnNode(s, n)
  /\ \A e \in torn \cap DOMAIN ends : Sys(e) # s
  /\ missed \subseteq Connected(s, x)
  /\ DeleteNode(x, Connected(s, x) \ missed, missed)

(* removeComponent takes a node, too, and leaves its edges.                *)
RemoveComponent(s, n) ==
  /\ OwnNode(s, n)
  /\ DeleteNode(Node(s, n), {}, Connected(s, Node(s, n)))

(* removeEdge and removeFace: nobody unlists a deleted edge.               *)
RemoveEdgeOrFace(s, n) ==
  LET o == Find(s, n) IN
  /\ Leaf(s) /\ Here(s, n) # {}
  /\ ends' = Erased({o})
  /\ corners' = Without(corners, {o})
  /\ dead' = dead \cup {o}
  /\ torn' = torn \ {o}
  /\ Edit
  /\ UNCHANGED <<last, parent, nodes, connectedEdges, lost>>

Next ==
  \E s \in 0..last :
    \/ CreateSuccessor(s)
    \/ \E n \in Nodes :
         \/ AddNode(s, n)
         \/ GetNode(s, n)
         \/ \E missed \in SUBSET DOMAIN ends : RemoveNode(s, n, missed)
         \/ RemoveComponent(s, n)
    \/ \E n \in Edges :
         \/ \E a, b \in nodes : AddEdge(s, n, a, b)
         \/ GetEdge(s, n)
         \/ \E side \in {"start", "end"}, x \in Home(s) : MoveEnd(s, n, side, x)
    \/ \E n \in Faces :
         \/ \E xs \in (SUBSET Visible(s)) \ {{}} : AddFace(s, n, xs)
         \/ GetFace(s, n)
    \/ \E n \in Edges \cup Faces : RemoveEdgeOrFace(s, n)

Spec == Init /\ [][Next]_vars

-----------------------------------------------------------------------------
(* Safety *)

(* getEdges "returns all edges connecting this node": a node lists every   *)
(* edge that ends at it, through copies, moves and removals, unless the    *)
(* other end of a loop was moved away.  What else it lists was deleted or  *)
(* is an edge that connects its source in a predecessor.                   *)
EdgesListed ==
  /\ \A e \in DOMAIN ends : \A x \in {ends[e].start, ends[e].end} \cap nodes :
       e \in connectedEdges[x] \/ <<e, x>> \in lost
  /\ \A x \in nodes : \A e \in connectedEdges[x] :
       \/ e \in dead
       \/ e \in DOMAIN ends /\ x \in {ends[e].start, ends[e].end}
       \/ /\ e \in DOMAIN ends /\ Sys(e) \in Predecessors[Sys(x)]
          /\ Name(x) \in {Name(ends[e].start), Name(ends[e].end)}

(* Edges, and the faces a successor has copied, end in living nodes of the *)
(* same system, however late they and the nodes were copied, unless a node *)
(* was deleted under them; an edge that removeNode recognises is gone with *)
(* its node.  A face that a module added may keep nodes of a predecessor,  *)
(* also when its system copies them later, as addFace does not check them  *)
(* (dmface.h says that faces only refer to nodes stored in the system).    *)
Copied(f) == \E g \in DOMAIN corners : Name(g) = Name(f) /\ Sys(g) \in Predecessors[Sys(f)]
EndsAtHome ==
  /\ \A e \in DOMAIN ends \ torn : {ends[e].start, ends[e].end} \subseteq Home(Sys(e))
  /\ \A f \in DOMAIN corners \ torn :
       corners[f] \subseteq IF Copied(f) THEN Home(Sys(f)) ELSE Visible(Sys(f))

(* A successor is an independent graph: reading by names, it starts as its *)
(* predecessor is, and a step changes at most one system, one that has no  *)
(* successor, although edges and faces are copied late and resolve their   *)
(* nodes by name ("only the successor system is altered", dmsystem.h).     *)
Shape(o) ==
  CASE o \in nodes -> {}
    [] o \in DOMAIN ends -> {<<"start", Name(ends[o].start)>>, <<"end", Name(ends[o].end)>>}
    [] o \in DOMAIN corners -> {<<"corner", Name(x)>> : x \in corners[o]}
    [] OTHER -> None
Reads(s) == [n \in Names |-> Shape(Find(s, n))]
GraphsAreVersions ==
  [][/\ \A s \in Systems : parent'[s] # parent[s] => Reads(s)' = Reads(parent'[s])
     /\ LET changed == {s \in 0..last : Reads(s)' # Reads(s)}
        IN changed = {} \/ \E s \in Systems : Leaf(s) /\ changed = {s}]_vars

=============================================================================
