------------------------- MODULE SystemGraphProofs -------------------------
(***************************************************************************)
(* Proofs about SystemGraph: TypeOK, EdgesListed, EndsAtHome and the       *)
(* action property GraphsAreVersions hold for every number of systems and  *)
(* all names and bounds.                                                   *)
(***************************************************************************)
EXTENDS SystemGraph, Lineage

(* Find, for what lives in the systems of up. *)
Named(living, up, n) == {o \in living : o[2] = n /\ o[1] \in up}
Youngest(os) == IF os = {} THEN None ELSE CHOOSE o \in os : \A p \in os : p[1] <= o[1]
FindIn(living, up, n) == Youngest(Named(living, up, n))

Up(s) == Lineage(s, parent, None)

(* A system is younger than its predecessor; the later ones are not there. *)
TreeOK ==
  /\ Tree(parent, None, Systems)
  /\ \A s \in Systems : s > last => parent[s] = None
AllPlaced == \A o \in Living \cup dead : Sys(o) <= last
NodesPlain == \A x \in nodes : x = Node(Sys(x), Name(x))
NamesDistinct ==
  \A o, p \in Living : Sys(o) = Sys(p) /\ Name(o) = Name(p) => o = p
(* Also an edge whose node was deleted under it ends in its system.        *)
EndsKnown ==
  \A e \in DOMAIN ends : \A x \in {ends[e].start, ends[e].end} :
    Sys(x) = Sys(e) /\ x \in nodes \cup dead
TornKnown == torn \subseteq DOMAIN ends \cup DOMAIN corners
(* The two halves of EndsAtHome.                                           *)
EdgesAtHome ==
  \A e \in DOMAIN ends \ torn : {ends[e].start, ends[e].end} \subseteq Home(Sys(e))
FacesAtHome ==
  \A f \in DOMAIN corners \ torn :
    corners[f] \subseteq IF Copied(f) THEN Home(Sys(f)) ELSE Visible(Sys(f))
(* The name of a removed node is not to be found from its system again.    *)
NameGone ==
  \A x \in dead : Name(x) \in Nodes =>
    \A o \in Living : Name(o) = Name(x) => Sys(o) \notin Up(Sys(x))

Shaped == TypeOK /\ TreeOK /\ AllPlaced /\ NodesPlain /\ NamesDistinct
History == EndsKnown /\ TornKnown /\ NameGone
GraphInv == Shaped /\ History /\ EdgesListed /\ EndsAtHome

-----------------------------------------------------------------------------
(* Lemmas about the operators *)

(* Find yields the object of the youngest system, if there is one. *)
LEMMA FindInWorks ==
  ASSUME NEW living, NEW up \in SUBSET Systems, NEW n, None \notin living
  PROVE  LET o == FindIn(living, up, n)
         IN /\ o = None <=> Named(living, up, n) = {}
            /\ o # None => /\ o \in Named(living, up, n)
                           /\ \A p \in Named(living, up, n) : p[1] <= o[1]
<1> DEFINE N == Named(living, up, n)
           Y == {o[1] : o \in N}
<1>1. CASE N = {}
  BY <1>1 DEF FindIn, Youngest
<1>2. CASE N # {}
  <2>1. Y \in SUBSET (0..LastSystem) /\ Y # {}
    BY <1>2 DEF Named, Systems
  <2>2. PICK y \in Y : \A k \in Y : k <= y
    <3> HIDE DEF Y
    <3> QED BY <2>1, LargestExists, SystemAssumption
  <2>3. \E o \in N : \A p \in N : p[1] <= o[1]
    BY <2>2
  <2>4. N \subseteq living
    BY DEF Named
  <2> HIDE DEF N, Y
  <2>5. FindIn(living, up, n) = CHOOSE o \in N : \A p \in N : p[1] <= o[1]
    BY <1>2 DEF FindIn, Youngest, N
  <2>6. FindIn(living, up, n) \in N /\ \A p \in N : p[1] <= FindIn(living, up, n)[1]
    BY <2>3, <2>5
  <2> QED BY <1>2, <2>4, <2>6 DEF N
<1> QED BY <1>1, <1>2

LEMMA PredecessorsAre ==
  ASSUME NEW par, Tree(par, None, Systems), NEW s \in Systems
  PROVE  /\ s \in Lineage(s, par, None) /\ Lineage(s, par, None) \in SUBSET Systems
         /\ AllPredecessors(Systems, par, None)[s] = Lineage(s, par, None) \ {s}
         /\ \A t \in Lineage(s, par, None) : t <= s
<1>1. AllPredecessors(Systems, par, None)[s] =
        IF par[s] # None THEN Lineage(par[s], par, None) ELSE {}
  BY AllPredecessorsAre
<1>2. /\ Lineage(s, par, None) \in SUBSET Systems
      /\ Lineage(s, par, None) =
           {s} \cup (IF par[s] # None THEN Lineage(par[s], par, None) ELSE {})
  BY LineageUnfolds
<1>3. \A t \in Lineage(s, par, None) : t <= s
  BY LineageOlder
<1>4. par[s] # None => s \notin Lineage(par[s], par, None)
  <2>1. par[s] # None => par[s] \in Systems /\ par[s] < s
    BY DEF Tree
  <2>2. par[s] # None => \A t \in Lineage(par[s], par, None) : t <= par[s]
    BY <2>1, LineageOlder
  <2> QED BY <2>1, <2>2, SystemAssumption DEF Systems
<1> QED BY <1>1, <1>2, <1>3, <1>4

LEMMA PredecessorsUp ==
  ASSUME TreeOK, NEW s \in Systems
  PROVE  /\ s \in Up(s) /\ Up(s) \in SUBSET Systems
         /\ Predecessors[s] = Up(s) \ {s}
         /\ {s} \cup Predecessors[s] = Up(s)
         /\ \A t \in Up(s) : t <= s
<1>1. Predecessors = AllPredecessors(Systems, parent, None)
  BY DEF Predecessors, AllPredecessors, Derived
<1> QED BY <1>1, PredecessorsAre DEF TreeOK, Up

LEMMA SameTree ==
  ASSUME TreeOK, UNCHANGED <<last, parent>>
  PROVE  TreeOK' /\ Predecessors' = Predecessors /\ \A s : Up(s)' = Up(s)
<1>1. Predecessors' = AllPredecessors(Systems, parent', None)
  BY DEF Predecessors, AllPredecessors, Derived
<1>2. Predecessors = AllPredecessors(Systems, parent, None)
  BY DEF Predecessors, AllPredecessors, Derived
<1> QED BY <1>1, <1>2 DEF TreeOK, Up

(* The objects of a name are of the kind of the name. *)
LEMMA Kinds ==
  ASSUME TypeOK, NEW o \in Living
  PROVE  /\ o # None /\ o \in Objects(Names)
         /\ Sys(o) \in Systems /\ Name(o) \in Names
         /\ o = <<Sys(o), Name(o), o[3]>>
         /\ o \in nodes <=> Name(o) \in Nodes
         /\ o \in DOMAIN ends <=> Name(o) \in Edges
         /\ o \in DOMAIN corners <=> Name(o) \in Faces
<1>1. /\ o \in nodes => o \in Objects(Nodes)
      /\ o \in DOMAIN ends => o \in Objects(Edges)
      /\ o \in DOMAIN corners => o \in Objects(Faces)
      /\ o \in nodes \cup DOMAIN ends \cup DOMAIN corners
  BY DEF TypeOK, Living
<1>2. \A ns : o \in Objects(ns) =>
        Sys(o) \in Systems /\ Name(o) \in ns /\ o = <<Sys(o), Name(o), o[3]>>
  BY DEF Objects, Sys, Name
<1>3. \A ns : ns \in {Nodes, Edges, Faces} => Objects(ns) \subseteq Objects(Names)
  BY DEF Objects, Names
<1> QED BY <1>1, <1>2, <1>3, NameAssumption, NoneAssumption DEF Names

LEMMA FindWorks ==
  ASSUME TypeOK, TreeOK, NEW s \in Systems, NEW n
  PROVE  /\ Find(s, n) = None <=> \A o \in Living : Name(o) = n => Sys(o) \notin Up(s)
         /\ Find(s, n) # None =>
              /\ Find(s, n) \in Living
              /\ Name(Find(s, n)) = n /\ Sys(Find(s, n)) \in Up(s)
              /\ \A o \in Living : Name(o) = n /\ Sys(o) \in Up(s) => Sys(o) <= Sys(Find(s, n))
<1>1. Find(s, n) = FindIn(Living, {s} \cup Predecessors[s], n)
  BY DEF Find, FindIn, Youngest, Named, Sys, Name
<1>2. {s} \cup Predecessors[s] = Up(s) /\ Up(s) \in SUBSET Systems
  BY PredecessorsUp
<1>3. None \notin Living
  BY Kinds
<1> QED BY <1>1, <1>2, <1>3, FindInWorks DEF Named, Sys, Name

(* A component of the system itself is the one that is found. *)
LEMMA FindHere ==
  ASSUME TypeOK, TreeOK, NamesDistinct, NEW s \in Systems, NEW n
  PROVE  /\ \A o \in Living : Sys(o) = s /\ Name(o) = n => Find(s, n) = o
         /\ Here(s, n) # {} => Find(s, n) \in Here(s, n)
<1>1. s \in Up(s) /\ \A t \in Up(s) : t \in Systems /\ t <= s
  BY PredecessorsUp
<1>2. ASSUME NEW o \in Living, Sys(o) = s, Name(o) = n
      PROVE  Find(s, n) = o
  <2>1. /\ Find(s, n) \in Living /\ Name(Find(s, n)) = n
        /\ Sys(Find(s, n)) \in Up(s) /\ s <= Sys(Find(s, n))
    BY <1>1, <1>2, FindWorks
  <2>2. Sys(Find(s, n)) = s
    BY <1>1, <2>1 DEF Systems
  <2> QED BY <1>2, <2>1, <2>2 DEF NamesDistinct
<1> QED BY <1>2 DEF Here

LEMMA LeafFacts ==
  ASSUME TreeOK, NEW s \in Systems, Leaf(s), NEW t \in Systems, s # t
  PROVE  s \notin Up(t)
BY LeafIsNoPredecessor DEF TreeOK, Leaf, Up

-----------------------------------------------------------------------------
(* GraphInv is inductive *)

LEMMA InitGraphInv == Init => GraphInv
<1> SUFFICES ASSUME Init PROVE GraphInv
  OBVIOUS
<1>1. DOMAIN ends = {} /\ DOMAIN corners = {} /\ DOMAIN connectedEdges = {} /\ Living = {}
  BY DEF Init, Living
<1>2. TypeOK
  BY <1>1, SystemAssumption, CopyAssumption DEF Init, TypeOK, Systems
<1>3. TreeOK
  BY SystemAssumption, NoneAssumption DEF Init, TreeOK, Tree, Systems
<1> QED BY <1>1, <1>2, <1>3
        DEF Init, GraphInv, Shaped, History, AllPlaced, NodesPlain, NamesDistinct, EndsKnown,
            TornKnown, NameGone, EdgesListed, EndsAtHome

(* A new successor has no objects; the lineages of the others are as they  *)
(* were.                                                                   *)
LEMMA CreateSuccessorTree ==
  ASSUME TypeOK, TreeOK, NEW p \in 0..last, CreateSuccessor(p)
  PROVE  /\ TreeOK'
         /\ last + 1 \in Systems /\ last' = last + 1 /\ p \in Systems
         /\ \A t \in 0..last : Up(t)' = Up(t) /\ Predecessors'[t] = Predecessors[t]
         /\ Predecessors'[last + 1] = Up(p)
<1>1. /\ last \in Nat /\ last + 1 \in Systems /\ p \in Systems /\ last + 1 \notin 0..last
      /\ parent[last + 1] = None
  BY SystemAssumption DEF TypeOK, TreeOK, CreateSuccessor, Systems
<1>2. parent \in [Systems -> Systems \cup {None}] /\ None \notin Systems
  BY NoneAssumption DEF TypeOK
<1>3. Tree(parent', None, Systems)
  BY <1>1, <1>2 DEF CreateSuccessor, TreeOK, Tree, Systems
<1>4. TreeOK'
  <2>1. ASSUME NEW t \in Systems, t > last + 1 PROVE parent'[t] = None
    BY <1>1, <1>2, <2>1 DEF CreateSuccessor, TreeOK, Systems
  <2> QED BY <1>3, <2>1 DEF TreeOK, CreateSuccessor
<1>5. ASSUME NEW t \in 0..last
      PROVE  t \in Systems /\ Up(t)' = Up(t)
  <2>1. t \in Systems /\ t # last + 1
    BY <1>1, SystemAssumption DEF TypeOK, Systems
  <2>2. /\ \A u \in Systems : parent[u] # last + 1
        /\ \A u \in Systems \ {last + 1} : parent'[u] = parent[u]
    BY <1>1, <1>2 DEF CreateSuccessor, TreeOK, Tree, Systems
  <2>3. Adopted(parent, parent', last + 1, None, Systems)
    BY <1>3, <2>2 DEF TreeOK, Adopted
  <2> QED BY <2>1, <2>3, LineageExtends DEF Up
<1>6. /\ Predecessors' = AllPredecessors(Systems, parent', None)
      /\ Predecessors = AllPredecessors(Systems, parent, None)
  BY DEF Predecessors, AllPredecessors, Derived
<1>7. ASSUME NEW t \in 0..last
      PROVE  Predecessors'[t] = Predecessors[t]
  <2>1. t \in Systems /\ Lineage(t, parent', None) = Lineage(t, parent, None)
    BY <1>5 DEF Up
  <2>2. Tree(parent, None, Systems)
    BY DEF TreeOK
  <2> QED BY <1>3, <1>6, <2>1, <2>2, PredecessorsAre
<1>8. Predecessors'[last + 1] = Up(p)
  <2>1. parent'[last + 1] = p /\ p # None
    BY <1>1, <1>2 DEF CreateSuccessor
  <2>2. Predecessors'[last + 1] = Up(p)'
    BY <1>1, <1>3, <1>6, <2>1, AllPredecessorsAre DEF Up
  <2> QED BY <2>2, <1>5
<1> QED BY <1>1, <1>4, <1>5, <1>7, <1>8 DEF CreateSuccessor

LEMMA CreateSuccessorInv ==
  ASSUME GraphInv, NEW p \in 0..last, CreateSuccessor(p)
  PROVE  GraphInv'
<1> USE DEF GraphInv, Shaped, History
<1>1. /\ TreeOK' /\ last + 1 \in Systems /\ last' = last + 1 /\ p \in Systems
      /\ \A t \in 0..last : Up(t)' = Up(t) /\ Predecessors'[t] = Predecessors[t]
  BY CreateSuccessorTree
<1>2. /\ UNCHANGED <<nodes, ends, corners, connectedEdges, dead, torn, lost, edits>>
      /\ parent' = [parent EXCEPT ![last + 1] = p]
  BY DEF CreateSuccessor, graph
<1>3. Living' = Living
  BY <1>2 DEF Living
<1>4. \A o \in Living \cup dead : Sys(o) \in 0..last
  <2>1. \A o \in Objects(Names) : Sys(o) \in Nat
    BY SystemAssumption DEF Objects, Systems, Sys
  <2> QED BY <2>1, Kinds DEF AllPlaced, TypeOK
<1>5. TypeOK'
  BY <1>1, <1>2, <1>3 DEF TypeOK
<1>6. AllPlaced'
  <2>1. last \in Nat /\ \A k \in 0..last : k <= last + 1
    BY SystemAssumption DEF TypeOK, Systems
  <2> QED BY <1>1, <1>2, <1>3, <1>4, <2>1 DEF AllPlaced
<1>7. NodesPlain' /\ NamesDistinct' /\ EndsKnown' /\ TornKnown' /\ EdgesAtHome'
  BY <1>2, <1>3 DEF NodesPlain, NamesDistinct, EndsKnown, TornKnown, EndsAtHome, EdgesAtHome, Home
<1>10. FacesAtHome'
  <2>1. \A f \in DOMAIN corners : Predecessors'[Sys(f)] = Predecessors[Sys(f)]
    BY <1>1, <1>4 DEF Living
  <2>2. \A f \in DOMAIN corners : /\ Copied(f)' = Copied(f) /\ Home(Sys(f))' = Home(Sys(f))
                                  /\ Visible(Sys(f))' = Visible(Sys(f))
    BY <1>2, <2>1 DEF Copied, Home, Visible
  <2> QED BY <1>2, <2>2 DEF EndsAtHome, FacesAtHome
<1>8. NameGone'
  BY <1>1, <1>2, <1>3, <1>4 DEF NameGone
<1>9. EdgesListed'
  BY <1>1, <1>2, <1>4 DEF EdgesListed, Living
<1> QED BY <1>1, <1>5, <1>6, <1>7, <1>8, <1>9, <1>10 DEF EndsAtHome, EdgesAtHome, FacesAtHome

-----------------------------------------------------------------------------
(* What modules add *)

LEMMA Typed ==
  ASSUME NEW s \in Systems, NEW ns, NEW n \in ns
  PROVE  /\ Node(s, n) \in Objects(ns) /\ Sys(Node(s, n)) = s /\ Name(Node(s, n)) = n
         /\ \A i \in 1..MaxCopies : <<s, n, i>> \in Objects(ns)
BY CopyAssumption DEF Node, Objects, Sys, Name

(* What the constructor of a component names: an object there was not.     *)
LEMMA NewWorks ==
  ASSUME NEW s \in Systems, NEW ns, NEW n \in ns, Fresh(s, n) # {}
  PROVE  /\ New(s, n) \in Objects(ns) /\ New(s, n) \notin Living \cup dead
         /\ Sys(New(s, n)) = s /\ Name(New(s, n)) = n
<1> DEFINE i == CHOOSE i \in Fresh(s, n) : TRUE
<1>1. i \in Fresh(s, n)
  OBVIOUS
<1>2. New(s, n) = <<s, n, i>> /\ i \in 1..MaxCopies /\ <<s, n, i>> \notin Living \cup dead
  BY <1>1 DEF New, Fresh
<1>3. \A j \in 1..MaxCopies : <<s, n, j>> \in Objects(ns)
  BY Typed
<1>4. \A j : Sys(<<s, n, j>>) = s /\ Name(<<s, n, j>>) = n
  BY DEF Sys, Name
<1> QED BY <1>2, <1>3, <1>4

LEMMA UnusedFresh ==
  ASSUME NEW s \in Systems, NEW n, Unused(n)
  PROVE  /\ Fresh(s, n) # {} /\ Node(s, n) \notin Living \cup dead
         /\ \A o \in Living \cup dead : Name(o) # n
<1>1. \A i : Name(<<s, n, i>>) = n
  BY DEF Name
<1> QED BY <1>1, CopyAssumption DEF Unused, Fresh, Node

(* Faces keep their nodes while nodes are added and no face is.            *)
LEMMA FacesStay ==
  ASSUME EndsAtHome, UNCHANGED <<corners, torn>>, Predecessors' = Predecessors,
         nodes \subseteq nodes'
  PROVE  FacesAtHome'
<1>1. \A f : /\ Copied(f)' = Copied(f) /\ Home(Sys(f)) \subseteq Home(Sys(f))'
            /\ Visible(Sys(f)) \subseteq Visible(Sys(f))'
  BY DEF Copied, Home, Visible
<1> QED BY <1>1 DEF EndsAtHome, FacesAtHome

LEMMA EndsStay ==
  ASSUME EndsAtHome, UNCHANGED <<ends, corners, torn>>, Predecessors' = Predecessors,
         nodes \subseteq nodes'
  PROVE  EndsAtHome'
<1>1. EdgesAtHome'
  BY DEF EndsAtHome, EdgesAtHome, Home
<1> QED BY <1>1, FacesStay DEF EndsAtHome, EdgesAtHome, FacesAtHome

LEMMA AddNodeInv ==
  ASSUME GraphInv, NEW s \in 0..last, NEW n \in Nodes, AddNode(s, n)
  PROVE  GraphInv'
<1> USE DEF GraphInv, Shaped, History
<1> DEFINE y == Node(s, n)
<1>1. /\ UNCHANGED <<last, parent, ends, corners, dead, torn, lost, edits>>
      /\ nodes' = nodes \cup {y} /\ Unused(n)
      /\ connectedEdges' = Add(connectedEdges, y, {})
  BY DEF AddNode
<1>2. TreeOK' /\ Predecessors' = Predecessors /\ \A t : Up(t)' = Up(t)
  BY <1>1, SameTree
<1>3. s \in Systems /\ y \in Objects(Nodes) /\ Sys(y) = s /\ Name(y) = n
  <2>1. s \in Systems
    BY SystemAssumption DEF TypeOK, Systems
  <2> QED BY <2>1, Typed
<1>4. /\ y \notin Living \cup dead /\ \A o \in Living \cup dead : Name(o) # n
      /\ Living' = Living \cup {y}
  BY <1>1, <1>3, UnusedFresh DEF Living
<1>5. /\ connectedEdges' \in [nodes' -> SUBSET Objects(Edges)]
      /\ connectedEdges'[y] = {}
      /\ \A x \in nodes : connectedEdges'[x] = connectedEdges[x]
  BY <1>1, <1>4 DEF Add, TypeOK, Living
<1>6. TypeOK'
  <2>1. dead' \subseteq Objects(Names) \ Living'
    BY <1>1, <1>4 DEF TypeOK
  <2> QED BY <1>1, <1>3, <1>4, <1>5, <2>1 DEF TypeOK
<1>7. AllPlaced' /\ NodesPlain' /\ NamesDistinct'
  BY <1>1, <1>3, <1>4 DEF AllPlaced, NodesPlain, NamesDistinct
<1>8. EndsKnown' /\ TornKnown' /\ EndsAtHome'
  BY <1>1, <1>2, EndsStay DEF EndsKnown, TornKnown
<1>9. NameGone'
  BY <1>1, <1>2, <1>3, <1>4 DEF NameGone
<1>10. EdgesListed'
  <2>1. \A e \in DOMAIN ends : y \notin {ends[e].start, ends[e].end}
    BY <1>4 DEF EndsKnown, Living
  <2> QED BY <1>1, <1>2, <1>5, <2>1 DEF EdgesListed
<1> QED BY <1>2, <1>6, <1>7, <1>8, <1>9, <1>10

LEMMA AddFaceInv ==
  ASSUME GraphInv, NEW s \in 0..last, NEW n \in Faces,
         NEW xs \in (SUBSET Visible(s)) \ {{}}, AddFace(s, n, xs)
  PROVE  GraphInv'
<1> USE DEF GraphInv, Shaped, History
<1> DEFINE f == New(s, n)
<1>1. /\ UNCHANGED <<last, parent, nodes, ends, connectedEdges, dead, torn, lost, edits>>
      /\ corners' = Add(corners, f, xs) /\ Unused(n)
  BY DEF AddFace
<1>2. TreeOK' /\ Predecessors' = Predecessors /\ \A t : Up(t)' = Up(t)
  BY <1>1, SameTree
<1>3. s \in Systems
  BY SystemAssumption DEF TypeOK, Systems
<1>4. /\ f \in Objects(Faces) /\ f \notin Living \cup dead /\ Sys(f) = s /\ Name(f) = n
      /\ \A o \in Living \cup dead : Name(o) # n
  BY <1>1, <1>3, UnusedFresh, NewWorks
<1>5. /\ DOMAIN corners' = DOMAIN corners \cup {f} /\ corners'[f] = xs
      /\ \A g \in DOMAIN corners : corners'[g] = corners[g]
      /\ Living' = Living \cup {f}
  <2> HIDE DEF f
  <2>1. f \notin DOMAIN corners
    BY <1>4 DEF Living
  <2>2. /\ DOMAIN corners' = DOMAIN corners \cup {f} /\ corners'[f] = xs
        /\ \A g \in DOMAIN corners : g # f => corners'[g] = corners[g]
    BY <1>1 DEF Add
  <2> QED BY <1>1, <2>1, <2>2 DEF Living
<1>6. TypeOK'
  <2>1. xs \in (SUBSET Objects(Nodes)) \ {{}}
    BY DEF Visible, TypeOK
  <2>2. DOMAIN corners' \subseteq Objects(Faces)
        /\ \A g \in DOMAIN corners' : corners'[g] \in (SUBSET Objects(Nodes)) \ {{}}
    BY <1>4, <1>5, <2>1 DEF TypeOK
  <2>3. dead' \subseteq Objects(Names) \ Living' /\ torn' \subseteq Living'
    BY <1>1, <1>4, <1>5 DEF TypeOK
  <2> QED BY <1>1, <2>2, <2>3 DEF TypeOK
<1>7. AllPlaced' /\ NodesPlain' /\ NamesDistinct'
  BY <1>1, <1>3, <1>4, <1>5 DEF AllPlaced, NodesPlain, NamesDistinct
<1>8. EndsKnown' /\ TornKnown' /\ EdgesListed'
  BY <1>1, <1>2, <1>5 DEF EndsKnown, TornKnown, EdgesListed
<1>9. NameGone'
  BY <1>1, <1>2, <1>4, <1>5 DEF NameGone
<1>10. EndsAtHome'
  <2> HIDE DEF f
  <2>1. ASSUME NEW g, g = f PROVE ~ Copied(g)'
    <3>1. \A h \in DOMAIN corners' : Name(h) = n => Sys(h) \notin Predecessors[s]
      <4> SUFFICES ASSUME NEW h \in DOMAIN corners', Name(h) = n
                   PROVE  Sys(h) \notin Predecessors[s]
        OBVIOUS
      <4>1. h = f
        BY <1>4, <1>5 DEF Living
      <4> QED BY <1>3, <1>4, <4>1, PredecessorsUp
    <3>2. Name(g) = n /\ Sys(g) = s
      BY <1>4, <2>1
    <3> QED BY <1>2, <3>1, <3>2 DEF Copied
  <2>2. \A g \in DOMAIN corners : Copied(g)' = Copied(g)
    <3>1. \A g \in DOMAIN corners : Name(g) # n
      BY <1>4 DEF Living
    <3> QED BY <1>2, <1>4, <1>5, <3>1 DEF Copied
  <2>3. \A t : Home(t)' = Home(t) /\ Visible(t)' = Visible(t)
    BY <1>1, <1>2 DEF Home, Visible
  <2>4. FacesAtHome'
    <3> SUFFICES ASSUME NEW g \in DOMAIN corners' \ torn'
                 PROVE  corners'[g] \subseteq
                          IF Copied(g)' THEN Home(Sys(g))' ELSE Visible(Sys(g))'
      BY DEF FacesAtHome
    <3>1. CASE g = f
      BY <1>4, <1>5, <2>1, <2>3, <3>1
    <3>2. CASE g # f
      <4>1. g \in DOMAIN corners \ torn /\ corners'[g] = corners[g]
        BY <1>1, <1>5, <3>2
      <4> QED BY <2>2, <2>3, <4>1 DEF EndsAtHome
    <3> QED BY <3>1, <3>2
  <2>5. EdgesAtHome'
    BY <1>1, <2>3 DEF EndsAtHome, EdgesAtHome
  <2> QED BY <2>4, <2>5 DEF EndsAtHome, EdgesAtHome, FacesAtHome
<1> QED BY <1>2, <1>6, <1>7, <1>8, <1>9, <1>10

(* Accepted or refused, the edge is listed by both nodes; refused, it is   *)
(* dead.                                                                   *)
LEMMA AddEdgeInv ==
  ASSUME GraphInv, NEW s \in 0..last, NEW n \in Edges, NEW a \in nodes, NEW b \in nodes,
         AddEdge(s, n, a, b)
  PROVE  GraphInv'
<1> USE DEF GraphInv, Shaped, History
<1> DEFINE e == New(s, n)
           accepted == {a, b} \subseteq Home(s)
<1>1. /\ UNCHANGED <<last, parent, nodes, corners, torn, lost, edits>>
      /\ Unused(n) /\ connectedEdges' = ListedAtBoth(connectedEdges, e, a, b)
      /\ accepted => ends' = Add(ends, e, [start |-> a, end |-> b]) /\ dead' = dead
      /\ ~accepted => dead' = dead \cup {e} /\ ends' = ends
  BY DEF AddEdge
<1>2. TreeOK' /\ Predecessors' = Predecessors /\ \A t : Up(t)' = Up(t)
  BY <1>1, SameTree
<1>3. s \in Systems
  BY SystemAssumption DEF TypeOK, Systems
<1>4. /\ e \in Objects(Edges) /\ e \notin Living \cup dead /\ Sys(e) = s /\ Name(e) = n
      /\ \A o \in Living \cup dead : Name(o) # n
  BY <1>1, <1>3, UnusedFresh, NewWorks
<1> HIDE DEF e
<1>5. /\ connectedEdges' \in [nodes -> SUBSET Objects(Edges)]
      /\ \A x \in nodes : connectedEdges'[x] =
           IF x \in {a, b} THEN connectedEdges[x] \cup {e} ELSE connectedEdges[x]
  <2>1. connectedEdges \in [nodes -> SUBSET Objects(Edges)]
    BY DEF TypeOK
  <2>2. connectedEdges' = ListedAtBoth(connectedEdges, e, a, b) /\ e \in Objects(Edges)
    BY <1>1, <1>4
  <2> QED BY <2>1, <2>2 DEF ListedAtBoth, Listed
<1>6. n \notin Nodes
  BY NameAssumption
<1>7. CASE accepted
  <2> HIDE DEF accepted
  <2>1. /\ DOMAIN ends' = DOMAIN ends \cup {e} /\ ends'[e] = [start |-> a, end |-> b]
        /\ \A d \in DOMAIN ends : ends'[d] = ends[d] /\ d # e
        /\ Living' = Living \cup {e} /\ dead' = dead
    <3>1. e \notin DOMAIN ends
      BY <1>4 DEF Living
    <3>2. /\ DOMAIN ends' = DOMAIN ends \cup {e} /\ ends'[e] = [start |-> a, end |-> b]
          /\ \A d \in DOMAIN ends : d # e => ends'[d] = ends[d]
      BY <1>1, <1>7 DEF Add
    <3> QED BY <1>1, <1>7, <3>1, <3>2 DEF Living
  <2>2. {a, b} \subseteq Home(s) /\ Sys(a) = s /\ Sys(b) = s
    BY <1>7 DEF accepted, Home
  <2>3. TypeOK'
    <3>1. DOMAIN ends' \subseteq Objects(Edges)
          /\ \A d \in DOMAIN ends' : ends'[d] \in [start : Objects(Nodes), end : Objects(Nodes)]
      BY <1>4, <2>1 DEF TypeOK
    <3>2. dead' \subseteq Objects(Names) \ Living' /\ torn' \subseteq Living'
      BY <1>1, <1>4, <2>1 DEF TypeOK
    <3> QED BY <1>1, <1>5, <3>1, <3>2 DEF TypeOK
  <2>4. AllPlaced' /\ NodesPlain' /\ NamesDistinct'
    BY <1>1, <1>3, <1>4, <2>1 DEF AllPlaced, NodesPlain, NamesDistinct
  <2>5. EndsKnown' /\ TornKnown'
    BY <1>1, <1>4, <2>1, <2>2 DEF EndsKnown, TornKnown
  <2>6. EdgesListed'
    BY <1>1, <1>2, <1>5, <2>1 DEF EdgesListed
  <2>7. NameGone'
    BY <1>1, <1>2, <1>4, <1>6, <2>1 DEF NameGone
  <2>8. EndsAtHome'
    <3>1. EdgesAtHome'
      BY <1>1, <1>4, <2>1, <2>2 DEF EndsAtHome, EdgesAtHome, Home
    <3>2. FacesAtHome'
      BY <1>1, <1>2, FacesStay
    <3> QED BY <3>1, <3>2 DEF EndsAtHome, EdgesAtHome, FacesAtHome
  <2> QED BY <1>2, <2>3, <2>4, <2>5, <2>6, <2>7, <2>8
<1>8. CASE ~accepted
  <2> HIDE DEF accepted
  <2>1. ends' = ends /\ dead' = dead \cup {e} /\ Living' = Living
    BY <1>1, <1>8 DEF Living
  <2>2. TypeOK'
    <3>1. e \in Objects(Names)
      BY <1>4 DEF Objects, Names
    <3>2. dead' \subseteq Objects(Names) \ Living'
      BY <1>4, <2>1, <3>1 DEF TypeOK
    <3> QED BY <1>1, <1>5, <2>1, <3>2 DEF TypeOK
  <2>3. AllPlaced' /\ NodesPlain' /\ NamesDistinct'
    BY <1>1, <1>3, <1>4, <2>1 DEF AllPlaced, NodesPlain, NamesDistinct
  <2>4. EndsKnown' /\ TornKnown' /\ EndsAtHome'
    BY <1>1, <1>2, <2>1, EndsStay DEF EndsKnown, TornKnown
  <2>5. EdgesListed'
    BY <1>1, <1>2, <1>5, <2>1 DEF EdgesListed
  <2>6. NameGone'
    BY <1>2, <1>4, <1>6, <2>1 DEF NameGone
  <2> QED BY <1>2, <2>2, <2>3, <2>4, <2>5, <2>6
<1> QED BY <1>7, <1>8

-----------------------------------------------------------------------------
(* What a successor copies *)

(* The copies of nodes list what their sources list; no edge ends at them  *)
(* yet, and no node of their name was removed from their system.           *)
LEMMA CopiedNodes ==
  ASSUME GraphInv, NEW s \in 0..last, NEW ns \in SUBSET Nodes,
         \A n \in ns : Find(s, n) # None
  PROVE  /\ nodes \subseteq NodesWith(s, ns)
         /\ ListsWith(s, ns) \in [NodesWith(s, ns) -> SUBSET Objects(Edges)]
         /\ \A x \in nodes : ListsWith(s, ns)[x] = connectedEdges[x]
         /\ \A n \in ns : Node(s, n) \in NodesWith(s, ns)
         /\ \A x \in NodesWith(s, ns) \ nodes :
              /\ x \in Objects(Nodes) /\ x = Node(Sys(x), Name(x)) /\ Sys(x) = s
              /\ Find(s, Name(x)) \in nodes /\ Find(s, Name(x)) # None
              /\ x \notin Living \cup dead
              /\ \A o \in Living : ~(Sys(o) = s /\ Name(o) = Name(x))
              /\ \A e \in DOMAIN ends : x \notin {ends[e].start, ends[e].end}
              /\ \A e \in ListsWith(s, ns)[x] :
                   \/ e \in dead
                   \/ /\ e \in DOMAIN ends /\ Sys(e) \in Predecessors[s]
                      /\ Name(x) \in {Name(ends[e].start), Name(ends[e].end)}
<1> USE DEF GraphInv, Shaped, History
<1>1. s \in Systems /\ last \in Systems
  BY SystemAssumption DEF TypeOK, Systems
<1>2. /\ nodes \subseteq NodesWith(s, ns)
      /\ \A n \in ns : Node(s, n) \in NodesWith(s, ns)
      /\ \A x \in nodes : ListsWith(s, ns)[x] = connectedEdges[x]
      /\ DOMAIN ListsWith(s, ns) = NodesWith(s, ns)
  BY DEF NodesWith, ListsWith
<1>3. ASSUME NEW n \in ns, Node(s, n) \notin nodes
      PROVE  LET x == Node(s, n)
                 z == Find(s, n)
             IN /\ x \in Objects(Nodes) /\ Sys(x) = s /\ Name(x) = n
                /\ z \in nodes /\ Name(z) = n /\ Sys(z) \in Predecessors[s]
                /\ x \notin Living \cup dead
                /\ \A o \in Living : ~(Sys(o) = s /\ Name(o) = n)
                /\ ListsWith(s, ns)[x] = connectedEdges[z]
  <2> DEFINE x == Node(s, n)
             z == Find(s, n)
  <2>1. x \in Objects(Nodes) /\ Sys(x) = s /\ Name(x) = n /\ n \in Nodes
    BY <1>1, Typed
  <2>2. z \in Living /\ Name(z) = n /\ Sys(z) \in Up(s)
    BY <1>1, FindWorks
  <2>3. z \in nodes
    BY <2>1, <2>2, Kinds
  <2>4. \A o \in Living : ~(Sys(o) = s /\ Name(o) = n)
    <3> SUFFICES ASSUME NEW o \in Living, Sys(o) = s, Name(o) = n PROVE FALSE
      OBVIOUS
    <3>1. o \in nodes
      BY <2>1, Kinds
    <3> QED BY <1>3, <3>1 DEF NodesPlain
  <2>5. Sys(z) \in Predecessors[s]
    BY <1>1, <2>2, <2>4, PredecessorsUp
  <2>6. x \notin dead
    <3>1. x \in dead => Sys(z) \notin Up(s)
      BY <2>1, <2>2 DEF NameGone
    <3> QED BY <2>2, <3>1
  <2>7. ListsWith(s, ns)[x] = connectedEdges[z]
    BY <1>2, <1>3, <2>1 DEF ListsWith
  <2> QED BY <2>1, <2>2, <2>3, <2>4, <2>5, <2>6, <2>7
<1>4. ASSUME NEW x \in NodesWith(s, ns) \ nodes
      PROVE  \E n \in ns : x = Node(s, n)
  BY DEF NodesWith
<1>5. ListsWith(s, ns) \in [NodesWith(s, ns) -> SUBSET Objects(Edges)]
  <2>1. \A x \in nodes : connectedEdges[x] \in SUBSET Objects(Edges)
    BY DEF TypeOK
  <2>2. \A x \in NodesWith(s, ns) : ListsWith(s, ns)[x] \in SUBSET Objects(Edges)
    BY <1>2, <1>3, <1>4, <2>1
  <2>3. ListsWith(s, ns) = [x \in NodesWith(s, ns) |-> ListsWith(s, ns)[x]]
    BY DEF ListsWith
  <2> QED BY <2>2, <2>3
<1>6. ASSUME NEW x \in NodesWith(s, ns) \ nodes
      PROVE  \A e \in DOMAIN ends : x \notin {ends[e].start, ends[e].end}
  <2>1. x \notin nodes \cup dead
    BY <1>3, <1>4
  <2> QED BY <2>1 DEF EndsKnown
<1>7. ASSUME NEW x \in NodesWith(s, ns) \ nodes, NEW e \in ListsWith(s, ns)[x]
      PROVE  \/ e \in dead
             \/ /\ e \in DOMAIN ends /\ Sys(e) \in Predecessors[s]
                /\ Name(x) \in {Name(ends[e].start), Name(ends[e].end)}
  <2>1. PICK n \in ns : x = Node(s, n)
    BY <1>4
  <2> DEFINE z == Find(s, n)
  <2>2. /\ z \in nodes /\ Name(z) = n /\ Sys(z) \in Predecessors[s] /\ Name(x) = n
        /\ e \in connectedEdges[z]
    BY <1>3, <1>7, <2>1
  <2> HIDE DEF z
  <2>3. CASE e \in DOMAIN ends /\ z \in {ends[e].start, ends[e].end}
    <3>1. Sys(z) = Sys(e)
      BY <2>3 DEF EndsKnown
    <3> QED BY <2>2, <2>3, <3>1
  <2>4. CASE /\ e \in DOMAIN ends /\ Sys(e) \in Predecessors[Sys(z)]
             /\ Name(z) \in {Name(ends[e].start), Name(ends[e].end)}
    <3>1. Sys(z) \in Systems /\ Sys(z) \in Up(s) /\ Up(s) \in SUBSET Systems
      BY <1>1, <2>2, PredecessorsUp
    <3>2. Up(Sys(z)) \subseteq Up(s)
      BY <1>1, <3>1, LineageTransitive DEF TreeOK, Up
    <3>3. /\ Sys(e) \in Up(Sys(z)) /\ Sys(e) # Sys(z)
          /\ Sys(e) <= Sys(z) /\ Sys(z) <= s
      BY <1>1, <2>4, <3>1, PredecessorsUp
    <3>4. Sys(e) \in Predecessors[s]
      BY <1>1, <3>1, <3>2, <3>3, PredecessorsUp, SystemAssumption DEF Systems
    <3> QED BY <2>2, <2>4, <3>4
  <2> QED BY <2>2, <2>3, <2>4 DEF EdgesListed
<1>8. ASSUME NEW x \in NodesWith(s, ns) \ nodes
      PROVE  /\ x \in Objects(Nodes) /\ x = Node(Sys(x), Name(x)) /\ Sys(x) = s
             /\ Find(s, Name(x)) \in nodes /\ Find(s, Name(x)) # None
             /\ x \notin Living \cup dead
             /\ \A o \in Living : ~(Sys(o) = s /\ Name(o) = Name(x))
  BY <1>3, <1>4
<1> QED BY <1>2, <1>5, <1>6, <1>7, <1>8

(* What the three actions have in common; C has the copy of an edge or a   *)
(* face.                                                                   *)
LEMMA CopiesPlaced ==
  ASSUME GraphInv, NEW s \in 0..last, NEW ns \in SUBSET Nodes,
         \A n \in ns : Find(s, n) # None,
         UNCHANGED <<last, parent, dead>>, nodes' = NodesWith(s, ns),
         NEW C, Living' = Living \cup nodes' \cup C,
         \A c \in C : /\ c \notin Living \cup dead /\ Sys(c) = s
                      /\ c \in Objects(Names) /\ Name(c) \notin Nodes
                      /\ Here(s, Name(c)) = {} /\ C = {c}
  PROVE  /\ TreeOK' /\ Predecessors' = Predecessors
         /\ AllPlaced' /\ NodesPlain' /\ NamesDistinct' /\ NameGone'
         /\ nodes' \subseteq Objects(Nodes) /\ dead' \subseteq Objects(Names) \ Living'
<1> USE DEF GraphInv, Shaped, History
<1>1. TreeOK' /\ Predecessors' = Predecessors /\ \A t : Up(t)' = Up(t)
  BY SameTree
<1>2. s \in Systems /\ s <= last
  BY SystemAssumption DEF TypeOK, Systems
<1>3. /\ nodes \subseteq nodes'
      /\ \A x \in nodes' \ nodes :
           /\ x \in Objects(Nodes) /\ x = Node(Sys(x), Name(x)) /\ Sys(x) = s
           /\ Find(s, Name(x)) # None /\ x \notin Living \cup dead
           /\ \A o \in Living : ~(Sys(o) = s /\ Name(o) = Name(x))
  BY CopiedNodes
<1>4. \A x \in nodes' \ nodes : Name(x) \in Nodes
  BY <1>3 DEF Objects, Name
<1>5. Living' = Living \cup (nodes' \ nodes) \cup C
  BY <1>3 DEF Living
<1>6. nodes' \subseteq Objects(Nodes) /\ dead' \subseteq Objects(Names) \ Living'
  BY <1>3, <1>5 DEF TypeOK
<1>7. AllPlaced' /\ NodesPlain'
  BY <1>2, <1>3, <1>5 DEF AllPlaced, NodesPlain
<1>8. NamesDistinct'
  <2>1. \A c \in C : \A o \in Living : ~(Sys(o) = s /\ Name(o) = Name(c))
    BY DEF Here
  <2> SUFFICES ASSUME NEW o \in Living', NEW p \in Living', Sys(o) = Sys(p), Name(o) = Name(p)
               PROVE  o = p
    BY DEF NamesDistinct
  <2>2. CASE o \in Living /\ p \in Living
    BY <2>2 DEF NamesDistinct
  <2>3. CASE o \in Living /\ p \notin Living
    BY <1>3, <1>5, <2>1, <2>3
  <2>4. CASE o \notin Living /\ p \in Living
    BY <1>3, <1>5, <2>1, <2>4
  <2>5. CASE o \notin Living /\ p \notin Living
    <3>1. CASE o \in C /\ p \in C
      BY <3>1
    <3>2. CASE o \notin C /\ p \notin C
      BY <1>3, <1>5, <2>5, <3>2
    <3>3. CASE o \in C <=> p \notin C
      BY <1>4, <1>5, <2>5, <3>3
    <3> QED BY <3>1, <3>2, <3>3
  <2> QED BY <2>2, <2>3, <2>4, <2>5
<1>9. NameGone'
  <2> SUFFICES ASSUME NEW x \in dead, Name(x) \in Nodes, NEW o \in Living', Name(o) = Name(x)
               PROVE  Sys(o) \notin Up(Sys(x))
    BY <1>1 DEF NameGone
  <2>1. CASE o \in Living
    BY <2>1 DEF NameGone
  <2>2. CASE o \in nodes' \ nodes
    <3>1. Sys(o) = s /\ Find(s, Name(x)) # None
      BY <1>3, <2>2
    <3>2. PICK z \in Living : Name(z) = Name(x) /\ Sys(z) \in Up(s)
      BY <1>2, <3>1, FindWorks
    <3>3. Sys(z) \notin Up(Sys(x)) /\ Sys(x) \in Systems
      <4>1. \A y \in Objects(Names) : Sys(y) \in Systems
        BY DEF Objects, Sys
      <4> QED BY <3>2, <4>1 DEF NameGone, TypeOK
    <3>4. s \in Up(Sys(x)) => Up(s) \subseteq Up(Sys(x))
      BY <3>3, LineageTransitive DEF TreeOK, Up
    <3> QED BY <3>1, <3>2, <3>3, <3>4
  <2>3. CASE o \in C
    BY <2>3
  <2> QED BY <1>5, <2>1, <2>2, <2>3
<1> QED BY <1>1, <1>6, <1>7, <1>8, <1>9

LEMMA GetNodeInv ==
  ASSUME GraphInv, NEW s \in 0..last, NEW n \in Nodes, GetNode(s, n)
  PROVE  GraphInv'
<1> USE DEF GraphInv, Shaped, History
<1> DEFINE ns == {n}
<1>1. /\ UNCHANGED <<last, parent, ends, corners, dead, torn, lost, edits>>
      /\ nodes' = NodesWith(s, ns) /\ connectedEdges' = ListsWith(s, ns)
  BY DEF GetNode
<1>2. ns \in SUBSET Nodes /\ \A m \in ns : Find(s, m) # None
  BY DEF GetNode, Missing
<1> HIDE DEF ns
<1>3. /\ nodes \subseteq nodes'
      /\ connectedEdges' \in [nodes' -> SUBSET Objects(Edges)]
      /\ \A x \in nodes : connectedEdges'[x] = connectedEdges[x]
  BY <1>1, <1>2, CopiedNodes
<1>4. ASSUME NEW x \in nodes' \ nodes
      PROVE  /\ Sys(x) = s
             /\ \A e \in DOMAIN ends : x \notin {ends[e].start, ends[e].end}
             /\ \A e \in connectedEdges'[x] :
                  \/ e \in dead
                  \/ /\ e \in DOMAIN ends /\ Sys(e) \in Predecessors[s]
                     /\ Name(x) \in {Name(ends[e].start), Name(ends[e].end)}
  BY <1>1, <1>2, CopiedNodes
<1>5. Living' = Living \cup nodes' \cup {}
  BY <1>1, <1>3 DEF Living
<1>6. /\ TreeOK' /\ Predecessors' = Predecessors
      /\ AllPlaced' /\ NodesPlain' /\ NamesDistinct' /\ NameGone'
      /\ nodes' \subseteq Objects(Nodes) /\ dead' \subseteq Objects(Names) \ Living'
  BY <1>1, <1>2, <1>5, CopiesPlaced
<1>7. TypeOK'
  BY <1>1, <1>3, <1>5, <1>6 DEF TypeOK
<1>8. EndsKnown' /\ TornKnown' /\ EndsAtHome'
  BY <1>1, <1>3, <1>6, EndsStay DEF EndsKnown, TornKnown
<1>9. EdgesListed'
  BY <1>1, <1>3, <1>4, <1>6 DEF EdgesListed
<1> QED BY <1>6, <1>7, <1>8, <1>9

(* The source of a copy whose nodes are alive: their names are to be found. *)
LEMMA Source ==
  ASSUME GraphInv, NEW s \in 0..last, NEW n, Missing(s, n), Find(s, n) \notin torn
  PROVE  LET src == Find(s, n)
         IN /\ src \in Living /\ Name(src) = n
            /\ n \in Edges => /\ src \in DOMAIN ends
                              /\ \A x \in {ends[src].start, ends[src].end} :
                                   Name(x) \in Nodes /\ Find(s, Name(x)) # None
            /\ Sys(src) \in Predecessors[s]
            /\ n \in Faces => /\ src \in DOMAIN corners
                              /\ \A x \in corners[src] :
                                   Name(x) \in Nodes /\ Find(s, Name(x)) # None
<1> USE DEF GraphInv, Shaped, History
<1> DEFINE src == Find(s, n)
<1>1. s \in Systems
  BY SystemAssumption DEF TypeOK, Systems
<1>2. src \in Living /\ Name(src) = n /\ Sys(src) \in Up(s)
  BY <1>1, FindWorks DEF Missing
<1>6. Sys(src) \in Systems /\ Sys(src) \in Predecessors[s]
  <2>1. Sys(src) # s
    BY <1>2 DEF Missing, Here
  <2> QED BY <1>1, <1>2, <2>1, PredecessorsUp
<1>3. ASSUME NEW x \in Visible(Sys(src))
      PROVE  Name(x) \in Nodes /\ Find(s, Name(x)) # None
  <2>1. x \in Living /\ Sys(x) \in Up(Sys(src)) /\ x \in nodes
    BY <1>6, PredecessorsUp DEF Visible, Living
  <2>2. Sys(x) \in Up(s)
    BY <1>1, <1>2, <2>1, LineageTransitive DEF TreeOK, Up
  <2> QED BY <1>1, <2>1, <2>2, FindWorks, Kinds
<1>4. /\ n \in Edges => src \in DOMAIN ends
      /\ n \in Faces => src \in DOMAIN corners
  BY <1>2, Kinds
<1>5. /\ src \in DOMAIN ends => {ends[src].start, ends[src].end} \subseteq Visible(Sys(src))
      /\ src \in DOMAIN corners => corners[src] \subseteq Visible(Sys(src))
  BY DEF EndsAtHome, Home, Visible
<1> QED BY <1>2, <1>3, <1>4, <1>5, <1>6

LEMMA GetEdgeInv ==
  ASSUME GraphInv, NEW s \in 0..last, NEW n \in Edges, GetEdge(s, n)
  PROVE  GraphInv'
<1> USE DEF GraphInv, Shaped, History
<1> DEFINE src == Find(s, n)
           ns == {Name(ends[src].start), Name(ends[src].end)}
           new == EndsFor(s, src)
           e == New(s, n)
<1>1. /\ UNCHANGED <<last, parent, corners, dead, torn, lost, edits>>
      /\ nodes' = NodesWith(s, ns)
      /\ ends' = Add(ends, e, new)
      /\ connectedEdges' = ListedAtBoth(ListsWith(s, ns), e, new.start, new.end)
      /\ Missing(s, n) /\ src \notin torn /\ Fresh(s, n) # {}
  BY DEF GetEdge
<1>2. src \in DOMAIN ends /\ ns \in SUBSET Nodes /\ \A m \in ns : Find(s, m) # None
  BY <1>1, Source
<1>3. s \in Systems
  BY SystemAssumption DEF TypeOK, Systems
<1>4. e \in Objects(Edges) /\ e \notin Living \cup dead /\ Sys(e) = s /\ Name(e) = n
  BY <1>1, <1>3, NewWorks
<1>5. /\ new = [start |-> new.start, end |-> new.end]
      /\ new.start = Node(s, Name(ends[src].start)) /\ new.end = Node(s, Name(ends[src].end))
  BY DEF EndsFor, Resolved
<1>6. /\ \A x \in {new.start, new.end} : x \in nodes' /\ Sys(x) = s
      /\ {new.start, new.end} \subseteq Objects(Nodes)
  <2>1. \A m \in ns : Node(s, m) \in nodes'
    BY <1>1, <1>2, CopiedNodes
  <2>2. \A m \in ns : Node(s, m) \in Objects(Nodes) /\ Sys(Node(s, m)) = s
    BY <1>2, <1>3, Typed
  <2> QED BY <1>5, <2>1, <2>2
<1> HIDE DEF ns, new, e
<1>7. /\ nodes \subseteq nodes'
      /\ ListsWith(s, ns) \in [nodes' -> SUBSET Objects(Edges)]
      /\ \A x \in nodes : ListsWith(s, ns)[x] = connectedEdges[x]
  BY <1>1, <1>2, CopiedNodes
<1>8. ASSUME NEW x \in nodes' \ nodes
      PROVE  /\ Sys(x) = s
             /\ \A d \in DOMAIN ends : x \notin {ends[d].start, ends[d].end}
             /\ \A d \in ListsWith(s, ns)[x] :
                  \/ d \in dead
                  \/ /\ d \in DOMAIN ends /\ Sys(d) \in Predecessors[s]
                     /\ Name(x) \in {Name(ends[d].start), Name(ends[d].end)}
  BY <1>1, <1>2, CopiedNodes
<1>9. /\ connectedEdges' \in [nodes' -> SUBSET Objects(Edges)]
      /\ \A x \in nodes' : connectedEdges'[x] =
           IF x \in {new.start, new.end} THEN ListsWith(s, ns)[x] \cup {e}
           ELSE ListsWith(s, ns)[x]
  <2> DEFINE list == ListsWith(s, ns)
             a == new.start
             b == new.end
  <2>1. list \in [nodes' -> SUBSET Objects(Edges)] /\ e \in Objects(Edges)
    BY <1>4, <1>7
  <2>2. a \in nodes' /\ b \in nodes' /\ connectedEdges' = ListedAtBoth(list, e, a, b)
    BY <1>1, <1>6
  <2> HIDE DEF list, a, b
  <2>3. /\ connectedEdges' \in [nodes' -> SUBSET Objects(Edges)]
        /\ \A x \in nodes' : connectedEdges'[x] =
             IF x \in {a, b} THEN list[x] \cup {e} ELSE list[x]
    BY <2>1, <2>2 DEF ListedAtBoth, Listed
  <2> QED BY <2>3 DEF list, a, b
<1>10. /\ DOMAIN ends' = DOMAIN ends \cup {e} /\ ends'[e] = new
       /\ \A d \in DOMAIN ends : ends'[d] = ends[d] /\ d # e
       /\ Living' = Living \cup nodes' \cup {e}
  <2>1. e \notin DOMAIN ends
    BY <1>4 DEF Living
  <2>2. /\ DOMAIN ends' = DOMAIN ends \cup {e} /\ ends'[e] = new
        /\ \A d \in DOMAIN ends : d # e => ends'[d] = ends[d]
    BY <1>1 DEF Add
  <2> QED BY <1>1, <1>7, <2>1, <2>2 DEF Living
<1>11. /\ TreeOK' /\ Predecessors' = Predecessors
       /\ AllPlaced' /\ NodesPlain' /\ NamesDistinct' /\ NameGone'
       /\ nodes' \subseteq Objects(Nodes) /\ dead' \subseteq Objects(Names) \ Living'
  <2> DEFINE C == {e}
  <2>1. \A c \in C : /\ c \notin Living \cup dead /\ Sys(c) = s
                     /\ c \in Objects(Names) /\ Name(c) \notin Nodes
                     /\ Here(s, Name(c)) = {} /\ C = {c}
    <3>1. e \in Objects(Names)
      BY <1>4 DEF Objects, Names
    <3> QED BY <1>1, <1>4, <3>1, NameAssumption DEF Missing
  <2>2. Living' = Living \cup nodes' \cup C
    BY <1>10
  <2> HIDE DEF C
  <2> QED BY <1>1, <1>2, <2>1, <2>2, CopiesPlaced
<1>12. TypeOK'
  <2>1. \A d \in DOMAIN ends' : ends'[d] \in [start : Objects(Nodes), end : Objects(Nodes)]
    BY <1>5, <1>6, <1>10 DEF TypeOK
  <2>2. DOMAIN ends' \subseteq Objects(Edges) /\ torn' \subseteq Living'
    BY <1>1, <1>4, <1>10 DEF TypeOK
  <2> QED BY <1>1, <1>9, <1>11, <2>1, <2>2 DEF TypeOK
<1>13. EndsKnown' /\ TornKnown'
  BY <1>1, <1>4, <1>6, <1>7, <1>10 DEF EndsKnown, TornKnown
<1>14. EndsAtHome'
  <2>1. EdgesAtHome'
    BY <1>1, <1>4, <1>6, <1>7, <1>10 DEF EndsAtHome, EdgesAtHome, Home
  <2>2. FacesAtHome'
    BY <1>1, <1>7, <1>11, FacesStay
  <2> QED BY <2>1, <2>2 DEF EndsAtHome, EdgesAtHome, FacesAtHome
<1>15. EdgesListed'
  <2>1. ASSUME NEW d \in DOMAIN ends', NEW x \in {ends'[d].start, ends'[d].end} \cap nodes'
        PROVE  d \in connectedEdges'[x] \/ <<d, x>> \in lost'
    <3>1. CASE d = e
      BY <1>9, <1>10, <2>1, <3>1
    <3>2. CASE d # e
      <4>1. d \in DOMAIN ends /\ x \in {ends[d].start, ends[d].end} /\ x \in nodes
        BY <1>8, <1>10, <2>1, <3>2
      <4>2. d \in connectedEdges[x] \/ <<d, x>> \in lost
        BY <4>1 DEF EdgesListed
      <4> QED BY <1>1, <1>7, <1>9, <2>1, <4>1, <4>2
    <3> QED BY <3>1, <3>2
  <2>2. ASSUME NEW x \in nodes', NEW d \in connectedEdges'[x]
        PROVE  \/ d \in dead'
               \/ d \in DOMAIN ends' /\ x \in {ends'[d].start, ends'[d].end}
               \/ /\ d \in DOMAIN ends' /\ Sys(d) \in Predecessors'[Sys(x)]
                  /\ Name(x) \in {Name(ends'[d].start), Name(ends'[d].end)}
    <3>1. CASE d = e /\ x \in {new.start, new.end}
      BY <1>10, <3>1
    <3>2. CASE d \in ListsWith(s, ns)[x] /\ x \in nodes
      BY <1>1, <1>7, <1>10, <1>11, <3>2 DEF EdgesListed
    <3>3. CASE d \in ListsWith(s, ns)[x] /\ x \notin nodes
      BY <1>1, <1>8, <1>10, <1>11, <3>3
    <3> QED BY <1>9, <2>2, <3>1, <3>2, <3>3
  <2> QED BY <2>1, <2>2 DEF EdgesListed
<1> QED BY <1>11, <1>12, <1>13, <1>14, <1>15

LEMMA GetFaceInv ==
  ASSUME GraphInv, NEW s \in 0..last, NEW n \in Faces, GetFace(s, n)
  PROVE  GraphInv'
<1> USE DEF GraphInv, Shaped, History
<1> DEFINE src == Find(s, n)
           ns == {Name(x) : x \in corners[src]}
           new == CornersFor(s, src)
           f == New(s, n)
<1>1. /\ UNCHANGED <<last, parent, ends, dead, torn, lost, edits>>
      /\ nodes' = NodesWith(s, ns) /\ connectedEdges' = ListsWith(s, ns)
      /\ corners' = Add(corners, f, new)
      /\ Missing(s, n) /\ src \notin torn /\ Fresh(s, n) # {}
  BY DEF GetFace
<1>2. src \in DOMAIN corners /\ ns \in SUBSET Nodes /\ \A m \in ns : Find(s, m) # None
  BY <1>1, Source
<1>15. Name(src) = n /\ Sys(src) \in Predecessors[s]
  BY <1>1, Source
<1>3. s \in Systems
  BY SystemAssumption DEF TypeOK, Systems
<1>4. f \in Objects(Faces) /\ f \notin Living \cup dead /\ Sys(f) = s /\ Name(f) = n
  BY <1>1, <1>3, NewWorks
<1>5. new = {Node(s, m) : m \in ns} /\ ns # {}
  <2>1. new = {Node(s, m) : m \in ns}
    BY DEF CornersFor, Resolved
  <2>2. corners[src] # {}
    BY <1>2 DEF TypeOK
  <2> QED BY <2>1, <2>2
<1>6. /\ new # {} /\ new \subseteq Objects(Nodes)
      /\ \A x \in new : x \in nodes' /\ Sys(x) = s
  <2>1. \A m \in ns : Node(s, m) \in nodes'
    BY <1>1, <1>2, CopiedNodes
  <2>2. \A m \in ns : Node(s, m) \in Objects(Nodes) /\ Sys(Node(s, m)) = s
    BY <1>2, <1>3, Typed
  <2> QED BY <1>5, <2>1, <2>2
<1> HIDE DEF ns, new, f
<1>7. /\ nodes \subseteq nodes'
      /\ connectedEdges' \in [nodes' -> SUBSET Objects(Edges)]
      /\ \A x \in nodes : connectedEdges'[x] = connectedEdges[x]
  BY <1>1, <1>2, CopiedNodes
<1>8. ASSUME NEW x \in nodes' \ nodes
      PROVE  /\ Sys(x) = s
             /\ \A d \in DOMAIN ends : x \notin {ends[d].start, ends[d].end}
             /\ \A d \in connectedEdges'[x] :
                  \/ d \in dead
                  \/ /\ d \in DOMAIN ends /\ Sys(d) \in Predecessors[s]
                     /\ Name(x) \in {Name(ends[d].start), Name(ends[d].end)}
  BY <1>1, <1>2, CopiedNodes
<1>9. /\ DOMAIN corners' = DOMAIN corners \cup {f} /\ corners'[f] = new
      /\ \A g \in DOMAIN corners : corners'[g] = corners[g] /\ g # f
      /\ Living' = Living \cup nodes' \cup {f}
  <2>1. f \notin DOMAIN corners
    BY <1>4 DEF Living
  <2>2. /\ DOMAIN corners' = DOMAIN corners \cup {f} /\ corners'[f] = new
        /\ \A g \in DOMAIN corners : g # f => corners'[g] = corners[g]
    BY <1>1 DEF Add
  <2> QED BY <1>1, <1>7, <2>1, <2>2 DEF Living
<1>10. /\ TreeOK' /\ Predecessors' = Predecessors
       /\ AllPlaced' /\ NodesPlain' /\ NamesDistinct' /\ NameGone'
       /\ nodes' \subseteq Objects(Nodes) /\ dead' \subseteq Objects(Names) \ Living'
  <2> DEFINE C == {f}
  <2>1. \A c \in C : /\ c \notin Living \cup dead /\ Sys(c) = s
                     /\ c \in Objects(Names) /\ Name(c) \notin Nodes
                     /\ Here(s, Name(c)) = {} /\ C = {c}
    <3>1. f \in Objects(Names)
      BY <1>4 DEF Objects, Names
    <3> QED BY <1>1, <1>4, <3>1, NameAssumption DEF Missing
  <2>2. Living' = Living \cup nodes' \cup C
    BY <1>9
  <2> HIDE DEF C
  <2> QED BY <1>1, <1>2, <2>1, <2>2, CopiesPlaced
<1>11. TypeOK'
  <2>1. DOMAIN corners' \subseteq Objects(Faces)
        /\ \A g \in DOMAIN corners' : corners'[g] \in (SUBSET Objects(Nodes)) \ {{}}
    <3>1. \A g \in DOMAIN corners : corners[g] \in (SUBSET Objects(Nodes)) \ {{}}
      BY DEF TypeOK
    <3>2. new \in (SUBSET Objects(Nodes)) \ {{}}
      BY <1>6
    <3>3. DOMAIN corners \subseteq Objects(Faces)
      BY DEF TypeOK
    <3> QED BY <1>4, <1>9, <3>1, <3>2, <3>3
  <2>2. torn' \subseteq Living'
    BY <1>1, <1>9 DEF TypeOK
  <2> QED BY <1>1, <1>7, <1>10, <2>1, <2>2 DEF TypeOK
<1>12. EndsKnown' /\ TornKnown'
  BY <1>1, <1>7, <1>9 DEF EndsKnown, TornKnown
<1>13. EndsAtHome'
  <2>1. EdgesAtHome'
    BY <1>1, <1>7 DEF EndsAtHome, EdgesAtHome, Home
  <2>2. \A t : Home(t) \subseteq Home(t)' /\ Visible(t) \subseteq Visible(t)'
              /\ Home(t)' \subseteq Visible(t)'
    BY <1>7, <1>10 DEF Home, Visible
  <2>3. \A g \in DOMAIN corners : Copied(g)' => Copied(g)
    <3> SUFFICES ASSUME NEW g \in DOMAIN corners, Name(g) = n, s \in Predecessors[Sys(g)]
                 PROVE  Sys(src) \in Predecessors[Sys(g)]
      BY <1>2, <1>4, <1>9, <1>10, <1>15 DEF Copied
    <3>1. Sys(g) \in Systems
      BY Kinds DEF Living
    <3>2. s \in Up(Sys(g)) /\ s # Sys(g)
      BY <3>1, PredecessorsUp
    <3>3. Sys(src) \in Up(s) /\ Sys(src) # s /\ Sys(src) <= s /\ s <= Sys(g)
      BY <1>3, <1>15, <3>1, <3>2, PredecessorsUp
    <3>4. Sys(src) \in Up(Sys(g))
      BY <3>1, <3>2, <3>3, LineageTransitive DEF TreeOK, Up
    <3>5. Sys(src) \in Nat /\ s \in Nat /\ Sys(g) \in Nat
      BY <1>2, <1>3, <3>1, Kinds, SystemAssumption DEF Living, Systems
    <3>6. Sys(src) # Sys(g)
      BY <3>2, <3>3, <3>5
    <3> QED BY <3>1, <3>4, <3>6, PredecessorsUp
  <2>4. ASSUME NEW g \in DOMAIN corners' \ torn'
        PROVE  corners'[g] \subseteq IF Copied(g)' THEN Home(Sys(g))' ELSE Visible(Sys(g))'
    <3>1. CASE g = f
      <4>1. corners'[f] \subseteq Home(s)'
        BY <1>6, <1>9 DEF Home
      <4> QED BY <1>4, <2>2, <3>1, <4>1
    <3>2. CASE g # f
      <4>1. g \in DOMAIN corners \ torn /\ corners'[g] = corners[g]
        BY <1>1, <1>9, <3>2
      <4>2. corners[g] \subseteq IF Copied(g) THEN Home(Sys(g)) ELSE Visible(Sys(g))
        BY <4>1 DEF EndsAtHome
      <4>3. Home(Sys(g)) \subseteq Visible(Sys(g))
        BY DEF Home, Visible
      <4> QED BY <2>2, <2>3, <4>1, <4>2, <4>3
    <3> QED BY <3>1, <3>2
  <2> QED BY <2>1, <2>4 DEF EndsAtHome, EdgesAtHome
<1>14. EdgesListed'
  BY <1>1, <1>7, <1>8, <1>10 DEF EdgesListed
<1> QED BY <1>10, <1>11, <1>12, <1>13, <1>14

-----------------------------------------------------------------------------
(* What modules move and remove *)

LEMMA MoveEndInv ==
  ASSUME GraphInv, NEW s \in 0..last, NEW n \in Edges, NEW side \in {"start", "end"},
         NEW x \in Home(s), MoveEnd(s, n, side, x)
  PROVE  GraphInv'
<1> USE DEF GraphInv, Shaped, History
<1> DEFINE e == Find(s, n)
           old == ends[e][side]
           kept == IF side = "start" THEN ends[e].end ELSE ends[e].start
           both == ends'[e]
<1>1. /\ UNCHANGED <<last, parent, nodes, corners, dead, torn>>
      /\ ends' = [ends EXCEPT ![e][side] = x]
      /\ connectedEdges' = Listed(Unlisted(connectedEdges, e, old), e, x)
      /\ lost' = (lost \ {<<e, old>>, <<e, x>>})
                   \cup (IF ends[e].start = ends[e].end /\ x # old THEN {<<e, old>>} ELSE {})
      /\ Leaf(s) /\ Here(s, n) # {} /\ e \notin torn /\ Edit
  BY DEF MoveEnd
<1>2. TreeOK' /\ Predecessors' = Predecessors /\ \A t : Up(t)' = Up(t)
  BY <1>1, SameTree
<1>3. s \in Systems
  BY SystemAssumption DEF TypeOK, Systems
<1>4. e \in DOMAIN ends /\ e \notin dead /\ Sys(e) = s /\ e \in Objects(Edges)
  <2>1. e \in Living /\ Sys(e) = s /\ Name(e) = n
    BY <1>1, <1>3, FindHere DEF Here
  <2> QED BY <2>1, Kinds DEF TypeOK
<1>5. /\ ends[e] \in [start : Objects(Nodes), end : Objects(Nodes)]
      /\ {ends[e].start, ends[e].end} \subseteq Home(s)
  BY <1>1, <1>4 DEF TypeOK, EndsAtHome
<1>6. /\ old \in Home(s) /\ kept \in Home(s) /\ {ends[e].start, ends[e].end} = {old, kept}
      /\ x \in nodes /\ old \in nodes /\ kept \in nodes /\ Sys(x) = s /\ Sys(kept) = s
      /\ Sys(old) = s /\ x \in Objects(Nodes)
  <2>1. \A y \in Home(s) : y \in nodes /\ Sys(y) = s /\ y \in Objects(Nodes)
    BY DEF Home, TypeOK
  <2>2. old \in Home(s) /\ kept \in Home(s) /\ {ends[e].start, ends[e].end} = {old, kept}
    BY <1>5
  <2> QED BY <2>1, <2>2
<1>7. /\ DOMAIN ends' = DOMAIN ends
      /\ \A d \in DOMAIN ends : d # e => ends'[d] = ends[d]
      /\ both \in [start : Objects(Nodes), end : Objects(Nodes)]
      /\ {both.start, both.end} = {x, kept}
  <2>1. /\ DOMAIN ends' = DOMAIN ends
        /\ \A d \in DOMAIN ends : d # e => ends'[d] = ends[d]
        /\ both = [ends[e] EXCEPT ![side] = x]
    BY <1>1, <1>4
  <2>2. CASE side = "start"
    BY <1>5, <1>6, <2>1, <2>2
  <2>3. CASE side = "end"
    BY <1>5, <1>6, <2>1, <2>3
  <2> QED BY <2>1, <2>2, <2>3
<1> HIDE DEF e, old, kept
<1>8. /\ connectedEdges' \in [nodes -> SUBSET Objects(Edges)]
      /\ e \in connectedEdges'[x]
      /\ \A y \in nodes : y # x => connectedEdges'[y] =
           IF y = old THEN connectedEdges[y] \ {e} ELSE connectedEdges[y]
      /\ \A y \in nodes : \A d : d # e => (d \in connectedEdges'[y] <=> d \in connectedEdges[y])
  BY <1>1, <1>4, <1>6 DEF TypeOK, Listed, Unlisted
<1>9. Living' = Living
  BY <1>1, <1>7 DEF Living
<1>10. TypeOK'
  <2>1. \A d \in DOMAIN ends' : ends'[d] \in [start : Objects(Nodes), end : Objects(Nodes)]
    BY <1>7 DEF TypeOK
  <2>2. lost' \subseteq Objects(Edges) \X Objects(Nodes)
    BY <1>1, <1>4, <1>6 DEF TypeOK
  <2>3. edits' \in 0..MaxEdits
    BY <1>1, CopyAssumption DEF Edit, TypeOK
  <2> QED BY <1>1, <1>7, <1>8, <1>9, <2>1, <2>2, <2>3 DEF TypeOK
<1>11. AllPlaced' /\ NodesPlain' /\ NamesDistinct' /\ NameGone'
  BY <1>1, <1>2, <1>9 DEF AllPlaced, NodesPlain, NamesDistinct, NameGone
<1>12. EndsKnown' /\ TornKnown'
  BY <1>1, <1>4, <1>6, <1>7 DEF EndsKnown, TornKnown
<1>13. EndsAtHome'
  <2>1. EdgesAtHome'
    BY <1>1, <1>4, <1>6, <1>7 DEF EndsAtHome, EdgesAtHome, Home
  <2>2. FacesAtHome'
    BY <1>1, <1>2, FacesStay
  <2> QED BY <2>1, <2>2 DEF EndsAtHome, EdgesAtHome, FacesAtHome
<1>14. EdgesListed'
  <2>1. ASSUME NEW d \in DOMAIN ends', NEW y \in {ends'[d].start, ends'[d].end} \cap nodes'
        PROVE  d \in connectedEdges'[y] \/ <<d, y>> \in lost'
    <3>1. CASE d # e
      BY <1>1, <1>7, <1>8, <2>1, <3>1 DEF EdgesListed
    <3>2. CASE d = e /\ y = x
      BY <1>8, <3>2
    <3>3. CASE d = e /\ y # x /\ y = old
      <4>1. kept = old
        BY <1>7, <2>1, <3>3
      <4> QED BY <1>1, <1>6, <3>3, <4>1
    <3>4. CASE d = e /\ y # x /\ y # old
      <4>1. y = kept /\ y \in nodes
        BY <1>6, <1>7, <2>1, <3>4
      <4>2. e \in connectedEdges[y] \/ <<e, y>> \in lost
        BY <1>4, <1>6, <4>1 DEF EdgesListed
      <4> QED BY <1>1, <1>8, <3>4, <4>1, <4>2
    <3> QED BY <3>1, <3>2, <3>3, <3>4
  <2>2. ASSUME NEW y \in nodes', NEW d \in connectedEdges'[y]
        PROVE  \/ d \in dead'
               \/ d \in DOMAIN ends' /\ y \in {ends'[d].start, ends'[d].end}
               \/ /\ d \in DOMAIN ends' /\ Sys(d) \in Predecessors'[Sys(y)]
                  /\ Name(y) \in {Name(ends'[d].start), Name(ends'[d].end)}
    <3>1. CASE d # e
      BY <1>1, <1>2, <1>7, <1>8, <2>2, <3>1 DEF EdgesListed
    <3>2. CASE d = e /\ y = x
      BY <1>4, <1>7, <3>2
    <3>3. CASE d = e /\ y # x
      <4>1. y # old /\ e \in connectedEdges[y]
        BY <1>1, <1>8, <2>2, <3>3
      <4>2. Sys(y) \in Systems /\ y \in nodes
        <5>1. y \in nodes /\ y \in Living
          BY <1>1, <2>2 DEF Living
        <5> QED BY <5>1, Kinds
      <4>3. Sys(e) \notin Predecessors[Sys(y)]
        <5>1. CASE Sys(y) = s
          BY <1>3, <1>4, <5>1, PredecessorsUp
        <5>2. CASE Sys(y) # s
          BY <1>1, <1>3, <1>4, <4>2, <5>2, PredecessorsUp, LeafFacts
        <5> QED BY <5>1, <5>2
      <4>4. y \in {old, kept}
        BY <1>4, <1>6, <4>1, <4>2, <4>3 DEF EdgesListed
      <4> QED BY <1>4, <1>7, <3>3, <4>1, <4>4
    <3> QED BY <3>1, <3>2, <3>3
  <2> QED BY <2>1, <2>2 DEF EdgesListed
<1> QED BY <1>2, <1>10, <1>11, <1>12, <1>13, <1>14

(* A node that goes, with edges that end at it: what is said of the rest   *)
(* stays true.  missed are edges that stay although they end at it.        *)
LEMMA DeleteNodeInv ==
  ASSUME GraphInv, NEW s \in 0..last, NEW n \in Nodes, OwnNode(s, n),
         NEW es \in SUBSET Connected(s, Node(s, n)),
         DeleteNode(Node(s, n), es, Connected(s, Node(s, n)) \ es),
         es \cap torn = {}
  PROVE  GraphInv'
<1> USE DEF GraphInv, Shaped, History
<1> DEFINE x == Node(s, n)
           missed == Connected(s, x) \ es
<1>1. /\ nodes' = nodes \ {x} /\ connectedEdges' = Without(connectedEdges, {x})
      /\ ends' = Without(ends, es) /\ dead' = dead \cup es \cup {x}
      /\ torn' = torn \cup missed \cup OnFace(Sys(x), x)
      /\ Edit /\ UNCHANGED <<last, parent, corners, lost>>
      /\ Leaf(s) /\ Here(s, n) # {}
      /\ Derived(s) => Find(parent[s], n) = None
  BY DEF DeleteNode, Erased, OwnNode
<1>2. TreeOK' /\ Predecessors' = Predecessors /\ \A t : Up(t)' = Up(t)
  BY <1>1, SameTree
<1>3. s \in Systems
  BY SystemAssumption DEF TypeOK, Systems
<1>4. x \in Objects(Nodes) /\ Sys(x) = s /\ Name(x) = n
  BY <1>3, Typed
<1>5. x \in nodes /\ \A o \in Living : Sys(o) = s /\ Name(o) = n => o = x
  <2>1. \A o \in Living : Sys(o) = s /\ Name(o) = n => o \in nodes /\ o = x
    BY Kinds DEF NodesPlain
  <2> QED BY <1>1, <2>1 DEF Here
<1>6. /\ es \subseteq DOMAIN ends /\ \A e \in es : Sys(e) = s
      /\ \A e \in DOMAIN ends \ es : x \in {ends[e].start, ends[e].end} => e \in missed
      /\ missed \subseteq DOMAIN ends \ es
  <2>1. \A e \in DOMAIN ends : x \in {ends[e].start, ends[e].end} => e \in Connected(s, x)
    BY <1>4 DEF Connected, EndsKnown
  <2> QED BY <2>1 DEF Connected
<1>7. x \notin DOMAIN ends /\ x \notin DOMAIN corners
  BY <1>4, <1>5, Kinds, NameAssumption DEF Living
<1>8. \A e \in DOMAIN ends : e \notin DOMAIN corners /\ e \notin nodes
  BY Kinds, NameAssumption DEF Living
<1> HIDE DEF x, missed
<1>9. /\ DOMAIN ends' = DOMAIN ends \ es /\ \A e \in DOMAIN ends' : ends'[e] = ends[e]
      /\ connectedEdges' \in [nodes' -> SUBSET Objects(Edges)]
      /\ \A y \in nodes' : connectedEdges'[y] = connectedEdges[y]
  BY <1>1 DEF Without, TypeOK
<1>10. Living' = Living \ (es \cup {x}) /\ es \subseteq Living /\ x \in Living
  BY <1>1, <1>5, <1>6, <1>7, <1>8, <1>9 DEF Living
<1>11. TornKnown'
  BY <1>1, <1>6, <1>9 DEF TornKnown, OnFace
<1>12. TypeOK'
  <2>1. es \cup {x} \subseteq Objects(Names)
    BY <1>10, Kinds
  <2>2. dead' \subseteq Objects(Names) \ Living'
    BY <1>1, <1>10, <2>1 DEF TypeOK
  <2>3. torn' \subseteq Living'
    BY <1>11 DEF TornKnown, Living
  <2>4. edits' \in 0..MaxEdits
    BY <1>1, CopyAssumption DEF Edit, TypeOK
  <2> QED BY <1>1, <1>9, <2>2, <2>3, <2>4 DEF TypeOK
<1>13. AllPlaced' /\ NodesPlain' /\ NamesDistinct'
  BY <1>1, <1>10 DEF AllPlaced, NodesPlain, NamesDistinct
<1>14. EndsKnown'
  BY <1>1, <1>9 DEF EndsKnown
<1>15. NameGone'
  <2> SUFFICES ASSUME NEW y \in dead', Name(y) \in Nodes, NEW o \in Living', Name(o) = Name(y)
               PROVE  Sys(o) \notin Up(Sys(y))
    BY <1>2 DEF NameGone
  <2>1. o \in Living /\ o # x
    BY <1>10
  <2>2. CASE y \in dead
    BY <2>1, <2>2 DEF NameGone
  <2>3. CASE y \in es
    BY <1>6, <1>10, <2>3, Kinds, NameAssumption DEF Living
  <2>4. CASE y = x
    <3>1. Sys(o) # s /\ Sys(o) \in Systems
      BY <1>4, <1>5, <2>1, <2>4, Kinds
    <3>2. Up(s) = {s} \cup (IF parent[s] # None THEN Up(parent[s]) ELSE {})
      BY <1>3, LineageUnfolds DEF TreeOK, Up
    <3>3. parent[s] # None => parent[s] \in Systems
      BY <1>3 DEF TypeOK
    <3>4. parent[s] # None => Sys(o) \notin Up(parent[s])
      BY <1>1, <1>4, <2>1, <2>4, <3>3, FindWorks DEF Derived
    <3> QED BY <1>4, <2>4, <3>1, <3>2, <3>4
  <2> QED BY <1>1, <2>2, <2>3, <2>4
<1>16. EndsAtHome'
  <2>1. ASSUME NEW e \in DOMAIN ends' \ torn'
        PROVE  {ends'[e].start, ends'[e].end} \subseteq Home(Sys(e))'
    <3>1. e \in DOMAIN ends \ torn /\ e \notin missed /\ e \notin es
      BY <1>1, <1>9
    <3>2. {ends[e].start, ends[e].end} \subseteq Home(Sys(e)) /\ x \notin {ends[e].start, ends[e].end}
      BY <1>6, <3>1 DEF EndsAtHome
    <3> QED BY <1>1, <1>9, <3>2 DEF Home
  <2>2. ASSUME NEW f \in DOMAIN corners' \ torn'
        PROVE  corners'[f] \subseteq IF Copied(f)' THEN Home(Sys(f))' ELSE Visible(Sys(f))'
    <3>1. f \in DOMAIN corners \ torn /\ f \notin OnFace(Sys(x), x) /\ Sys(f) \in Systems
      BY <1>1, Kinds DEF Living
    <3>2. corners[f] \subseteq IF Copied(f) THEN Home(Sys(f)) ELSE Visible(Sys(f))
      BY <3>1 DEF EndsAtHome
    <3>3. x \in corners[f] => s \in {Sys(f)} \cup Predecessors[Sys(f)]
      BY <1>4, <3>2 DEF Home, Visible
    <3>4. s \notin Predecessors[Sys(f)]
      <4>1. CASE Sys(f) = s
        BY <1>3, <4>1, PredecessorsUp
      <4>2. CASE Sys(f) # s
        BY <1>1, <1>3, <3>1, <4>2, PredecessorsUp, LeafFacts
      <4> QED BY <4>1, <4>2
    <3>5. x \notin corners[f]
      BY <1>4, <3>1, <3>3, <3>4 DEF OnFace
    <3>6. Copied(f)' = Copied(f)
      BY <1>1, <1>2 DEF Copied
    <3> QED BY <1>1, <1>2, <3>2, <3>5, <3>6 DEF Home, Visible
  <2> QED BY <2>1, <2>2 DEF EndsAtHome
<1>17. EdgesListed'
  BY <1>1, <1>2, <1>9 DEF EdgesListed
<1> QED BY <1>2, <1>11, <1>12, <1>13, <1>14, <1>15, <1>16, <1>17

LEMMA RemoveNodeInv ==
  ASSUME GraphInv, NEW s \in 0..last, NEW n \in Nodes, NEW missed \in SUBSET DOMAIN ends,
         RemoveNode(s, n, missed)
  PROVE  GraphInv'
<1> DEFINE x == Node(s, n)
           es == Connected(s, x) \ missed
<1>1. /\ OwnNode(s, n) /\ missed \subseteq Connected(s, x) /\ DeleteNode(x, es, missed)
      /\ \A e \in torn \cap DOMAIN ends : Sys(e) # s
  BY DEF RemoveNode
<1>2. es \cap torn = {}
  BY <1>1 DEF Connected
<1>3. missed = Connected(s, x) \ es /\ es \in SUBSET Connected(s, x)
  BY <1>1
<1> HIDE DEF es
<1> QED BY <1>1, <1>2, <1>3, DeleteNodeInv

LEMMA RemoveComponentInv ==
  ASSUME GraphInv, NEW s \in 0..last, NEW n \in Nodes, RemoveComponent(s, n)
  PROVE  GraphInv'
<1> DEFINE es == {}
<1>1. /\ OwnNode(s, n)
      /\ DeleteNode(Node(s, n), es, Connected(s, Node(s, n)) \ es)
  BY DEF RemoveComponent
<1>2. es \in SUBSET Connected(s, Node(s, n)) /\ es \cap torn = {}
  OBVIOUS
<1> HIDE DEF es
<1> QED BY <1>1, <1>2, DeleteNodeInv

LEMMA RemoveEdgeOrFaceInv ==
  ASSUME GraphInv, NEW s \in 0..last, NEW n \in Edges \cup Faces, RemoveEdgeOrFace(s, n)
  PROVE  GraphInv'
<1> USE DEF GraphInv, Shaped, History
<1> DEFINE o == Find(s, n)
<1>1. /\ Leaf(s) /\ Here(s, n) # {} /\ Edit
      /\ ends' = Without(ends, {o}) /\ corners' = Without(corners, {o})
      /\ dead' = dead \cup {o} /\ torn' = torn \ {o}
      /\ UNCHANGED <<last, parent, nodes, connectedEdges, lost>>
  BY DEF RemoveEdgeOrFace, Erased
<1>2. TreeOK' /\ Predecessors' = Predecessors /\ \A t : Up(t)' = Up(t)
  BY <1>1, SameTree
<1>3. s \in Systems
  BY SystemAssumption DEF TypeOK, Systems
<1>4. o \in Living /\ Sys(o) = s /\ Name(o) = n
  BY <1>1, <1>3, FindHere DEF Here
<1>5. o \notin nodes /\ o \in Objects(Names) /\ n \notin Nodes
  BY <1>4, Kinds, NameAssumption
<1> HIDE DEF o
<1>6. /\ DOMAIN ends' = DOMAIN ends \ {o} /\ \A e \in DOMAIN ends' : ends'[e] = ends[e]
      /\ DOMAIN corners' = DOMAIN corners \ {o} /\ \A f \in DOMAIN corners' : corners'[f] = corners[f]
  BY <1>1 DEF Without
<1>7. Living' = Living \ {o}
  BY <1>1, <1>5, <1>6 DEF Living
<1>8. TypeOK'
  <2>1. edits' \in 0..MaxEdits
    BY <1>1, CopyAssumption DEF Edit, TypeOK
  <2>2. dead' \subseteq Objects(Names) \ Living' /\ torn' \subseteq Living'
    BY <1>1, <1>5, <1>7 DEF TypeOK
  <2> QED BY <1>1, <1>6, <2>1, <2>2 DEF TypeOK
<1>9. AllPlaced' /\ NodesPlain' /\ NamesDistinct'
  BY <1>1, <1>4, <1>7 DEF AllPlaced, NodesPlain, NamesDistinct
<1>10. EndsKnown' /\ TornKnown'
  <2>1. EndsKnown'
    <3> SUFFICES ASSUME NEW e \in DOMAIN ends', NEW x \in {ends'[e].start, ends'[e].end}
                 PROVE  Sys(x) = Sys(e) /\ x \in nodes' \cup dead'
      BY DEF EndsKnown
    <3>1. e \in DOMAIN ends /\ x \in {ends[e].start, ends[e].end}
      BY <1>6
    <3> QED BY <1>1, <3>1 DEF EndsKnown
  <2>2. TornKnown'
    BY <1>1, <1>6 DEF TornKnown
  <2> QED BY <2>1, <2>2
<1>11. NameGone'
  BY <1>1, <1>2, <1>4, <1>5, <1>7 DEF NameGone
<1>12. EndsAtHome'
  <2>1. \A e \in DOMAIN ends' \ torn' : {ends'[e].start, ends'[e].end} \subseteq Home(Sys(e))'
    <3> SUFFICES ASSUME NEW e \in DOMAIN ends' \ torn'
                 PROVE  {ends'[e].start, ends'[e].end} \subseteq Home(Sys(e))'
      OBVIOUS
    <3>1. e \in DOMAIN ends \ torn /\ ends'[e] = ends[e]
      BY <1>1, <1>6
    <3> QED BY <1>1, <3>1 DEF EndsAtHome, Home
  <2>2. ASSUME NEW f \in DOMAIN corners' \ torn'
        PROVE  corners'[f] \subseteq IF Copied(f)' THEN Home(Sys(f))' ELSE Visible(Sys(f))'
    <3>1. f \in DOMAIN corners \ torn /\ corners'[f] = corners[f]
      BY <1>1, <1>6
    <3>2. corners[f] \subseteq IF Copied(f) THEN Home(Sys(f)) ELSE Visible(Sys(f))
      BY <3>1 DEF EndsAtHome
    <3>3. Copied(f)' => Copied(f)
      BY <1>2, <1>6 DEF Copied
    <3>4. /\ Home(Sys(f))' = Home(Sys(f)) /\ Visible(Sys(f))' = Visible(Sys(f))
          /\ Home(Sys(f)) \subseteq Visible(Sys(f))
      BY <1>1, <1>2 DEF Home, Visible
    <3> QED BY <3>1, <3>2, <3>3, <3>4
  <2> QED BY <2>1, <2>2 DEF EndsAtHome
<1>13. EdgesListed'
  BY <1>1, <1>2, <1>6 DEF EdgesListed
<1> QED BY <1>2, <1>8, <1>9, <1>10, <1>11, <1>12, <1>13

LEMMA NextGraphInv == GraphInv /\ [Next]_vars => GraphInv'
<1> SUFFICES ASSUME GraphInv, [Next]_vars PROVE GraphInv'
  OBVIOUS
<1>1. CASE UNCHANGED vars
  <2>1. TreeOK' /\ Predecessors' = Predecessors /\ \A t : Up(t)' = Up(t)
    BY <1>1, SameTree DEF vars, GraphInv, Shaped
  <2>2. UNCHANGED <<last, parent, nodes, ends, corners, connectedEdges, dead, torn, lost, edits>>
    BY <1>1 DEF vars, graph
  <2>3. Living' = Living
    BY <2>2 DEF Living
  <2>4. TypeOK' /\ AllPlaced' /\ NodesPlain' /\ NamesDistinct'
    BY <2>2, <2>3 DEF GraphInv, Shaped, TypeOK, AllPlaced, NodesPlain, NamesDistinct
  <2>5. EndsKnown' /\ TornKnown' /\ NameGone' /\ EdgesListed'
    BY <2>1, <2>2, <2>3 DEF GraphInv, History, EndsKnown, TornKnown, NameGone, EdgesListed
  <2>6. EndsAtHome'
    BY <2>1, <2>2, EndsStay DEF GraphInv
  <2> QED BY <2>1, <2>4, <2>5, <2>6 DEF GraphInv, Shaped, History
<1>2. ASSUME NEW s \in 0..last, CreateSuccessor(s) PROVE GraphInv'
  BY <1>2, CreateSuccessorInv
<1>3. ASSUME NEW s \in 0..last, NEW n \in Nodes, AddNode(s, n) PROVE GraphInv'
  BY <1>3, AddNodeInv
<1>4. ASSUME NEW s \in 0..last, NEW n \in Nodes, GetNode(s, n) PROVE GraphInv'
  BY <1>4, GetNodeInv
<1>5. ASSUME NEW s \in 0..last, NEW n \in Nodes, NEW missed \in SUBSET DOMAIN ends,
             RemoveNode(s, n, missed)
      PROVE  GraphInv'
  BY <1>5, RemoveNodeInv
<1>6. ASSUME NEW s \in 0..last, NEW n \in Nodes, RemoveComponent(s, n) PROVE GraphInv'
  BY <1>6, RemoveComponentInv
<1>7. ASSUME NEW s \in 0..last, NEW n \in Edges, NEW a \in nodes, NEW b \in nodes,
             AddEdge(s, n, a, b)
      PROVE  GraphInv'
  BY <1>7, AddEdgeInv
<1>8. ASSUME NEW s \in 0..last, NEW n \in Edges, GetEdge(s, n) PROVE GraphInv'
  BY <1>8, GetEdgeInv
<1>9. ASSUME NEW s \in 0..last, NEW n \in Edges, NEW side \in {"start", "end"},
             NEW x \in Home(s), MoveEnd(s, n, side, x)
      PROVE  GraphInv'
  BY <1>9, MoveEndInv
<1>10. ASSUME NEW s \in 0..last, NEW n \in Faces, NEW xs \in (SUBSET Visible(s)) \ {{}},
              AddFace(s, n, xs)
       PROVE  GraphInv'
  BY <1>10, AddFaceInv
<1>11. ASSUME NEW s \in 0..last, NEW n \in Faces, GetFace(s, n) PROVE GraphInv'
  BY <1>11, GetFaceInv
<1>12. ASSUME NEW s \in 0..last, NEW n \in Edges \cup Faces, RemoveEdgeOrFace(s, n) PROVE GraphInv'
  BY <1>12, RemoveEdgeOrFaceInv
<1> QED BY <1>1, <1>2, <1>3, <1>4, <1>5, <1>6, <1>7, <1>8, <1>9, <1>10, <1>11, <1>12 DEF Next

(* The invariant of SystemGraph holds through any series of copies, moves  *)
(* and removals in any tree of systems.                                    *)
THEOREM SpecGraphInv == Spec => []GraphInv
BY InitGraphInv, NextGraphInv, PTL DEF Spec

(* Objects, ends, corners and lists keep their types: no list or end names *)
(* what was never created.                                                 *)
THEOREM SpecTypeOK == Spec => []TypeOK
<1>1. GraphInv => TypeOK
  BY DEF GraphInv, Shaped
<1> QED BY <1>1, SpecGraphInv, PTL

(* A node lists every edge that ends at it, however edges and nodes were   *)
(* copied into successors, moved and removed; what it lists besides was    *)
(* deleted, or is an edge of a predecessor.                                *)
THEOREM SpecEdgesListed == Spec => []EdgesListed
<1>1. GraphInv => EdgesListed
  BY DEF GraphInv
<1> QED BY <1>1, SpecGraphInv, PTL

(* An edge or face that is copied late finds its nodes in its own system,  *)
(* so no graph ends in the nodes of another one or in deleted nodes,       *)
(* unless a node was deleted under it.                                     *)
THEOREM SpecEndsAtHome == Spec => []EndsAtHome
<1>1. GraphInv => EndsAtHome
  BY DEF GraphInv
<1> QED BY <1>1, SpecGraphInv, PTL

-----------------------------------------------------------------------------
(* A step and what the systems read *)

(* What FindWorks says, as a formula that holds after a step as well.      *)
FindSpec ==
  \A s \in Systems, n \in Names :
    /\ Find(s, n) = None <=> \A o \in Living : Name(o) = n => Sys(o) \notin Up(s)
    /\ Find(s, n) # None =>
         /\ Find(s, n) \in Living
         /\ Name(Find(s, n)) = n /\ Sys(Find(s, n)) \in Up(s)
         /\ \A o \in Living : Name(o) = n /\ Sys(o) \in Up(s) => Sys(o) <= Sys(Find(s, n))
ShapeSpec ==
  /\ Shape(None) = None
  /\ \A o \in Living : Sys(o) \in Systems /\ Name(o) \in Names
  /\ \A o \in nodes : Shape(o) = {}
  /\ \A o \in DOMAIN ends :
       Shape(o) = {<<"start", Name(ends[o].start)>>, <<"end", Name(ends[o].end)>>}
  /\ \A o \in DOMAIN corners : Shape(o) = {<<"corner", Name(x)>> : x \in corners[o]}
LEMMA ReadsWork == GraphInv => FindSpec /\ ShapeSpec /\ NamesDistinct
<1> SUFFICES ASSUME GraphInv PROVE FindSpec /\ ShapeSpec /\ NamesDistinct
  OBVIOUS
<1> USE DEF GraphInv, Shaped
<1>1. FindSpec
  BY FindWorks DEF FindSpec
<1>2. None \notin Living /\ \A o \in Living : Sys(o) \in Systems /\ Name(o) \in Names
  BY Kinds
<1>3. /\ \A o \in DOMAIN ends : o \notin nodes /\ o \notin DOMAIN corners
      /\ \A o \in DOMAIN corners : o \notin nodes
  BY Kinds, NameAssumption DEF Living
<1>4. ShapeSpec
  BY <1>2, <1>3 DEF ShapeSpec, Shape, Living
<1> QED BY <1>1, <1>4
LEMMA ReadsWorkNext == GraphInv' => FindSpec' /\ ShapeSpec' /\ NamesDistinct'
BY ReadsWork, PTL

(* Copies have names of their own in their system and look like what was   *)
(* found before: nobody reads anything else.                               *)
LEMMA CopiesUnread ==
  ASSUME GraphInv, GraphInv', UNCHANGED <<last, parent>>, NEW s \in 0..last,
         Living \subseteq Living', \A o \in Living : Shape(o)' = Shape(o),
         \A o \in Living' \ Living :
           /\ Sys(o) = s /\ Find(s, Name(o)) # None
           /\ Shape(o)' = Shape(Find(s, Name(o)))
  PROVE  \A t \in 0..last : Reads(t)' = Reads(t)
<1>1. FindSpec /\ ShapeSpec /\ NamesDistinct /\ FindSpec' /\ ShapeSpec' /\ NamesDistinct'
  BY ReadsWork, ReadsWorkNext
<1>2. TreeOK /\ \A t : Up(t)' = Up(t)
  BY SameTree DEF GraphInv, Shaped
<1>3. 0..last \subseteq Systems /\ Systems \subseteq Nat
  BY SystemAssumption DEF GraphInv, Shaped, TypeOK, Systems
<1> SUFFICES ASSUME NEW t \in 0..last, NEW n \in Names
             PROVE  Shape(Find(t, n))' = Shape(Find(t, n))
  BY DEF Reads
<1>0. PICK z, z2 : z = Find(t, n) /\ z2 = Find(t, n)'
  OBVIOUS
<1> SUFFICES Shape(z2)' = Shape(z)
  BY <1>0 DEF Shape
<1>4. s \in Systems /\ t \in Systems
  BY <1>3
<1>5. \A o \in Living' : Sys(o) \in Nat
  BY <1>1, <1>3 DEF ShapeSpec
<1>6. /\ z = None <=> \A o \in Living : Name(o) = n => Sys(o) \notin Up(t)
      /\ z # None => /\ z \in Living /\ Name(z) = n /\ Sys(z) \in Up(t)
                     /\ \A o \in Living : Name(o) = n /\ Sys(o) \in Up(t) => Sys(o) <= Sys(z)
  BY <1>0, <1>1, <1>4 DEF FindSpec
<1>7. /\ z2 = None <=> \A o \in Living' : Name(o) = n => Sys(o) \notin Up(t)
      /\ z2 # None => /\ z2 \in Living' /\ Name(z2) = n /\ Sys(z2) \in Up(t)
                      /\ \A o \in Living' : Name(o) = n /\ Sys(o) \in Up(t) => Sys(o) <= Sys(z2)
  BY <1>0, <1>1, <1>2, <1>4 DEF FindSpec
<1>8. \A o, p \in Living' : Sys(o) = Sys(p) /\ Name(o) = Name(p) => o = p
  BY <1>1 DEF NamesDistinct
<1>9. Shape(None) = None /\ Shape(None)' = None
  BY <1>1 DEF ShapeSpec
<1>10. z2 = z => Shape(z2)' = Shape(z)
  BY <1>6, <1>9
<1>11. CASE \A o \in Living' \ Living : ~(Name(o) = n /\ s \in Up(t))
  <2>1. z2 = None <=> z = None
    BY <1>6, <1>7, <1>11
  <2>2. z2 # None => z2 \in Living
    BY <1>7, <1>11
  <2>3. z2 # None => Sys(z2) = Sys(z)
    BY <1>5, <1>6, <1>7, <2>1, <2>2
  <2>4. z2 = z
    BY <1>6, <1>7, <1>8, <2>1, <2>2, <2>3
  <2> QED BY <1>10, <2>4
<1>12. CASE \E o \in Living' \ Living : Name(o) = n /\ s \in Up(t)
  <2>1. PICK o \in Living' \ Living : Name(o) = n /\ s \in Up(t)
    BY <1>12
  <2> DEFINE y == Find(s, n)
  <2>2. /\ Sys(o) = s /\ y # None /\ Shape(o)' = Shape(y)
    BY <2>1
  <2>3. /\ y \in Living /\ Name(y) = n /\ Sys(y) \in Up(s)
        /\ \A p \in Living : Name(p) = n /\ Sys(p) \in Up(s) => Sys(p) <= Sys(y)
    BY <1>1, <1>4, <2>2 DEF FindSpec
  <2>4. Up(s) \subseteq Up(t) /\ \A u \in Up(s) : u <= s
    BY <1>2, <1>4, <2>1, LineageTransitive, LineageOlder DEF TreeOK, Up
  <2> HIDE DEF y
  <2>5. z # None /\ z2 # None /\ Sys(y) <= Sys(z) /\ s <= Sys(z2)
    BY <1>6, <1>7, <2>1, <2>2, <2>3, <2>4
  <2>6. Sys(y) < s
    <3>1. Sys(y) # s
      BY <1>8, <2>1, <2>2, <2>3
    <3> QED BY <1>3, <1>4, <1>5, <2>3, <2>4, <3>1
  <2>7. CASE Sys(z) <= s
    <3>1. Sys(z) \in Up(s)
      BY <1>2, <1>4, <1>6, <2>1, <2>5, <2>7, LineageChain DEF TreeOK, Up
    <3>2. Sys(z) = Sys(y)
      BY <1>5, <1>6, <2>3, <2>5, <3>1
    <3>3. z = y
      BY <1>6, <1>8, <2>3, <2>5, <3>2
    <3>4. z2 \notin Living
      BY <1>3, <1>4, <1>5, <1>6, <1>7, <2>3, <2>5, <2>6, <3>2
    <3>5. z2 = o
      BY <1>7, <1>8, <2>1, <2>2, <2>5, <3>4
    <3> QED BY <2>2, <3>3, <3>5
  <2>8. CASE ~(Sys(z) <= s)
    <3>1. Sys(z) <= Sys(z2)
      BY <1>6, <1>7, <2>5
    <3>2. z2 \in Living
      BY <1>3, <1>4, <1>5, <1>6, <1>7, <2>5, <2>8, <3>1
    <3>3. Sys(z2) = Sys(z)
      BY <1>5, <1>6, <1>7, <2>5, <3>1, <3>2
    <3>4. z2 = z
      BY <1>6, <1>7, <1>8, <2>5, <3>2, <3>3
    <3> QED BY <1>10, <3>4
  <2> QED BY <2>7, <2>8
<1> QED BY <1>11, <1>12

(* What happens in a system without successors is read there only. *)
LEMMA LeafOnly ==
  ASSUME GraphInv, GraphInv', UNCHANGED <<last, parent>>, NEW s \in 0..last, Leaf(s),
         \A o \in Living \cup Living' : Sys(o) # s =>
           o \in Living /\ o \in Living' /\ Shape(o)' = Shape(o)
  PROVE  \A t \in 0..last : t # s => Reads(t)' = Reads(t)
<1>1. FindSpec /\ ShapeSpec /\ NamesDistinct /\ FindSpec' /\ ShapeSpec' /\ NamesDistinct'
  BY ReadsWork, ReadsWorkNext
<1>2. TreeOK /\ \A t : Up(t)' = Up(t)
  BY SameTree DEF GraphInv, Shaped
<1>3. 0..last \subseteq Systems /\ Systems \subseteq Nat
  BY SystemAssumption DEF GraphInv, Shaped, TypeOK, Systems
<1> SUFFICES ASSUME NEW t \in 0..last, t # s, NEW n \in Names
             PROVE  Shape(Find(t, n))' = Shape(Find(t, n))
  BY DEF Reads
<1>0. PICK z, z2 : z = Find(t, n) /\ z2 = Find(t, n)'
  OBVIOUS
<1> SUFFICES Shape(z2)' = Shape(z)
  BY <1>0 DEF Shape
<1>4. s \in Systems /\ t \in Systems
  BY <1>3
<1>5. s \notin Up(t)
  BY <1>2, <1>4, LeafFacts
<1>6. \A o \in Living \cup Living' : Sys(o) \in Nat
  BY <1>1, <1>3 DEF ShapeSpec
<1>7. /\ z = None <=> \A o \in Living : Name(o) = n => Sys(o) \notin Up(t)
      /\ z # None => /\ z \in Living /\ Name(z) = n /\ Sys(z) \in Up(t)
                     /\ \A o \in Living : Name(o) = n /\ Sys(o) \in Up(t) => Sys(o) <= Sys(z)
  BY <1>0, <1>1, <1>4 DEF FindSpec
<1>8. /\ z2 = None <=> \A o \in Living' : Name(o) = n => Sys(o) \notin Up(t)
      /\ z2 # None => /\ z2 \in Living' /\ Name(z2) = n /\ Sys(z2) \in Up(t)
                      /\ \A o \in Living' : Name(o) = n /\ Sys(o) \in Up(t) => Sys(o) <= Sys(z2)
  BY <1>0, <1>1, <1>2, <1>4 DEF FindSpec
<1>9. \A o, p \in Living : Sys(o) = Sys(p) /\ Name(o) = Name(p) => o = p
  BY <1>1 DEF NamesDistinct
<1>10. Shape(None) = None /\ Shape(None)' = None
  BY <1>1 DEF ShapeSpec
<1>11. \A o : Sys(o) \in Up(t) => (o \in Living <=> o \in Living')
  BY <1>5
<1>12. z2 = None <=> z = None
  BY <1>7, <1>8, <1>11
<1>13. z # None => Sys(z) = Sys(z2)
  <2>1. z # None => Sys(z) <= Sys(z2) /\ Sys(z2) <= Sys(z)
    BY <1>7, <1>8, <1>11, <1>12
  <2> QED BY <1>6, <1>7, <1>8, <1>12, <2>1
<1>14. z2 = z
  BY <1>7, <1>8, <1>9, <1>11, <1>12, <1>13
<1>15. z # None => Shape(z)' = Shape(z)
  BY <1>5, <1>7
<1> QED BY <1>10, <1>14, <1>15

LEMMA ShapeKept ==
  ASSUME ShapeSpec, ShapeSpec', NEW o \in Living,
         o \in nodes => o \in nodes',
         o \in DOMAIN ends => o \in DOMAIN ends' /\ ends'[o] = ends[o],
         o \in DOMAIN corners => o \in DOMAIN corners' /\ corners'[o] = corners[o]
  PROVE  Shape(o)' = Shape(o)
<1>1. CASE o \in nodes
  BY <1>1 DEF ShapeSpec
<1>2. CASE o \in DOMAIN ends
  <2>1. Shape(o) = {<<"start", Name(ends[o].start)>>, <<"end", Name(ends[o].end)>>}
    BY <1>2 DEF ShapeSpec
  <2>2. Shape(o)' = {<<"start", Name(ends'[o].start)>>, <<"end", Name(ends'[o].end)>>}
    BY <1>2 DEF ShapeSpec
  <2> QED BY <1>2, <2>1, <2>2
<1>3. CASE o \in DOMAIN corners
  <2>1. Shape(o) = {<<"corner", Name(x)>> : x \in corners[o]}
    BY <1>3 DEF ShapeSpec
  <2>2. Shape(o)' = {<<"corner", Name(x)>> : x \in corners'[o]}
    BY <1>3 DEF ShapeSpec
  <2> QED BY <1>3, <2>1, <2>2
<1> QED BY <1>1, <1>2, <1>3 DEF Living

LEMMA OutsideUnread ==
  ASSUME GraphInv, GraphInv', UNCHANGED <<last, parent>>, NEW s \in 0..last, Leaf(s),
         \A o : Sys(o) # s =>
           /\ o \in nodes' <=> o \in nodes
           /\ o \in DOMAIN ends' <=> o \in DOMAIN ends
           /\ o \in DOMAIN corners' <=> o \in DOMAIN corners
           /\ o \in DOMAIN ends => ends'[o] = ends[o]
           /\ o \in DOMAIN corners => corners'[o] = corners[o]
  PROVE  \A t \in 0..last : t # s => Reads(t)' = Reads(t)
<1>1. ShapeSpec /\ ShapeSpec'
  BY ReadsWork, ReadsWorkNext
<1>2. ASSUME NEW o \in Living \cup Living', Sys(o) # s
      PROVE  o \in Living /\ o \in Living' /\ Shape(o)' = Shape(o)
  <2>1. o \in Living /\ o \in Living'
    BY <1>2 DEF Living
  <2> QED BY <1>1, <1>2, <2>1, ShapeKept
<1> QED BY <1>2, LeafOnly

LEMMA AddNodeUnread ==
  ASSUME GraphInv, GraphInv', NEW s \in 0..last, NEW n \in Nodes, AddNode(s, n)
  PROVE  Leaf(s) /\ \A t \in 0..last : t # s => Reads(t)' = Reads(t)
<1>1. Sys(Node(s, n)) = s
  BY DEF Sys, Node
<1> QED BY <1>1, OutsideUnread DEF AddNode

LEMMA NewIn == ASSUME NEW s, NEW n PROVE Sys(New(s, n)) = s
BY DEF Sys, New

LEMMA AddEdgeUnread ==
  ASSUME GraphInv, GraphInv', NEW s \in 0..last, NEW n \in Edges, NEW a \in nodes, NEW b \in nodes,
         AddEdge(s, n, a, b)
  PROVE  Leaf(s) /\ \A t \in 0..last : t # s => Reads(t)' = Reads(t)
<1> DEFINE e == New(s, n)
<1>1. Sys(e) = s
  BY NewIn
<1>2. /\ Leaf(s) /\ UNCHANGED <<last, parent, nodes, corners>>
      /\ ends' = Add(ends, e, [start |-> a, end |-> b]) \/ ends' = ends
  BY DEF AddEdge
<1> HIDE DEF e
<1>3. \A o : o # e => /\ o \in DOMAIN ends' <=> o \in DOMAIN ends
                      /\ o \in DOMAIN ends => ends'[o] = ends[o]
  BY <1>2 DEF Add
<1> QED BY <1>1, <1>2, <1>3, OutsideUnread

LEMMA AddFaceUnread ==
  ASSUME GraphInv, GraphInv', NEW s \in 0..last, NEW n \in Faces, NEW xs, AddFace(s, n, xs)
  PROVE  Leaf(s) /\ \A t \in 0..last : t # s => Reads(t)' = Reads(t)
<1> DEFINE f == New(s, n)
<1>1. Sys(f) = s
  BY NewIn
<1>2. Leaf(s) /\ UNCHANGED <<last, parent, nodes, ends>> /\ corners' = Add(corners, f, xs)
  BY DEF AddFace
<1> HIDE DEF f
<1>3. \A o : o # f => /\ o \in DOMAIN corners' <=> o \in DOMAIN corners
                      /\ o \in DOMAIN corners => corners'[o] = corners[o]
  BY <1>2 DEF Add
<1> QED BY <1>1, <1>2, <1>3, OutsideUnread

LEMMA FoundIn ==
  ASSUME GraphInv, NEW s \in 0..last, NEW n \in Names, Here(s, n) # {}
  PROVE  Sys(Find(s, n)) = s
<1>1. s \in Systems
  BY SystemAssumption DEF GraphInv, Shaped, TypeOK, Systems
<1> QED BY <1>1, FindHere DEF GraphInv, Shaped, Here

LEMMA MoveEndUnread ==
  ASSUME GraphInv, GraphInv', NEW s \in 0..last, NEW n \in Edges, NEW side, NEW x,
         MoveEnd(s, n, side, x)
  PROVE  Leaf(s) /\ \A t \in 0..last : t # s => Reads(t)' = Reads(t)
<1> DEFINE e == Find(s, n)
<1>1. Sys(e) = s
  BY FoundIn DEF MoveEnd, Names
<1>2. /\ Leaf(s) /\ UNCHANGED <<last, parent, nodes, corners>>
      /\ ends' = [ends EXCEPT ![e][side] = x]
  BY DEF MoveEnd
<1> HIDE DEF e
<1>3. \A o : o # e => /\ o \in DOMAIN ends' <=> o \in DOMAIN ends
                      /\ o \in DOMAIN ends => ends'[o] = ends[o]
  BY <1>2
<1> QED BY <1>1, <1>2, <1>3, OutsideUnread

LEMMA DeleteNodeUnread ==
  ASSUME GraphInv, GraphInv', NEW s \in 0..last, NEW n \in Nodes, OwnNode(s, n),
         NEW es, es \subseteq Connected(s, Node(s, n)), NEW missed,
         DeleteNode(Node(s, n), es, missed)
  PROVE  Leaf(s) /\ \A t \in 0..last : t # s => Reads(t)' = Reads(t)
<1>1. Sys(Node(s, n)) = s /\ \A e \in es : Sys(e) = s
  BY DEF Sys, Node, Connected
<1>2. /\ Leaf(s) /\ UNCHANGED <<last, parent, corners>>
      /\ nodes' = nodes \ {Node(s, n)} /\ ends' = Without(ends, es)
  BY DEF OwnNode, DeleteNode, Erased
<1>3. \A o : o \notin es => /\ o \in DOMAIN ends' <=> o \in DOMAIN ends
                            /\ o \in DOMAIN ends => ends'[o] = ends[o]
  BY <1>2 DEF Without
<1> QED BY <1>1, <1>2, <1>3, OutsideUnread

LEMMA RemoveEdgeOrFaceUnread ==
  ASSUME GraphInv, GraphInv', NEW s \in 0..last, NEW n \in Edges \cup Faces,
         RemoveEdgeOrFace(s, n)
  PROVE  Leaf(s) /\ \A t \in 0..last : t # s => Reads(t)' = Reads(t)
<1> DEFINE e == Find(s, n)
<1>1. Sys(e) = s
  BY FoundIn DEF RemoveEdgeOrFace, Names
<1>2. /\ Leaf(s) /\ UNCHANGED <<last, parent, nodes>>
      /\ ends' = Without(ends, {e}) /\ corners' = Without(corners, {e})
  BY DEF RemoveEdgeOrFace, Erased
<1> HIDE DEF e
<1>3. \A o : o # e => /\ o \in DOMAIN ends' <=> o \in DOMAIN ends
                      /\ o \in DOMAIN ends => ends'[o] = ends[o]
                      /\ o \in DOMAIN corners' <=> o \in DOMAIN corners
                      /\ o \in DOMAIN corners => corners'[o] = corners[o]
  BY <1>2 DEF Without
<1> QED BY <1>1, <1>2, <1>3, OutsideUnread

LEMMA GetNodeUnread ==
  ASSUME GraphInv, GraphInv', NEW s \in 0..last, NEW n \in Nodes, GetNode(s, n)
  PROVE  \A t \in 0..last : Reads(t)' = Reads(t)
<1> DEFINE ns == {n}
<1>1. UNCHANGED <<last, parent, ends, corners>> /\ nodes' = NodesWith(s, ns)
  BY DEF GetNode
<1>2. ns \in SUBSET Nodes /\ \A m \in ns : Find(s, m) # None
  BY DEF GetNode, Missing
<1> HIDE DEF ns
<1>3. /\ nodes \subseteq nodes'
      /\ \A x \in nodes' \ nodes :
           Sys(x) = s /\ Find(s, Name(x)) \in nodes /\ Find(s, Name(x)) # None
  BY <1>1, <1>2, CopiedNodes
<1>4. ShapeSpec /\ ShapeSpec'
  BY ReadsWork, ReadsWorkNext
<1>5. Living' = Living \cup nodes'
  BY <1>1, <1>3 DEF Living
<1>6. \A o \in Living : Shape(o)' = Shape(o)
  BY <1>1, <1>3, <1>4 DEF ShapeSpec, Living
<1>7. \A o \in Living' \ Living :
        /\ Sys(o) = s /\ Find(s, Name(o)) # None
        /\ Shape(o)' = Shape(Find(s, Name(o)))
  BY <1>3, <1>4, <1>5 DEF ShapeSpec, Living
<1> QED BY <1>1, <1>5, <1>6, <1>7, CopiesUnread

LEMMA GetEdgeUnread ==
  ASSUME GraphInv, GraphInv', NEW s \in 0..last, NEW n \in Edges, GetEdge(s, n)
  PROVE  \A t \in 0..last : Reads(t)' = Reads(t)
<1> DEFINE src == Find(s, n)
           ns == {Name(ends[src].start), Name(ends[src].end)}
           new == EndsFor(s, src)
<1>0. PICK e : e = New(s, n)
  OBVIOUS
<1>1. /\ UNCHANGED <<last, parent, corners>> /\ nodes' = NodesWith(s, ns)
      /\ ends' = Add(ends, e, new)
      /\ Missing(s, n) /\ src # None /\ src \notin torn /\ Fresh(s, n) # {}
  BY <1>0 DEF GetEdge, Missing
<1>2. src \in DOMAIN ends /\ ns \in SUBSET Nodes /\ \A m \in ns : Find(s, m) # None
  BY <1>1, Source
<1>3. s \in Systems
  BY SystemAssumption DEF GraphInv, Shaped, TypeOK, Systems
<1>4. e \notin Living /\ Sys(e) = s /\ Name(e) = n
  BY <1>0, <1>1, <1>3, NewWorks
<1>5. Name(new.start) = Name(ends[src].start) /\ Name(new.end) = Name(ends[src].end)
  BY DEF EndsFor, Resolved, Node, Name
<1> HIDE DEF ns, new, src
<1>6. /\ nodes \subseteq nodes'
      /\ \A x \in nodes' \ nodes :
           Sys(x) = s /\ Find(s, Name(x)) \in nodes /\ Find(s, Name(x)) # None
  BY <1>1, <1>2, CopiedNodes
<1>7. ShapeSpec /\ ShapeSpec'
  BY ReadsWork, ReadsWorkNext
<1>8. /\ DOMAIN ends' = DOMAIN ends \cup {e} /\ ends'[e] = new
      /\ \A d \in DOMAIN ends : ends'[d] = ends[d]
  BY <1>1, <1>4 DEF Add, Living
<1>9. Living' = Living \cup nodes' \cup {e}
  BY <1>1, <1>6, <1>8 DEF Living
<1>10. \A o \in Living : Shape(o)' = Shape(o)
  BY <1>1, <1>6, <1>7, <1>8, ShapeKept
<1>11. Shape(e)' = Shape(src)
  <2>1. Shape(src) = {<<"start", Name(ends[src].start)>>, <<"end", Name(ends[src].end)>>}
    BY <1>2, <1>7 DEF ShapeSpec
  <2>2. Shape(e)' = {<<"start", Name(new.start)>>, <<"end", Name(new.end)>>}
    BY <1>7, <1>8 DEF ShapeSpec
  <2> QED BY <1>5, <2>1, <2>2
<1>12. ASSUME NEW o \in Living' \ Living
       PROVE  /\ Sys(o) = s /\ Find(s, Name(o)) # None
              /\ Shape(o)' = Shape(Find(s, Name(o)))
  <2>1. CASE o = e
    BY <1>1, <1>4, <1>11, <2>1 DEF src
  <2>2. CASE o # e
    <3>1. o \in nodes' \ nodes
      BY <1>9, <2>2 DEF Living
    <3> QED BY <1>6, <1>7, <3>1 DEF ShapeSpec
  <2> QED BY <2>1, <2>2
<1> QED BY <1>1, <1>9, <1>10, <1>12, CopiesUnread

LEMMA GetFaceUnread ==
  ASSUME GraphInv, GraphInv', NEW s \in 0..last, NEW n \in Faces, GetFace(s, n)
  PROVE  \A t \in 0..last : Reads(t)' = Reads(t)
<1> DEFINE src == Find(s, n)
           ns == {Name(x) : x \in corners[src]}
           new == CornersFor(s, src)
<1>0. PICK f : f = New(s, n)
  OBVIOUS
<1>1. /\ UNCHANGED <<last, parent, ends>> /\ nodes' = NodesWith(s, ns)
      /\ corners' = Add(corners, f, new)
      /\ Missing(s, n) /\ src # None /\ src \notin torn /\ Fresh(s, n) # {}
  BY <1>0 DEF GetFace, Missing
<1>2. src \in DOMAIN corners /\ ns \in SUBSET Nodes /\ \A m \in ns : Find(s, m) # None
  BY <1>1, Source
<1>3. s \in Systems
  BY SystemAssumption DEF GraphInv, Shaped, TypeOK, Systems
<1>4. f \notin Living /\ Sys(f) = s /\ Name(f) = n
  BY <1>0, <1>1, <1>3, NewWorks
<1>5. {<<"corner", Name(x)>> : x \in new} = {<<"corner", Name(x)>> : x \in corners[src]}
  <2>1. \A x : Name(Resolved(s, x)) = Name(x)
    BY DEF Resolved, Node, Name
  <2> QED BY <2>1 DEF CornersFor
<1> HIDE DEF ns, new, src
<1>6. /\ nodes \subseteq nodes'
      /\ \A x \in nodes' \ nodes :
           Sys(x) = s /\ Find(s, Name(x)) \in nodes /\ Find(s, Name(x)) # None
  BY <1>1, <1>2, CopiedNodes
<1>7. ShapeSpec /\ ShapeSpec'
  BY ReadsWork, ReadsWorkNext
<1>8. /\ DOMAIN corners' = DOMAIN corners \cup {f} /\ corners'[f] = new
      /\ \A d \in DOMAIN corners : corners'[d] = corners[d]
  BY <1>1, <1>4 DEF Add, Living
<1>9. Living' = Living \cup nodes' \cup {f}
  BY <1>1, <1>6, <1>8 DEF Living
<1>10. \A o \in Living : Shape(o)' = Shape(o)
  BY <1>1, <1>6, <1>7, <1>8, ShapeKept
<1>11. Shape(f)' = Shape(src)
  <2>1. Shape(src) = {<<"corner", Name(x)>> : x \in corners[src]}
    BY <1>2, <1>7 DEF ShapeSpec
  <2>2. Shape(f)' = {<<"corner", Name(x)>> : x \in new}
    BY <1>7, <1>8 DEF ShapeSpec
  <2> QED BY <1>5, <2>1, <2>2
<1>12. ASSUME NEW o \in Living' \ Living
       PROVE  /\ Sys(o) = s /\ Find(s, Name(o)) # None
              /\ Shape(o)' = Shape(Find(s, Name(o)))
  <2>1. CASE o = f
    BY <1>1, <1>4, <1>11, <2>1 DEF src
  <2>2. CASE o # f
    <3>1. o \in nodes' \ nodes
      BY <1>9, <2>2 DEF Living
    <3> QED BY <1>6, <1>7, <3>1 DEF ShapeSpec
  <2> QED BY <2>1, <2>2
<1> QED BY <1>1, <1>9, <1>10, <1>12, CopiesUnread

(* A new successor reads what its predecessor reads. *)
LEMMA CreateSuccessorUnread ==
  ASSUME GraphInv, NEW p \in 0..last, CreateSuccessor(p)
  PROVE  /\ \A t \in 0..last : Reads(t)' = Reads(t)
         /\ \A t \in Systems : parent'[t] # parent[t] => Reads(t)' = Reads(parent'[t])
<1> USE DEF GraphInv, Shaped
<1>1. /\ last + 1 \in Systems /\ p \in Systems
      /\ \A t \in 0..last : Predecessors'[t] = Predecessors[t]
      /\ Predecessors'[last + 1] = Up(p)
  BY CreateSuccessorTree
<1>2. /\ UNCHANGED <<nodes, ends, corners>>
      /\ parent' = [parent EXCEPT ![last + 1] = p]
  BY DEF CreateSuccessor, graph
<1>3. Living' = Living
  BY <1>2 DEF Living
<1>4. \A o \in Living : Sys(o) # last + 1
  <2>1. last \in Nat
    BY SystemAssumption DEF TypeOK, Systems
  <2> QED BY <2>1 DEF AllPlaced
<1>5. ASSUME NEW t, NEW u, NEW n,
             \A o \in Living : Sys(o) \in {t} \cup Predecessors'[t] <=>
                               Sys(o) \in {u} \cup Predecessors[u]
      PROVE  Shape(Find(t, n))' = Shape(Find(u, n))
  <2>1. Find(t, n)' = FindIn(Living, {t} \cup Predecessors'[t], n)
    BY <1>3 DEF Find, FindIn, Youngest, Named, Sys, Name
  <2>2. Find(u, n) = FindIn(Living, {u} \cup Predecessors[u], n)
    BY DEF Find, FindIn, Youngest, Named, Sys, Name
  <2>3. Named(Living, {t} \cup Predecessors'[t], n) = Named(Living, {u} \cup Predecessors[u], n)
    BY <1>5 DEF Named, Sys
  <2>4. FindIn(Living, {t} \cup Predecessors'[t], n) = FindIn(Living, {u} \cup Predecessors[u], n)
    BY <2>3 DEF FindIn
  <2>5. PICK z : z = Find(u, n) /\ z = Find(t, n)'
    BY <2>1, <2>2, <2>4
  <2>6. Shape(z)' = Shape(z)
    BY <1>2 DEF Shape
  <2> QED BY <2>5, <2>6 DEF Shape
<1>6. ASSUME NEW t \in 0..last PROVE Reads(t)' = Reads(t)
  <2>1. \A n \in Names : Shape(Find(t, n))' = Shape(Find(t, n))
    BY <1>1, <1>5
  <2> QED BY <2>1 DEF Reads
<1>7. ASSUME NEW t \in Systems, parent'[t] # parent[t]
      PROVE  Reads(t)' = Reads(parent'[t])
  <2>1. t = last + 1 /\ parent'[t] = p
    BY <1>1, <1>2, <1>7 DEF TypeOK
  <2>2. {p} \cup Predecessors[p] = Up(p)
    BY <1>1, PredecessorsUp
  <2>3. \A n \in Names : Shape(Find(t, n))' = Shape(Find(p, n))
    BY <1>1, <1>4, <1>5, <2>1, <2>2
  <2>4. Reads(t)' = Reads(p)
    BY <2>3 DEF Reads
  <2> QED BY <2>1, <2>4
<1> QED BY <1>6, <1>7

(* What a step may do: GraphsAreVersions is this, always.                  *)
Versions ==
  /\ \A s \in Systems : parent'[s] # parent[s] => Reads(s)' = Reads(parent'[s])
  /\ LET changed == {s \in 0..last : Reads(s)' # Reads(s)}
     IN changed = {} \/ \E s \in Systems : Leaf(s) /\ changed = {s}

LEMMA StepVersions == GraphInv /\ GraphInv' /\ [Next]_vars => [Versions]_vars
<1> SUFFICES ASSUME GraphInv, GraphInv', Next PROVE Versions
  OBVIOUS
<1>1. 0..last \subseteq Systems
  BY SystemAssumption DEF GraphInv, Shaped, TypeOK, Systems
<1>2. ASSUME NEW s \in 0..last, UNCHANGED parent, Leaf(s),
             \A t \in 0..last : t # s => Reads(t)' = Reads(t)
      PROVE  Versions
  BY <1>1, <1>2 DEF Versions
<1>3. ASSUME UNCHANGED parent, \A t \in 0..last : Reads(t)' = Reads(t)
      PROVE  Versions
  BY <1>3 DEF Versions
<1>4. ASSUME NEW s \in 0..last, CreateSuccessor(s) PROVE Versions
  BY <1>4, CreateSuccessorUnread DEF Versions
<1>5. ASSUME NEW s \in 0..last, NEW n \in Nodes, AddNode(s, n) PROVE Versions
  BY <1>2, <1>5, AddNodeUnread DEF AddNode
<1>6. ASSUME NEW s \in 0..last, NEW n \in Nodes, GetNode(s, n) PROVE Versions
  BY <1>3, <1>6, GetNodeUnread DEF GetNode
<1>7. ASSUME NEW s \in 0..last, NEW n \in Nodes, NEW es, NEW missed,
             es \subseteq Connected(s, Node(s, n)), OwnNode(s, n),
             DeleteNode(Node(s, n), es, missed)
      PROVE  Versions
  BY <1>2, <1>7, DeleteNodeUnread DEF DeleteNode
<1>8. ASSUME NEW s \in 0..last, NEW n \in Nodes, NEW missed, RemoveNode(s, n, missed)
      PROVE  Versions
  BY <1>7, <1>8 DEF RemoveNode
<1>9. ASSUME NEW s \in 0..last, NEW n \in Nodes, RemoveComponent(s, n) PROVE Versions
  <2>1. {} \subseteq Connected(s, Node(s, n))
    OBVIOUS
  <2> QED BY <1>7, <1>9, <2>1 DEF RemoveComponent
<1>10. ASSUME NEW s \in 0..last, NEW n \in Edges, NEW a \in nodes, NEW b \in nodes,
              AddEdge(s, n, a, b)
       PROVE  Versions
  BY <1>2, <1>10, AddEdgeUnread DEF AddEdge
<1>11. ASSUME NEW s \in 0..last, NEW n \in Edges, GetEdge(s, n) PROVE Versions
  BY <1>3, <1>11, GetEdgeUnread DEF GetEdge
<1>12. ASSUME NEW s \in 0..last, NEW n \in Edges, NEW side, NEW x, MoveEnd(s, n, side, x)
       PROVE  Versions
  BY <1>2, <1>12, MoveEndUnread DEF MoveEnd
<1>13. ASSUME NEW s \in 0..last, NEW n \in Faces, NEW xs, AddFace(s, n, xs) PROVE Versions
  BY <1>2, <1>13, AddFaceUnread DEF AddFace
<1>14. ASSUME NEW s \in 0..last, NEW n \in Faces, GetFace(s, n) PROVE Versions
  BY <1>3, <1>14, GetFaceUnread DEF GetFace
<1>15. ASSUME NEW s \in 0..last, NEW n \in Edges \cup Faces, RemoveEdgeOrFace(s, n) PROVE Versions
  BY <1>2, <1>15, RemoveEdgeOrFaceUnread DEF RemoveEdgeOrFace
<1> QED BY <1>4, <1>5, <1>6, <1>8, <1>9, <1>10, <1>11, <1>12, <1>13, <1>14, <1>15 DEF Next

(* A successor starts as the graph of its predecessor, and each step       *)
(* changes the graph of one system at most, one without successors.        *)
THEOREM SpecGraphsAreVersions == Spec => GraphsAreVersions
<1>1. GraphInv /\ GraphInv' /\ [Next]_vars => [Versions]_vars
  BY StepVersions
<1>2. Spec => [][Versions]_vars
  BY <1>1, SpecGraphInv, PTL DEF Spec
<1> QED BY <1>2, PTL DEF GraphsAreVersions, Versions
=============================================================================
