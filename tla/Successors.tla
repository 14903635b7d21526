----------------------------- MODULE Successors -----------------------------
(***************************************************************************)
(* Systems and their successor states.  A DerivedSystem starts without     *)
(* components: a component is copied from the nearest predecessor that has *)
(* it when it is asked for by name or listed by a view that writes.  The   *)
(* copy shares the attributes of its source until they are accessed: an    *)
(* attribute belongs to the component that is its owner, and the others    *)
(* copy it first.                                                          *)
(*                                                                         *)
(* One attribute per component and one view stand for all.  Components     *)
(* have their names when they are added.  A component object is a triple   *)
(* of its system, its name and a number.  Modules change only systems that *)
(* have no successor yet, and a component of a view they write to only     *)
(* after they have enumerated the view; they read in any system.           *)
(***************************************************************************)
EXTENDS Integers, FiniteSets

CONSTANTS
  LastSystem,   \* bound: the systems are 0..LastSystem
  Names,        \* names of components
  NodeNames,    \* those of them that are nodes
  MaxWrites,    \* bound: changes of attributes
  MaxCopies,    \* bound: objects with the same name in a system
  None

Systems == 0..LastSystem
Objects == Systems \X Names \X (1..MaxCopies)

ASSUME SystemAssumption == LastSystem \in Nat
ASSUME NameAssumption == NodeNames \subseteq Names
ASSUME CopyAssumption == MaxCopies \in Nat \ {0} /\ MaxWrites \in Nat
ASSUME NoneAssumption == None \notin Systems \cup Objects \cup Nat

VARIABLES
  last, parent,       \* the youngest system, and the predecessors
  componentNameMap,   \* system -> name -> object
  attr,               \* object -> its attribute, of the objects that exist
  owner, value,       \* attribute -> owner and value, of those that exist
  listed,             \* system -> the objects in its viewer
  clock               \* the last value that was written

heap == <<attr, owner, value>>
vars == <<last, parent, componentNameMap, heap, listed, clock>>

Sys(o) == o[1]
Name(o) == o[2]
Derived(s) == parent[s] # None
Leaf(s) == s <= last /\ \A t \in Systems : parent[t] # s

(* getComponentReadOnly: the object of the system or of the nearest        *)
(* predecessor that has one of this name.                                  *)
Find[s \in Systems] ==
  [n \in Names |-> IF componentNameMap[s][n] # None \/ ~Derived(s)
                   THEN componentNameMap[s][n] ELSE Find[parent[s]][n]]

Undefined == -1     \* what a read through a dangling pointer gives
Val(o) ==
  IF attr[o] = None THEN 0
  ELSE IF attr[o] \in DOMAIN value THEN value[attr[o]] ELSE Undefined

(* What a module reads that asks system s for component n.                 *)
Lookup(s, n) == IF Find[s][n] = None THEN None ELSE Val(Find[s][n])

Fresh(s, n) == {i \in 1..MaxCopies : <<s, n, i>> \notin DOMAIN attr}
New(s, n) == <<s, n, CHOOSE i \in Fresh(s, n) : TRUE>>
InUse == DOMAIN owner \cup {attr[o] : o \in DOMAIN attr}
NewAttribute == CHOOSE i \in 1..Cardinality(InUse) + 1 : i \notin InUse

TypeOK ==
  /\ last \in Systems
  /\ parent \in [Systems -> Systems \cup {None}]
  /\ DOMAIN attr \subseteq Objects
  /\ \A o \in DOMAIN attr : attr[o] \in Nat \cup {None}
  /\ \A s \in Systems, n \in Names : componentNameMap[s][n] # None =>
       /\ componentNameMap[s][n] \in DOMAIN attr
       /\ Sys(componentNameMap[s][n]) = s /\ Name(componentNameMap[s][n]) = n
  /\ DOMAIN owner \subseteq Nat /\ DOMAIN value = DOMAIN owner
  /\ \A i \in DOMAIN owner : owner[i] \in Objects /\ value[i] \in 0..MaxWrites
  /\ listed \in [Systems -> SUBSET Objects]
  /\ clock \in 0..MaxWrites

Init ==
  /\ last = 0
  /\ parent = [s \in Systems |-> None]
  /\ componentNameMap = [s \in Systems |-> [n \in Names |-> None]]
  /\ attr = <<>> /\ owner = <<>> /\ value = <<>>
  /\ listed = [s \in Systems |-> {}]
  /\ clock = 0

-----------------------------------------------------------------------------
(* Systems *)

CreateSuccessor(p) ==
  /\ last < LastSystem
  /\ last' = last + 1
  /\ parent' = [parent EXCEPT ![last + 1] = p]
  /\ listed' = [listed EXCEPT ![last + 1] = listed[p]]
  /\ UNCHANGED <<componentNameMap, heap, clock>>

(* addComponent and addNode of an object the module has created.           *)
Registered(s, os) ==
  [componentNameMap EXCEPT ![s] =
     [n \in Names |-> IF \E o \in os : Name(o) = n THEN CHOOSE o \in os : Name(o) = n
                      ELSE componentNameMap[s][n]]]

Add(s, n, inView) ==
  /\ Leaf(s)
  /\ \A o \in DOMAIN attr : Name(o) # n
  /\ componentNameMap' = Registered(s, {New(s, n)})
  /\ attr' = [o \in DOMAIN attr \cup {New(s, n)} |->
                IF o \in DOMAIN attr THEN attr[o] ELSE None]
  /\ listed' = [listed EXCEPT ![s] = IF inView THEN @ \cup {New(s, n)} ELSE @]
  /\ UNCHANGED <<last, parent, owner, value, clock>>

(* SuccessorCopy of the objects src, each with a name of its own: the new  *)
(* objects share the attributes.  Node::SetOwner, which is called when a   *)
(* copy is added to the system, makes the copy the owner.                  *)
Owners(s, src) ==
  [i \in DOMAIN owner |->
     IF \E o \in src : Name(o) \in NodeNames /\ attr[o] = i
       THEN New(s, Name(CHOOSE o \in src : Name(o) \in NodeNames /\ attr[o] = i))
       ELSE owner[i]]

SuccessorCopy(s, src) ==
  LET Source(c) == CHOOSE o \in src : New(s, Name(o)) = c
      copies == {New(s, Name(o)) : o \in src}
  IN /\ \A o \in src : Fresh(s, Name(o)) # {}
     /\ componentNameMap' = Registered(s, copies)
     /\ attr' = [o \in DOMAIN attr \cup copies |->
                   IF o \in DOMAIN attr THEN attr[o] ELSE attr[Source(o)]]
     /\ owner' = Owners(s, src)
     /\ UNCHANGED value

GetComponent(s, n) ==
  /\ s <= last
  /\ componentNameMap[s][n] = None
  /\ Find[s][n] # None
  /\ SuccessorCopy(s, {Find[s][n]})
  /\ UNCHANGED <<last, parent, listed, clock>>

(* removeChild: out of the maps and the viewers, and deleted with the      *)
(* attributes it owns.                                                     *)
StaysListed(s, o) == listed                       \* mutant of Unlisted
Unlisted(s, o) == [listed EXCEPT ![s] = @ \ {o}]
StaysNamed(s, n) == componentNameMap              \* mutant of Forgotten
Forgotten(s, n) == [componentNameMap EXCEPT ![s][n] = None]
DeletesShared(o) == DOMAIN owner \cap {attr[o]}   \* mutant of Deletes
Deletes(o) == {i \in DOMAIN owner : i = attr[o] /\ owner[i] = o}

FreeAttributes(freed) ==
  /\ owner' = [i \in DOMAIN owner \ freed |-> owner[i]]
  /\ value' = [i \in DOMAIN value \ freed |-> value[i]]

RemoveComponent(s, n) ==
  LET o == componentNameMap[s][n] IN
  /\ Leaf(s)
  /\ o # None
  /\ componentNameMap' = Forgotten(s, n)
  /\ listed' = Unlisted(s, o)
  /\ attr' = [x \in DOMAIN attr \ {o} |-> attr[x]]
  /\ FreeAttributes(Deletes(o))
  /\ UNCHANGED <<last, parent, clock>>

-----------------------------------------------------------------------------
(* Attributes *)

AnyIsOwn(o) == attr[o] # None                     \* mutant of IsOwn
IsOwn(o) == attr[o] # None /\ owner[attr[o]] = o

(* getAttribute gives o an attribute of its own, with value v.             *)
OwnAttribute(o, v) ==
  IF IsOwn(o)
    THEN /\ value' = [value EXCEPT ![attr[o]] = v]
         /\ UNCHANGED <<attr, owner>>
    ELSE LET a == NewAttribute IN
         /\ attr' = [attr EXCEPT ![o] = a]
         /\ owner' = [i \in DOMAIN owner \cup {a} |-> IF i = a THEN o ELSE owner[i]]
         /\ value' = [i \in DOMAIN value \cup {a} |-> IF i = a THEN v ELSE value[i]]

Defined(o) == o # None /\ Val(o) # Undefined

(* A module asks for an attribute and does not change it.                  *)
GetAttribute(s, n) ==
  /\ Defined(componentNameMap[s][n])
  /\ OwnAttribute(componentNameMap[s][n], Val(componentNameMap[s][n]))
  /\ UNCHANGED <<last, parent, componentNameMap, listed, clock>>

Enumerated(s, n) == \A o \in listed[s] : Name(o) = n => Sys(o) = s

ChangeAttribute(s, n) ==
  /\ Leaf(s) /\ Enumerated(s, n)
  /\ Defined(componentNameMap[s][n])
  /\ clock < MaxWrites
  /\ clock' = clock + 1
  /\ OwnAttribute(componentNameMap[s][n], clock')
  /\ UNCHANGED <<last, parent, componentNameMap, listed>>

RemoveAttribute(s, n) ==
  LET o == componentNameMap[s][n] IN
  /\ Leaf(s) /\ Enumerated(s, n)
  /\ Defined(o) /\ attr[o] # None
  /\ attr' = [attr EXCEPT ![o] = None]
  /\ FreeAttributes(Deletes(o))
  /\ UNCHANGED <<last, parent, componentNameMap, listed, clock>>

-----------------------------------------------------------------------------
(* Views *)

(* getComponents with write access, which the module that reads the data   *)
(* sets (addDataViewer): what belongs to another system is copied and the  *)
(* copies take its place.  With read access the list is returned as it is. *)
Foreign(s) == {o \in listed[s] : Sys(o) # s}
Migrated(s) == (listed[s] \ Foreign(s)) \cup {New(s, Name(o)) : o \in Foreign(s)}

GetComponents(s) ==
  /\ Derived(s) /\ Foreign(s) # {}
  /\ SuccessorCopy(s, Foreign(s))
  /\ listed' = [listed EXCEPT ![s] = Migrated(s)]
  /\ UNCHANGED <<last, parent, clock>>

AddComponentToView(s, n) ==
  /\ Leaf(s)
  /\ componentNameMap[s][n] # None
  /\ \A o \in listed[s] : Name(o) # n
  /\ listed' = [listed EXCEPT ![s] = @ \cup {componentNameMap[s][n]}]
  /\ UNCHANGED <<last, parent, componentNameMap, heap, clock>>

RemoveComponentFromView(s, n) ==
  /\ Leaf(s)
  /\ componentNameMap[s][n] \in listed[s]
  /\ listed' = Unlisted(s, componentNameMap[s][n])
  /\ UNCHANGED <<last, parent, componentNameMap, heap, clock>>

Next ==
  \/ \E s \in 0..last :
       \/ CreateSuccessor(s)
       \/ GetComponents(s)
  \/ \E s \in 0..last, n \in Names :
       \/ \E inView \in BOOLEAN : Add(s, n, inView)
       \/ GetComponent(s, n)
       \/ RemoveComponent(s, n)
       \/ GetAttribute(s, n)
       \/ ChangeAttribute(s, n)
       \/ RemoveAttribute(s, n)
       \/ AddComponentToView(s, n)
       \/ RemoveComponentFromView(s, n)

Spec == Init /\ [][Next]_vars

-----------------------------------------------------------------------------
(* Safety *)

(* Every attribute a component points to exists and is its own or that of  *)
(* a component in a predecessor; every attribute has exactly one component *)
(* that will delete it.                                                    *)
Predecessors[s \in Systems] ==
  IF Derived(s) THEN {parent[s]} \cup Predecessors[parent[s]] ELSE {}
HeapSound ==
  /\ \A o \in DOMAIN attr : attr[o] # None =>
       /\ attr[o] \in DOMAIN owner
       /\ owner[attr[o]] = o \/ Sys(owner[attr[o]]) \in Predecessors[Sys(o)]
  /\ \A i \in DOMAIN owner : owner[i] \in DOMAIN attr /\ attr[owner[i]] = i

(* A viewer lists components that exist, of its system or a predecessor,   *)
(* and shows of a component what a lookup by its name gives.               *)
ViewsAgree ==
  \A s \in 0..last : \A o \in listed[s] :
    /\ o \in DOMAIN attr /\ Sys(o) \in {s} \cup Predecessors[s]
    /\ Val(o) = Lookup(s, Name(o))

(* A successor is an independent copy: whatever is shared, copied late or  *)
(* found in a predecessor, the systems read as separate maps of which only *)
(* one without successors changes.                                         *)
Content == [s \in Systems |-> IF s > last THEN [n \in Names |-> None]
                              ELSE [n \in Names |-> Lookup(s, n)]]
V == INSTANCE SystemVersions WITH content <- Content, Values <- 0..MaxWrites
SuccessorsAreVersions == V!Spec

(* The promise of dmsystem.h for one step: at most one system reads        *)
(* differently afterwards, and that one has no successor.                  *)
Differs(s) == \E n \in Names : Lookup(s, n)' # Lookup(s, n)
OnlyOneSystemChanges ==
  [][\A s \in 0..last : Differs(s) =>
       Leaf(s) /\ \A t \in 0..last : Differs(t) => t = s]_vars
=============================================================================
