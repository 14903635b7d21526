-------------------------- MODULE SuccessorsProofs --------------------------
(***************************************************************************)
(* Proofs about Successors: systems that share what they have in common    *)
(* read as separate ones, for every number of systems, copies and writes   *)
(* and all names of components that are not nodes (whose copies take over  *)
(* the attributes, see SuccessorsNodes).                                   *)
(***************************************************************************)
EXTENDS Successors, Lineage, FiniteSetTheorems

Up(s) == Lineage(s, parent, None)

(* A system is younger than its predecessor; the later ones are not there. *)
TreeOK ==
  /\ Tree(parent, None, Systems)
  /\ \A s \in Systems : s > last => parent[s] = None
Shaped ==
  /\ componentNameMap \in [Systems -> [Names -> Objects \cup {None}]]
  /\ \A s \in Systems, n \in Names : s > last => componentNameMap[s][n] = None
  /\ IsFiniteSet(DOMAIN attr) /\ IsFiniteSet(DOMAIN owner)

(* What the systems read. *)
Reads == [s \in Systems |-> [n \in Names |-> Lookup(s, n)]]

(* What a view lists: a component of the system itself is the one of its   *)
(* name; one of a predecessor reads as its name does there.                *)
Shown(s, o) ==
  /\ o \in DOMAIN attr /\ Sys(o) \in Up(s)
  /\ Val(o) = Reads[s][Name(o)]
  /\ Sys(o) = s => componentNameMap[s][Name(o)] = o
  /\ Sys(o) # s => Val(o) = Reads[parent[s]][Name(o)]
Viewing ==
  \A s \in 0..last :
    /\ \A o \in listed[s] : Shown(s, o)
    /\ \A o, p \in listed[s] : Name(o) = Name(p) => o = p

SuccInv == TypeOK /\ TreeOK /\ Shaped /\ HeapSound /\ Viewing

-----------------------------------------------------------------------------
(* Reading through the predecessors *)

LEMMA Predecessing ==
  ASSUME TreeOK, NEW s \in Systems
  PROVE  /\ s \in Up(s) /\ Up(s) \in SUBSET Systems
         /\ Predecessors[s] = Up(s) \ {s}
         /\ Up(s) = {s} \cup (IF parent[s] # None THEN Up(parent[s]) ELSE {})
         /\ \A t \in Up(s) : t <= s /\ Up(t) \subseteq Up(s)
<1>1. Predecessors = AllPredecessors(Systems, parent, None)
  BY DEF Predecessors, AllPredecessors, Derived
<1>2. AllPredecessors(Systems, parent, None)[s] = IF parent[s] # None THEN Up(parent[s]) ELSE {}
  BY AllPredecessorsAre DEF TreeOK, Up
<1>3. Up(s) \in SUBSET Systems /\ Up(s) = {s} \cup (IF parent[s] # None THEN Up(parent[s]) ELSE {})
  BY LineageUnfolds DEF TreeOK, Up
<1>4. \A t \in Up(s) : t <= s /\ Up(t) \subseteq Up(s)
  BY LineageOlder, LineageTransitive DEF TreeOK, Up
<1>5. parent[s] # None => s \notin Up(parent[s])
  <2>1. parent[s] # None => parent[s] \in Systems /\ parent[s] < s
    BY DEF TreeOK, Tree
  <2>2. parent[s] # None => \A t \in Up(parent[s]) : t <= parent[s]
    BY <2>1, LineageOlder DEF TreeOK, Up
  <2> QED BY <2>1, <2>2, SystemAssumption DEF Systems
<1> QED BY <1>1, <1>2, <1>3, <1>4, <1>5

(* Find is a recursive function: it is the object of the youngest system.  *)
Naming(s, n) == {t \in Up(s) : componentNameMap[t][n] # None}
Nearest(s, n) ==
  IF Naming(s, n) = {} THEN None
  ELSE componentNameMap[CHOOSE t \in Naming(s, n) : \A u \in Naming(s, n) : u <= t][n]

LEMMA NearestUnfolds ==
  ASSUME TreeOK, NEW s \in Systems, NEW n
  PROVE  Nearest(s, n) =
           IF componentNameMap[s][n] # None \/ ~Derived(s) THEN componentNameMap[s][n]
           ELSE Nearest(parent[s], n)
<1>1. /\ s \in Up(s) /\ Up(s) = {s} \cup (IF parent[s] # None THEN Up(parent[s]) ELSE {})
      /\ \A t \in Up(s) : t <= s
      /\ Up(s) \subseteq Systems
  BY Predecessing
<1>2. \A t \in Systems : t \in Nat
  BY SystemAssumption DEF Systems
<1>3. CASE componentNameMap[s][n] # None
  <2>1. s \in Naming(s, n) /\ \A t \in Naming(s, n) : t <= s /\ t \in Nat
    BY <1>1, <1>2, <1>3 DEF Naming
  <2>2. s \in Nat
    BY <1>2
  <2> DEFINE z == CHOOSE t \in Naming(s, n) : \A u \in Naming(s, n) : u <= t
  <2>3. z \in Naming(s, n) /\ \A u \in Naming(s, n) : u <= z
    BY <2>1
  <2>4. z = s
    <3> HIDE DEF z
    <3> QED BY <2>1, <2>2, <2>3
  <2> QED BY <1>3, <2>1, <2>4 DEF Nearest
<1>4. CASE componentNameMap[s][n] = None /\ ~Derived(s)
  <2>1. Naming(s, n) = {}
    BY <1>1, <1>4 DEF Naming, Derived
  <2> QED BY <1>4, <2>1 DEF Nearest
<1>5. CASE componentNameMap[s][n] = None /\ Derived(s)
  <2>1. Naming(s, n) = Naming(parent[s], n)
    BY <1>1, <1>5 DEF Naming, Derived
  <2> QED BY <1>5, <2>1 DEF Nearest
<1> QED BY <1>3, <1>4, <1>5

LEMMA FindUnfolds ==
  TreeOK =>
    \A s \in Systems, n \in Names :
      Find[s][n] = IF componentNameMap[s][n] # None \/ ~Derived(s) THEN componentNameMap[s][n]
                   ELSE Find[parent[s]][n]
<1> SUFFICES ASSUME TreeOK
             PROVE  \A s \in Systems, n \in Names :
                      Find[s][n] =
                        IF componentNameMap[s][n] # None \/ ~Derived(s)
                        THEN componentNameMap[s][n] ELSE Find[parent[s]][n]
  OBVIOUS
<1> DEFINE F(f) == [s \in Systems |-> [n \in Names |->
                      IF componentNameMap[s][n] # None \/ ~Derived(s)
                      THEN componentNameMap[s][n] ELSE f[parent[s]][n]]]
           G == [s \in Systems |-> [n \in Names |-> Nearest(s, n)]]
<1>1. \A s \in Systems : Derived(s) => parent[s] \in Systems
  BY DEF Derived, TreeOK, Tree
<1>2. \A s \in Systems, n \in Names : G[s][n] = Nearest(s, n)
  OBVIOUS
<1>3. \A s \in Systems, n \in Names :
        Nearest(s, n) = IF componentNameMap[s][n] # None \/ ~Derived(s)
                        THEN componentNameMap[s][n] ELSE G[parent[s]][n]
  <2> TAKE s \in Systems, n \in Names
  <2>1. Derived(s) => G[parent[s]][n] = Nearest(parent[s], n)
    BY <1>1, <1>2
  <2> HIDE DEF G
  <2> QED BY <2>1, NearestUnfolds
<1>4. G = F(G)
  <2>1. \A s \in Systems :
          [n \in Names |-> Nearest(s, n)] =
          [n \in Names |-> IF componentNameMap[s][n] # None \/ ~Derived(s)
                           THEN componentNameMap[s][n] ELSE G[parent[s]][n]]
    <3> HIDE DEF G
    <3> QED BY <1>3
  <2> QED BY <2>1
<1>5. Find = CHOOSE f : f = F(f)
  BY DEF Find
<1>6. Find = F(Find)
  <2> HIDE DEF F, G
  <2> QED BY <1>4, <1>5
<1>7. \A s \in Systems, n \in Names :
        F(Find)[s][n] = IF componentNameMap[s][n] # None \/ ~Derived(s)
                        THEN componentNameMap[s][n] ELSE Find[parent[s]][n]
  <2> DEFINE g == Find
  <2> HIDE DEF g
  <2>1. \A s \in Systems, n \in Names :
          F(g)[s][n] = IF componentNameMap[s][n] # None \/ ~Derived(s)
                       THEN componentNameMap[s][n] ELSE g[parent[s]][n]
    OBVIOUS
  <2> QED BY <2>1 DEF g
<1> QED
  <2> HIDE DEF F
  <2> QED BY <1>6, <1>7

(* What an object holds, by the maps of its attributes; what it will hold. *)
Value(at, vl, o) ==
  IF at[o] = None THEN 0 ELSE IF at[o] \in DOMAIN vl THEN vl[at[o]] ELSE Undefined
Then(o) == Value(attr', value', o)

LEMMA LookupUnfolds ==
  TreeOK =>
    \A s \in Systems, n \in Names :
      Reads[s][n] = IF componentNameMap[s][n] # None
                    THEN Value(attr, value, componentNameMap[s][n])
                    ELSE IF parent[s] = None THEN None ELSE Reads[parent[s]][n]
<1> SUFFICES ASSUME TreeOK, NEW s \in Systems, NEW n \in Names
             PROVE  Reads[s][n] =
                      IF componentNameMap[s][n] # None
                      THEN Value(attr, value, componentNameMap[s][n])
                      ELSE IF parent[s] = None THEN None ELSE Reads[parent[s]][n]
  OBVIOUS
<1>1. Find[s][n] = IF componentNameMap[s][n] # None \/ ~Derived(s) THEN componentNameMap[s][n]
                   ELSE Find[parent[s]][n]
  BY FindUnfolds
<1>2. /\ Reads[s][n] = Lookup(s, n)
      /\ parent[s] # None => Reads[parent[s]][n] = Lookup(parent[s], n)
  BY DEF Reads, TreeOK, Tree
<1>3. CASE componentNameMap[s][n] # None
  BY <1>1, <1>2, <1>3 DEF Lookup, Val, Value
<1>4. CASE componentNameMap[s][n] = None /\ parent[s] = None
  BY <1>1, <1>2, <1>4 DEF Lookup, Derived
<1>5. CASE componentNameMap[s][n] = None /\ parent[s] # None
  BY <1>1, <1>2, <1>5 DEF Lookup, Derived
<1> QED BY <1>3, <1>4, <1>5

LEMMA LookupUnfoldsThen ==
  TreeOK' =>
    \A s \in Systems, n \in Names :
      Reads'[s][n] = IF componentNameMap'[s][n] # None THEN Then(componentNameMap'[s][n])
                     ELSE IF parent'[s] = None THEN None ELSE Reads'[parent'[s]][n]
<1>1. (TreeOK =>
        \A s \in Systems, n \in Names :
          Reads[s][n] = IF componentNameMap[s][n] # None
                        THEN Value(attr, value, componentNameMap[s][n])
                        ELSE IF parent[s] = None THEN None ELSE Reads[parent[s]][n])'
  BY LookupUnfolds, PTL
<1> QED BY <1>1 DEF Then, Value

LEMMA SameTree ==
  ASSUME TreeOK, UNCHANGED <<last, parent>>
  PROVE  TreeOK' /\ Predecessors' = Predecessors /\ \A s : Up(s)' = Up(s)
<1>1. Predecessors' = AllPredecessors(Systems, parent', None)
  BY DEF Predecessors, AllPredecessors, Derived
<1>2. Predecessors = AllPredecessors(Systems, parent, None)
  BY DEF Predecessors, AllPredecessors, Derived
<1> QED BY <1>1, <1>2 DEF TreeOK, Up

(* Reads stay what they are in systems whose names lead to what was read:  *)
(* here for a set of systems with their predecessors, which do not change. *)
LEMMA LookupKept ==
  ASSUME TreeOK, TreeOK', NEW D \in SUBSET Systems, \A t \in D : parent'[t] = parent[t],
         \A t \in D : parent[t] # None => parent[t] \in D,
         \A t \in D, n \in Names :
           /\ componentNameMap'[t][n] # None =>
                Then(componentNameMap'[t][n]) = Reads[t][n]
           /\ componentNameMap'[t][n] = None => componentNameMap[t][n] = None
  PROVE  \A t \in D, n \in Names : Reads'[t][n] = Reads[t][n]
<1> DEFINE Old == Reads
           Next_ == Reads'
<1>1. \A t \in Systems, n \in Names :
        Old[t][n] = IF componentNameMap[t][n] # None
                    THEN Value(attr, value, componentNameMap[t][n])
                    ELSE IF parent[t] = None THEN None ELSE Old[parent[t]][n]
  BY LookupUnfolds
<1>2. \A t \in Systems, n \in Names :
        Next_[t][n] = IF componentNameMap'[t][n] # None THEN Then(componentNameMap'[t][n])
                      ELSE IF parent'[t] = None THEN None ELSE Next_[parent'[t]][n]
  BY LookupUnfoldsThen
<1>3. \A t \in Systems : t \in Nat /\ (parent[t] # None => parent[t] \in Nat /\ parent[t] < t)
  <2>1. \A t \in Systems : t \in Nat
    BY SystemAssumption DEF Systems
  <2> QED BY <2>1 DEF TreeOK, Tree
<1>4. \A t \in D, n \in Names :
        componentNameMap'[t][n] # None => Then(componentNameMap'[t][n]) = Old[t][n]
  OBVIOUS
<1> HIDE DEF Old, Next_
<1> DEFINE Bad == {t \in D : \E n \in Names : Next_[t][n] # Old[t][n]}
<1>5. ASSUME Bad # {} PROVE FALSE
  <2>1. Bad \in SUBSET Nat
    BY <1>3
  <2>2. PICK t \in Bad : \A u \in Bad : t <= u
    BY <1>5, <2>1, LeastExists
  <2>3. t \in D /\ t \in Systems
    OBVIOUS
  <2>4. PICK n \in Names : Next_[t][n] # Old[t][n]
    OBVIOUS
  <2>5. componentNameMap'[t][n] = None
    BY <1>2, <1>4, <2>3, <2>4
  <2>6. componentNameMap[t][n] = None
    BY <2>3, <2>5
  <2>7. parent[t] # None /\ Next_[parent[t]][n] # Old[parent[t]][n]
    BY <1>1, <1>2, <2>3, <2>4, <2>5, <2>6
  <2>8. parent[t] \in D /\ ~ (t <= parent[t])
    <3>1. t \in Nat /\ parent[t] \in Nat /\ parent[t] < t
      BY <1>3, <2>3, <2>7
    <3> QED BY <2>3, <2>7, <3>1
  <2> QED BY <2>2, <2>7, <2>8
<1>6. \A t \in D, n \in Names : Next_[t][n] = Old[t][n]
  BY <1>5
<1> QED BY <1>6 DEF Old, Next_

-----------------------------------------------------------------------------
(* Attributes *)

HeapTyped ==
  /\ DOMAIN attr \subseteq Objects /\ IsFiniteSet(DOMAIN attr) /\ IsFiniteSet(DOMAIN owner)
  /\ \A o \in DOMAIN attr : attr[o] \in Nat \cup {None}
  /\ DOMAIN owner \subseteq Nat /\ DOMAIN value = DOMAIN owner
  /\ \A i \in DOMAIN owner : owner[i] \in Objects /\ value[i] \in 0..MaxWrites

LEMMA Kinds ==
  ASSUME SuccInv
  PROVE  /\ HeapTyped /\ TreeOK /\ HeapSound
         /\ 0..last \subseteq Systems /\ None \notin Systems /\ None \notin Nat
         /\ \A o \in Objects : o # None /\ Sys(o) \in Systems /\ Name(o) \in Names
         /\ \A s \in Systems, n \in Names : componentNameMap[s][n] # None =>
              /\ componentNameMap[s][n] \in DOMAIN attr
              /\ Sys(componentNameMap[s][n]) = s /\ Name(componentNameMap[s][n]) = n
<1> USE DEF SuccInv
<1>1. HeapTyped
  BY DEF HeapTyped, TypeOK, Shaped
<1>2. 0..last \subseteq Systems
  BY SystemAssumption DEF TypeOK, Systems
<1>3. \A o \in Objects : o # None /\ Sys(o) \in Systems /\ Name(o) \in Names
  BY NoneAssumption DEF Objects, Sys, Name
<1>4. \A s \in Systems, n \in Names : componentNameMap[s][n] # None =>
        /\ componentNameMap[s][n] \in DOMAIN attr
        /\ Sys(componentNameMap[s][n]) = s /\ Name(componentNameMap[s][n]) = n
  BY DEF TypeOK
<1> QED BY <1>1, <1>2, <1>3, <1>4, NoneAssumption

LEMMA LeafApart ==
  ASSUME TreeOK, NEW s \in Systems, Leaf(s), NEW t \in Systems
  PROVE  s \notin Predecessors[t] /\ (s # t => s \notin Up(t)) /\ parent[t] # s
<1>1. \A u \in Systems : parent[u] # s
  BY DEF Leaf
<1>2. s # t => s \notin Up(t)
  BY <1>1, LeafIsNoPredecessor DEF TreeOK, Up
<1>3. Predecessors[t] = Up(t) \ {t}
  BY Predecessing
<1> QED BY <1>1, <1>2, <1>3

(* Nobody else points to an attribute that a component of a leaf owns.     *)
LEMMA OwnUnshared ==
  ASSUME SuccInv, NEW o \in DOMAIN attr, Leaf(Sys(o)), IsOwn(o),
         NEW x \in DOMAIN attr, x # o
  PROVE  attr[x] # attr[o]
<1>1. o \in Objects /\ x \in Objects /\ TreeOK /\ HeapSound /\ Sys(o) \in Systems /\ Sys(x) \in Systems
  BY Kinds DEF HeapTyped
<1>2. Sys(o) \notin Predecessors[Sys(x)]
  BY <1>1, LeafApart
<1> QED BY <1>1, <1>2 DEF HeapSound, IsOwn

LEMMA NewAttributeIs ==
  ASSUME HeapTyped
  PROVE  NewAttribute \in Nat /\ NewAttribute \notin InUse
<1> DEFINE K == Cardinality(InUse) + 1
<1>1. IsFiniteSet(InUse) /\ Cardinality(InUse) \in Nat
  <2>1. IsFiniteSet({attr[o] : o \in DOMAIN attr})
    <3> DEFINE T == {attr[o] : o \in DOMAIN attr}
               f == [o \in DOMAIN attr |-> attr[o]]
    <3>1. f \in Surjection(DOMAIN attr, T)
      BY DEF Surjection
    <3> HIDE DEF f, T
    <3>2. IsFiniteSet(T)
      BY <3>1, FS_Surjection DEF HeapTyped
    <3> QED BY <3>2 DEF T
  <2>2. IsFiniteSet(InUse)
    BY <2>1, FS_Union DEF InUse, HeapTyped
  <2> QED BY <2>2, FS_CardinalityType
<1>2. K \in Nat /\ Cardinality(1..K) = K
  <2>1. K \in Nat /\ ~ (1 > K) /\ K - 1 + 1 = K
    BY <1>1
  <2> QED BY <2>1, FS_Interval
<1>3. \E i \in 1..K : i \notin InUse
  <2>1. SUFFICES ASSUME 1..K \subseteq InUse PROVE FALSE
    OBVIOUS
  <2>2. Cardinality(1..K) <= Cardinality(InUse)
    BY <1>1, <2>1, FS_Subset
  <2> QED BY <1>1, <1>2, <2>2
<1> QED BY <1>2, <1>3 DEF NewAttribute

(* A change of the attributes: the objects of kept hold what they held.    *)
Kept(kept) == \A x \in kept : x \in DOMAIN attr' /\ Then(x) = Val(x)

LEMMA OwnAttributeIs ==
  ASSUME SuccInv, UNCHANGED <<last, parent>>, NEW o \in DOMAIN attr, NEW v \in 0..MaxWrites,
         OwnAttribute(o, v), v = Val(o) \/ Leaf(Sys(o))
  PROVE  /\ DOMAIN attr' = DOMAIN attr /\ HeapTyped' /\ HeapSound'
         /\ Then(o) = v /\ Kept(DOMAIN attr \ {o})
<1>1. HeapTyped /\ HeapSound /\ None \notin Nat /\ o \in Objects
  BY Kinds DEF HeapTyped
<1>2. Predecessors' = Predecessors
  BY Kinds, SameTree
<1>3. CASE IsOwn(o)
  <2>1. /\ attr[o] \in DOMAIN owner /\ attr[o] # None /\ owner[attr[o]] = o
        /\ DOMAIN value = DOMAIN owner
    BY <1>1, <1>3 DEF IsOwn, HeapSound, HeapTyped
  <2>2. value' = [value EXCEPT ![attr[o]] = v] /\ attr' = attr /\ owner' = owner
    BY <1>3 DEF OwnAttribute
  <2>3. HeapTyped'
    BY <1>1, <2>2 DEF HeapTyped
  <2>4. HeapSound'
    BY <1>1, <1>2, <2>2 DEF HeapSound
  <2>5. Then(o) = v
    BY <2>1, <2>2 DEF Then, Value
  <2>6. ASSUME NEW x \in DOMAIN attr, x # o PROVE Then(x) = Val(x)
    <3>1. CASE attr[x] # attr[o]
      BY <2>1, <2>2, <3>1 DEF Then, Value, Val
    <3>2. CASE attr[x] = attr[o]
      <4>1. v = Val(o)
        BY <1>3, <2>6, <3>2, OwnUnshared
      <4> QED BY <2>1, <2>2, <3>2, <4>1 DEF Then, Value, Val
    <3> QED BY <3>1, <3>2
  <2> QED BY <2>2, <2>3, <2>4, <2>5, <2>6 DEF Kept
<1>4. CASE ~ IsOwn(o)
  <2> DEFINE a == NewAttribute
  <2>1. a \in Nat /\ a # None /\ a \notin DOMAIN owner /\ \A x \in DOMAIN attr : attr[x] # a
    BY <1>1, NewAttributeIs DEF InUse
  <2>2. /\ attr' = [attr EXCEPT ![o] = a]
        /\ owner' = [i \in DOMAIN owner \cup {a} |-> IF i = a THEN o ELSE owner[i]]
        /\ value' = [i \in DOMAIN value \cup {a} |-> IF i = a THEN v ELSE value[i]]
    BY <1>4 DEF OwnAttribute
  <2> HIDE DEF a
  <2>3. /\ DOMAIN attr' = DOMAIN attr /\ attr'[o] = a
        /\ \A x \in DOMAIN attr \ {o} : attr'[x] = attr[x]
        /\ DOMAIN owner' = DOMAIN owner \cup {a} /\ DOMAIN value' = DOMAIN value \cup {a}
        /\ owner'[a] = o /\ value'[a] = v
        /\ \A i \in DOMAIN owner : owner'[i] = owner[i] /\ value'[i] = value[i]
    BY <1>1, <2>1, <2>2 DEF HeapTyped
  <2>4. HeapTyped'
    <3>1. IsFiniteSet(DOMAIN owner')
      BY <1>1, <2>3, FS_AddElement DEF HeapTyped
    <3>2. \A i \in DOMAIN owner' : owner'[i] \in Objects /\ value'[i] \in 0..MaxWrites
      BY <1>1, <2>3 DEF HeapTyped
    <3>3. \A x \in DOMAIN attr' : attr'[x] \in Nat \cup {None}
      BY <1>1, <2>1, <2>3 DEF HeapTyped
    <3> QED BY <1>1, <2>1, <2>3, <3>1, <3>2, <3>3 DEF HeapTyped
  <2>5. HeapSound'
    <3>1. ASSUME NEW x \in DOMAIN attr', attr'[x] # None
          PROVE  /\ attr'[x] \in DOMAIN owner'
                 /\ owner'[attr'[x]] = x \/ Sys(owner'[attr'[x]]) \in Predecessors'[Sys(x)]
      <4>1. CASE x = o
        BY <2>3, <4>1
      <4>2. CASE x # o
        BY <1>1, <1>2, <2>3, <3>1, <4>2 DEF HeapSound
      <4> QED BY <4>1, <4>2
    <3>2. ASSUME NEW i \in DOMAIN owner'
          PROVE  owner'[i] \in DOMAIN attr' /\ attr'[owner'[i]] = i
      <4>1. CASE i = a
        BY <2>3, <4>1
      <4>2. CASE i # a
        <5>1. i \in DOMAIN owner /\ owner[i] \in DOMAIN attr /\ attr[owner[i]] = i /\ i # None
          BY <1>1, <2>3, <4>2 DEF HeapSound, HeapTyped
        <5>2. owner[i] # o
          BY <1>4, <5>1 DEF IsOwn
        <5> QED BY <2>3, <5>1, <5>2
      <4> QED BY <4>1, <4>2
    <3> QED BY <3>1, <3>2 DEF HeapSound
  <2>6. Then(o) = v
    BY <2>1, <2>3 DEF Then, Value
  <2>7. ASSUME NEW x \in DOMAIN attr, x # o PROVE Then(x) = Val(x)
    <3>1. attr'[x] = attr[x] /\ attr[x] # a
      BY <2>1, <2>3, <2>7
    <3>2. attr[x] # None => attr[x] \in DOMAIN value /\ value'[attr[x]] = value[attr[x]]
      BY <1>1, <2>3 DEF HeapSound, HeapTyped
    <3> QED BY <2>3, <3>1, <3>2 DEF Then, Value, Val
  <2> QED BY <2>3, <2>4, <2>5, <2>6, <2>7 DEF Kept
<1> QED BY <1>3, <1>4

(* What is deleted with o, in a leaf, nobody else points to.               *)
LEMMA Freed ==
  ASSUME SuccInv, NEW o \in DOMAIN attr, Leaf(Sys(o)), NEW x \in DOMAIN attr, x # o
  PROVE  attr[x] \notin Deletes(o)
<1>1. SUFFICES ASSUME attr[x] \in Deletes(o) PROVE FALSE
  OBVIOUS
<1>2. attr[x] = attr[o] /\ owner[attr[o]] = o /\ attr[x] \in DOMAIN owner
  BY <1>1 DEF Deletes
<1>3. IsOwn(o)
  BY <1>2, Kinds DEF HeapTyped, IsOwn
<1> QED BY <1>2, <1>3, OwnUnshared

LEMMA FreeAttributesIs ==
  ASSUME SuccInv, UNCHANGED <<last, parent>>, NEW o \in DOMAIN attr, Leaf(Sys(o)),
         NEW left, left \subseteq DOMAIN attr, DOMAIN attr \ {o} \subseteq left,
         DOMAIN attr' = left, o \in left => attr'[o] = None,
         \A x \in left \ {o} : attr'[x] = attr[x], FreeAttributes(Deletes(o))
  PROVE  /\ HeapTyped' /\ HeapSound' /\ Kept(DOMAIN attr \ {o})
         /\ o \in left => Then(o) = 0
<1> DEFINE gone == Deletes(o)
<1>1. HeapTyped /\ HeapSound /\ None \notin Nat /\ o \in Objects
  BY Kinds DEF HeapTyped
<1>2. Predecessors' = Predecessors
  BY Kinds, SameTree
<1>3. \A x \in DOMAIN attr \ {o} : attr[x] \notin gone
  BY Freed
<1>4. /\ DOMAIN owner' = DOMAIN owner \ gone /\ DOMAIN value' = DOMAIN value \ gone
      /\ \A i \in DOMAIN owner' : owner'[i] = owner[i] /\ value'[i] = value[i]
  BY <1>1 DEF FreeAttributes, HeapTyped
<1>5. \A i \in DOMAIN owner' : owner[i] # o
  BY <1>1, <1>4 DEF Deletes, HeapSound
<1> HIDE DEF gone
<1>6. HeapTyped'
  <2>1. IsFiniteSet(DOMAIN attr') /\ IsFiniteSet(DOMAIN owner')
    BY <1>1, <1>4, FS_Subset DEF HeapTyped
  <2>2. \A x \in DOMAIN attr' : attr'[x] \in Nat \cup {None}
    BY <1>1 DEF HeapTyped
  <2>3. \A i \in DOMAIN owner' : owner'[i] \in Objects /\ value'[i] \in 0..MaxWrites
    BY <1>1, <1>4 DEF HeapTyped
  <2> QED BY <1>1, <1>4, <2>1, <2>2, <2>3 DEF HeapTyped
<1>7. HeapSound'
  <2>1. ASSUME NEW x \in DOMAIN attr', attr'[x] # None
        PROVE  /\ attr'[x] \in DOMAIN owner'
               /\ owner'[attr'[x]] = x \/ Sys(owner'[attr'[x]]) \in Predecessors'[Sys(x)]
    <3>1. x # o /\ x \in DOMAIN attr /\ attr'[x] = attr[x]
      BY <2>1
    <3> QED BY <1>1, <1>2, <1>3, <1>4, <2>1, <3>1 DEF HeapSound
  <2>2. ASSUME NEW i \in DOMAIN owner'
        PROVE  owner'[i] \in DOMAIN attr' /\ attr'[owner'[i]] = i
    BY <1>1, <1>4, <1>5 DEF HeapSound
  <2> QED BY <2>1, <2>2 DEF HeapSound
<1>8. ASSUME NEW x \in DOMAIN attr, x # o PROVE x \in DOMAIN attr' /\ Then(x) = Val(x)
  <2>1. x \in left /\ attr'[x] = attr[x] /\ attr[x] \notin gone
    BY <1>3, <1>8
  <2>2. attr[x] # None => /\ attr[x] \in DOMAIN value /\ attr[x] \in DOMAIN value'
                          /\ value'[attr[x]] = value[attr[x]]
    BY <1>1, <1>4, <2>1 DEF HeapSound, HeapTyped
  <2> QED BY <2>1, <2>2 DEF Then, Value, Val
<1>9. o \in left => Then(o) = 0
  BY DEF Then, Value
<1> QED BY <1>6, <1>7, <1>8, <1>9 DEF Kept

(* An object that is made has its system and name and did not exist.       *)
LEMMA NewIs ==
  ASSUME NEW s \in Systems, NEW n \in Names, Fresh(s, n) # {}
  PROVE  /\ New(s, n) \in Objects /\ New(s, n) \notin DOMAIN attr
         /\ Sys(New(s, n)) = s /\ Name(New(s, n)) = n
<1>1. (CHOOSE i \in Fresh(s, n) : TRUE) \in Fresh(s, n)
  OBVIOUS
<1> QED BY <1>1 DEF New, Fresh, Objects, Sys, Name

(* A copy shares the attribute of its source, in a predecessor.            *)
LEMMA CopyIs ==
  ASSUME SuccInv, NodeNames = {}, UNCHANGED <<last, parent>>, NEW s \in Systems,
         NEW src \in SUBSET DOMAIN attr, \A o \in src : Sys(o) \in Up(s) /\ Sys(o) # s,
         \A o, p \in src : Name(o) = Name(p) => o = p,
         SuccessorCopy(s, src)
  PROVE  /\ HeapTyped' /\ HeapSound' /\ Kept(DOMAIN attr)
         /\ \A o \in src :
              /\ New(s, Name(o)) \in DOMAIN attr' /\ Then(New(s, Name(o))) = Val(o)
              /\ Sys(New(s, Name(o))) = s /\ Name(New(s, Name(o))) = Name(o)
              /\ componentNameMap'[s][Name(o)] = New(s, Name(o))
         /\ \A t \in Systems, n \in Names :
              t # s \/ (\A o \in src : Name(o) # n) =>
                componentNameMap'[t][n] = componentNameMap[t][n]
         /\ componentNameMap' \in [Systems -> [Names -> Objects \cup {None}]]
<1> DEFINE Copy(o) == New(s, Name(o))
           copies == {Copy(o) : o \in src}
           Source(c) == CHOOSE o \in src : New(s, Name(o)) = c
<1>1. /\ HeapTyped /\ HeapSound /\ TreeOK /\ None \notin Nat
      /\ \A o \in src : Name(o) \in Names /\ Sys(o) \in Systems
  BY Kinds DEF HeapTyped
<1>2. Predecessors' = Predecessors /\ TreeOK'
  BY <1>1, SameTree
<1>3. \A o \in src : /\ Copy(o) \in Objects /\ Copy(o) \notin DOMAIN attr
                     /\ Sys(Copy(o)) = s /\ Name(Copy(o)) = Name(o)
  BY <1>1, NewIs DEF SuccessorCopy
<1>4. \A o \in src : Source(Copy(o)) = o
  <2> TAKE o \in src
  <2>1. Source(Copy(o)) \in src /\ New(s, Name(Source(Copy(o)))) = Copy(o)
    OBVIOUS
  <2>2. Name(Source(Copy(o))) = Name(o)
    BY <1>3, <2>1
  <2> QED BY <2>1, <2>2
<1>5. /\ componentNameMap' = Registered(s, copies)
      /\ attr' = [o \in DOMAIN attr \cup copies |->
                    IF o \in DOMAIN attr THEN attr[o] ELSE attr[Source(o)]]
      /\ value' = value
  BY DEF SuccessorCopy
<1>6. owner' = [i \in DOMAIN owner |-> owner[i]]
  BY DEF SuccessorCopy, Owners
<1>7. IsFiniteSet(copies)
  <2> DEFINE f == [o \in src |-> Copy(o)]
  <2>1. f \in Surjection(src, copies)
    BY DEF Surjection
  <2>2. IsFiniteSet(src)
    BY <1>1, FS_Subset DEF HeapTyped
  <2> HIDE DEF f, copies
  <2> QED BY <2>1, <2>2, FS_Surjection
<1> HIDE DEF Copy, Source
<1>8. /\ DOMAIN attr' = DOMAIN attr \cup copies
      /\ \A o \in DOMAIN attr : attr'[o] = attr[o]
      /\ \A o \in src : attr'[Copy(o)] = attr[o]
  BY <1>3, <1>4, <1>5
<1>9. HeapTyped'
  <2>1. IsFiniteSet(DOMAIN attr')
    <3> HIDE DEF copies
    <3>1. IsFiniteSet(DOMAIN attr)
      BY <1>1 DEF HeapTyped
    <3>2. IsFiniteSet(DOMAIN attr \cup copies)
      BY <1>7, <3>1, FS_Union
    <3> QED BY <1>8, <3>2
  <2>2. DOMAIN attr' \subseteq Objects /\ \A o \in DOMAIN attr' : attr'[o] \in Nat \cup {None}
    BY <1>1, <1>3, <1>8 DEF HeapTyped
  <2> QED BY <1>1, <1>5, <1>6, <2>1, <2>2 DEF HeapTyped
<1>10. HeapSound'
  <2>1. ASSUME NEW x \in DOMAIN attr', attr'[x] # None
        PROVE  /\ attr'[x] \in DOMAIN owner'
               /\ owner'[attr'[x]] = x \/ Sys(owner'[attr'[x]]) \in Predecessors'[Sys(x)]
    <3>1. CASE x \in DOMAIN attr
      BY <1>1, <1>2, <1>6, <1>8, <2>1, <3>1 DEF HeapSound
    <3>2. CASE x \notin DOMAIN attr
      <4>1. PICK o \in src : x = Copy(o)
        BY <1>8, <3>2
      <4>2. attr'[x] = attr[o] /\ Sys(x) = s
        BY <1>3, <1>8, <4>1
      <4>3. /\ attr[o] \in DOMAIN owner
            /\ owner[attr[o]] = o \/ Sys(owner[attr[o]]) \in Predecessors[Sys(o)]
        BY <1>1, <2>1, <4>2 DEF HeapSound
      <4>4. /\ Sys(o) \in Predecessors[s]
            /\ Predecessors[Sys(o)] \subseteq Up(s) /\ s \notin Predecessors[Sys(o)]
        <5>1. Up(Sys(o)) \subseteq Up(s) /\ Sys(o) <= s
          BY <1>1, Predecessing
        <5>2. Predecessors[Sys(o)] = Up(Sys(o)) \ {Sys(o)} /\ Predecessors[s] = Up(s) \ {s}
          BY <1>1, Predecessing
        <5>3. \A t \in Up(Sys(o)) : t <= Sys(o)
          BY <1>1, Predecessing
        <5>4. s \notin Up(Sys(o))
          <6>1. s \in Nat /\ Sys(o) \in Nat /\ Sys(o) # s
            BY <1>1, SystemAssumption DEF Systems
          <6> QED BY <5>1, <5>3, <6>1
        <5> QED BY <5>1, <5>2, <5>4
      <4>5. Sys(owner[attr[o]]) \in Predecessors[s]
        <5>1. Predecessors[s] = Up(s) \ {s}
          BY <1>1, Predecessing
        <5> QED BY <4>3, <4>4, <5>1
      <4> QED BY <1>2, <1>6, <4>2, <4>3, <4>5
    <3> QED BY <3>1, <3>2
  <2>2. ASSUME NEW i \in DOMAIN owner'
        PROVE  owner'[i] \in DOMAIN attr' /\ attr'[owner'[i]] = i
    BY <1>1, <1>6, <1>8 DEF HeapSound
  <2> QED BY <2>1, <2>2 DEF HeapSound
<1>11. Kept(DOMAIN attr) /\ \A o \in src : Then(Copy(o)) = Val(o)
  BY <1>5, <1>8 DEF Kept, Then, Value, Val
<1>12. componentNameMap \in [Systems -> [Names -> Objects \cup {None}]]
  BY DEF SuccInv, Shaped
<1>13. \A n \in Names : componentNameMap'[s][n] =
         IF \E c \in copies : Name(c) = n THEN CHOOSE c \in copies : Name(c) = n
         ELSE componentNameMap[s][n]
  <2> HIDE DEF copies
  <2> QED BY <1>5, <1>12 DEF Registered
<1>14. \A o \in src : componentNameMap'[s][Name(o)] = Copy(o)
  <2> TAKE o \in src
  <2>1. Name(o) \in Names /\ Copy(o) \in copies /\ Name(Copy(o)) = Name(o)
    BY <1>1, <1>3
  <2>2. \A c \in copies : Name(c) = Name(o) => c = Copy(o)
    BY <1>3
  <2> HIDE DEF copies
  <2> QED BY <1>13, <2>1, <2>2
<1>15. \A t \in Systems, n \in Names :
         t # s \/ (\A o \in src : Name(o) # n) =>
           componentNameMap'[t][n] = componentNameMap[t][n]
  <2>1. \A t \in Systems, n \in Names : t # s => componentNameMap'[t][n] = componentNameMap[t][n]
    BY <1>5, <1>12 DEF Registered
  <2>2. \A n \in Names :
          (\A o \in src : Name(o) # n) => componentNameMap'[s][n] = componentNameMap[s][n]
    BY <1>3, <1>13
  <2> QED BY <2>1, <2>2
<1>16. componentNameMap' \in [Systems -> [Names -> Objects \cup {None}]]
  <2>1. \A n \in Names :
          (IF \E c \in copies : Name(c) = n THEN CHOOSE c \in copies : Name(c) = n
           ELSE componentNameMap[s][n]) \in Objects \cup {None}
    BY <1>3, <1>12
  <2> HIDE DEF copies
  <2> QED BY <1>5, <1>12, <2>1 DEF Registered
<1> QED BY <1>3, <1>8, <1>9, <1>10, <1>11, <1>14, <1>15, <1>16 DEF Copy

-----------------------------------------------------------------------------
(* What a step keeps *)

LEMMA FindIs ==
  ASSUME SuccInv, NEW s \in Systems, NEW n \in Names, Find[s][n] # None
  PROVE  /\ Find[s][n] \in DOMAIN attr /\ Name(Find[s][n]) = n /\ Sys(Find[s][n]) \in Up(s)
         /\ componentNameMap[s][n] = None => Sys(Find[s][n]) # s
         /\ Val(Find[s][n]) = Reads[s][n]
<1> DEFINE Good(t) == /\ Find[t][n] \in DOMAIN attr /\ Name(Find[t][n]) = n
                      /\ Sys(Find[t][n]) \in Up(t)
                      /\ componentNameMap[t][n] = None => Sys(Find[t][n]) # t
           Bad == {t \in Systems : Find[t][n] # None /\ ~ Good(t)}
<1>1. TreeOK
  BY DEF SuccInv
<1>2. \A t \in Systems :
        Find[t][n] = IF componentNameMap[t][n] # None \/ parent[t] = None
                     THEN componentNameMap[t][n] ELSE Find[parent[t]][n]
  BY <1>1, FindUnfolds DEF Derived
<1>3. \A t \in Systems : t \in Nat /\ (parent[t] # None =>
                          parent[t] \in Systems /\ parent[t] \in Nat /\ parent[t] < t)
  <2>1. \A t \in Systems : t \in Nat
    BY SystemAssumption DEF Systems
  <2> QED BY <1>1, <2>1 DEF TreeOK, Tree
<1>4. \A t \in Systems : componentNameMap[t][n] # None =>
        /\ componentNameMap[t][n] \in DOMAIN attr
        /\ Sys(componentNameMap[t][n]) = t /\ Name(componentNameMap[t][n]) = n
  BY Kinds
<1>5. ASSUME Bad # {} PROVE FALSE
  <2>1. Bad \in SUBSET Nat
    BY <1>3
  <2>2. PICK t \in Bad : \A u \in Bad : t <= u
    <3> HIDE DEF Bad
    <3> QED BY <1>5, <2>1, LeastExists
  <2>3. t \in Systems /\ Find[t][n] # None /\ ~ Good(t)
    BY <2>2
  <2>4. t \in Up(t)
    BY <1>1, <2>3, Predecessing
  <2>5. componentNameMap[t][n] = None
    BY <1>2, <1>4, <2>3, <2>4
  <2>6. parent[t] # None /\ Find[t][n] = Find[parent[t]][n]
    BY <1>2, <2>3, <2>5
  <2>7. t \in Nat /\ parent[t] \in Systems /\ parent[t] \in Nat /\ parent[t] < t
    BY <1>3, <2>3, <2>6
  <2>8. parent[t] \notin Bad
    <3>1. ~ (t <= parent[t])
      BY <2>7
    <3> QED BY <2>2, <3>1
  <2>9. Good(parent[t])
    BY <2>3, <2>6, <2>7, <2>8
  <2>10. Up(parent[t]) \subseteq Up(t) /\ \A u \in Up(parent[t]) : u <= parent[t] /\ u \in Nat
    <3>1. Up(parent[t]) \subseteq Up(t)
      BY <1>1, <2>3, <2>6, Predecessing
    <3>2. \A u \in Up(parent[t]) : u <= parent[t] /\ u \in Systems
      BY <1>1, <2>7, Predecessing
    <3> QED BY <1>3, <3>1, <3>2
  <2>11. t \notin Up(parent[t])
    <3>1. ~ (t <= parent[t])
      BY <2>7
    <3> QED BY <2>10, <3>1
  <2> QED BY <2>3, <2>6, <2>9, <2>10, <2>11
<1>6. Val(Find[s][n]) = Reads[s][n]
  BY DEF Reads, Lookup
<1> QED BY <1>5, <1>6

(* The type invariant and the shape, after a step that makes no system.    *)
LEMMA Restored ==
  ASSUME SuccInv, UNCHANGED <<last, parent>>, HeapTyped', HeapSound', Viewing',
         componentNameMap' \in [Systems -> [Names -> Objects \cup {None}]],
         \A s \in Systems, n \in Names :
           componentNameMap'[s][n] # None =>
             /\ s \in 0..last /\ componentNameMap'[s][n] \in DOMAIN attr'
             /\ Sys(componentNameMap'[s][n]) = s /\ Name(componentNameMap'[s][n]) = n,
         listed' \in [Systems -> SUBSET Objects], clock' \in 0..MaxWrites
  PROVE  SuccInv'
<1>1. TreeOK'
  BY SameTree DEF SuccInv
<1>2. TypeOK'
  BY DEF SuccInv, TypeOK, HeapTyped
<1>3. Shaped'
  <2>1. \A s \in Systems : s > last => s \notin 0..last
    BY SystemAssumption DEF SuccInv, TypeOK, Systems
  <2> QED BY <2>1 DEF SuccInv, Shaped, HeapTyped
<1> QED BY <1>1, <1>2, <1>3 DEF SuccInv

LEMMA Unread ==
  ASSUME SuccInv, UNCHANGED <<last, parent>>, Kept(DOMAIN attr),
         \A s \in Systems, n \in Names :
           \/ componentNameMap'[s][n] = componentNameMap[s][n]
           \/ /\ componentNameMap'[s][n] # None
              /\ Then(componentNameMap'[s][n]) = Reads[s][n]
  PROVE  \A s \in Systems, n \in Names : Reads'[s][n] = Reads[s][n]
<1>1. TreeOK /\ TreeOK'
  BY SameTree DEF SuccInv
<1>2. \A s \in Systems : parent[s] # None => parent[s] \in Systems
  BY <1>1 DEF TreeOK, Tree
<1>3. \A s \in Systems, n \in Names :
        componentNameMap[s][n] # None =>
          /\ componentNameMap[s][n] \in DOMAIN attr
          /\ Reads[s][n] = Val(componentNameMap[s][n])
  BY <1>1, Kinds, LookupUnfolds DEF Val, Value
<1>4. \A s \in Systems, n \in Names :
        /\ componentNameMap'[s][n] # None => Then(componentNameMap'[s][n]) = Reads[s][n]
        /\ componentNameMap'[s][n] = None => componentNameMap[s][n] = None
  BY <1>3 DEF Kept
<1> QED BY <1>1, <1>2, <1>4, LookupKept

(* A component stays listed when what it holds and its system reads of its *)
(* name stay what they are.                                                *)
LEMMA StillShown ==
  ASSUME SuccInv, UNCHANGED <<last, parent>>, NEW s \in 0..last, NEW o \in listed[s],
         o \in DOMAIN attr', Then(o) = Val(o),
         Reads'[s][Name(o)] = Reads[s][Name(o)],
         Sys(o) = s => componentNameMap'[s][Name(o)] = componentNameMap[s][Name(o)],
         Sys(o) # s => Reads'[parent[s]][Name(o)] = Reads[parent[s]][Name(o)]
  PROVE  Shown(s, o)'
<1>1. Shown(s, o)
  BY DEF SuccInv, Viewing
<1>2. Up(s)' = Up(s)
  BY SameTree DEF SuccInv
<1>3. Val(o)' = Then(o)
  BY DEF Val, Then, Value
<1> QED BY <1>1, <1>2, <1>3 DEF Shown

OnlyAt(s, n) ==
  \A t \in Systems, m \in Names : t # s \/ m # n => Reads'[t][m] = Reads[t][m]

(* A step that changes what a leaf holds of one name.                      *)
LEMMA LeafReads ==
  ASSUME SuccInv, UNCHANGED <<last, parent>>, NEW s \in Systems, NEW n \in Names, Leaf(s),
         Kept({x \in DOMAIN attr : Sys(x) # s \/ Name(x) # n}),
         \A t \in Systems, m \in Names :
           t # s \/ m # n => componentNameMap'[t][m] = componentNameMap[t][m]
  PROVE  /\ OnlyAt(s, n)
         /\ Reads'[s][n] =
              IF componentNameMap'[s][n] # None THEN Then(componentNameMap'[s][n])
              ELSE IF parent[s] = None THEN None ELSE Reads[parent[s]][n]
<1> DEFINE D == Systems \ {s}
<1>1. TreeOK /\ TreeOK'
  BY SameTree DEF SuccInv
<1>2. \A t \in Systems : parent[t] # s /\ (parent[t] # None => parent[t] \in D)
  BY <1>1 DEF Leaf, TreeOK, Tree
<1>3. \A t \in Systems, m \in Names :
        componentNameMap[t][m] # None =>
          /\ componentNameMap[t][m] \in DOMAIN attr
          /\ Reads[t][m] = Val(componentNameMap[t][m])
          /\ Sys(componentNameMap[t][m]) = t /\ Name(componentNameMap[t][m]) = m
  BY <1>1, Kinds, LookupUnfolds DEF Val, Value
<1>4. \A t \in Systems, m \in Names : t # s \/ m # n =>
        /\ componentNameMap'[t][m] # None => Then(componentNameMap'[t][m]) = Reads[t][m]
        /\ componentNameMap'[t][m] = None => componentNameMap[t][m] = None
  BY <1>3 DEF Kept
<1>5. \A t \in D, m \in Names : Reads'[t][m] = Reads[t][m]
  <2>1. D \in SUBSET Systems /\ \A t \in D : t # s
    OBVIOUS
  <2> HIDE DEF D
  <2> QED BY <1>1, <1>2, <1>4, <2>1, LookupKept
<1>6. \A m \in Names :
        Reads'[s][m] = IF componentNameMap'[s][m] # None THEN Then(componentNameMap'[s][m])
                       ELSE IF parent[s] = None THEN None ELSE Reads[parent[s]][m]
  BY <1>1, <1>2, <1>5, LookupUnfoldsThen
<1>7. \A m \in Names : m # n => Reads'[s][m] = Reads[s][m]
  <2>1. \A m \in Names :
          Reads[s][m] = IF componentNameMap[s][m] # None
                        THEN Value(attr, value, componentNameMap[s][m])
                        ELSE IF parent[s] = None THEN None ELSE Reads[parent[s]][m]
    BY <1>1, LookupUnfolds
  <2> TAKE m \in Names
  <2> HAVE m # n
  <2>2. componentNameMap'[s][m] = componentNameMap[s][m]
    OBVIOUS
  <2>3. CASE componentNameMap[s][m] # None
    BY <1>4, <1>6, <2>2, <2>3
  <2>4. CASE componentNameMap[s][m] = None
    BY <1>6, <2>1, <2>2, <2>4
  <2> QED BY <2>3, <2>4
<1> QED BY <1>5, <1>6, <1>7 DEF OnlyAt

LEMMA LeafViews ==
  ASSUME SuccInv, UNCHANGED <<last, parent>>, NEW s \in Systems, NEW n \in Names, Leaf(s),
         OnlyAt(s, n), Kept({x \in DOMAIN attr : Sys(x) # s \/ Name(x) # n}),
         \A t \in Systems, m \in Names :
           t # s \/ m # n => componentNameMap'[t][m] = componentNameMap[t][m],
         \A t \in 0..last : \A x \in listed'[t] : x \in listed[t] \/ (t = s /\ Name(x) = n),
         \A x \in listed'[s] : Name(x) = n => Shown(s, x)',
         \A x, y \in listed'[s] : Name(x) = n /\ Name(y) = n => x = y
  PROVE  Viewing'
<1>1. SUFFICES ASSUME NEW t \in 0..last
               PROVE  /\ \A x \in listed'[t] : Shown(t, x)'
                      /\ \A x, y \in listed'[t] : Name(x) = Name(y) => x = y
  BY DEF Viewing
<1>2. t \in Systems /\ TreeOK
  BY Kinds
<1>3. \A x, y \in listed'[t] : Name(x) = Name(y) => x = y
  <2>1. \A x, y \in listed[t] : Name(x) = Name(y) => x = y
    BY DEF SuccInv, Viewing
  <2> QED BY <2>1
<1>4. ASSUME NEW x \in listed'[t], t # s \/ Name(x) # n
      PROVE  Shown(t, x)'
  <2>1. x \in listed[t] /\ Shown(t, x)
    BY <1>4 DEF SuccInv, Viewing
  <2>2. x \in DOMAIN attr /\ Sys(x) \in Up(t) /\ Name(x) \in Names
    BY <2>1, Kinds DEF Shown, HeapTyped
  <2>3. Sys(x) # s \/ Name(x) # n
    BY <1>2, <1>4, <2>2, LeafApart
  <2>4. x \in DOMAIN attr' /\ Then(x) = Val(x)
    BY <2>2, <2>3 DEF Kept
  <2>5. Sys(x) # t => parent[t] \in Systems /\ parent[t] # s
    <3>1. Sys(x) # t => parent[t] # None
      BY <1>2, <2>2, Predecessing
    <3> QED BY <1>2, <3>1, LeafApart DEF TreeOK, Tree
  <2>6. /\ Reads'[t][Name(x)] = Reads[t][Name(x)]
        /\ Sys(x) # t => Reads'[parent[t]][Name(x)] = Reads[parent[t]][Name(x)]
    BY <1>2, <1>4, <2>2, <2>5 DEF OnlyAt
  <2>7. Sys(x) = t => componentNameMap'[t][Name(x)] = componentNameMap[t][Name(x)]
    BY <1>2, <1>4, <2>2
  <2> QED BY <2>1, <2>4, <2>6, <2>7, StillShown
<1> QED BY <1>3, <1>4

-----------------------------------------------------------------------------
(* Steps that nobody sees *)

Same == UNCHANGED <<last, parent>> /\ \A s \in Systems, n \in Names : Reads'[s][n] = Reads[s][n]

LEMMA InitSucc == Init => SuccInv /\ \A s \in Systems, n \in Names : Reads[s][n] = None
<1> SUFFICES ASSUME Init
             PROVE  SuccInv /\ \A s \in Systems, n \in Names : Reads[s][n] = None
  OBVIOUS
<1> USE DEF Init
<1>1. DOMAIN attr = {} /\ DOMAIN owner = {} /\ DOMAIN value = {}
  OBVIOUS
<1>2. TypeOK
  <2>1. 0 \in 0..MaxWrites /\ 0 \in Systems
    BY CopyAssumption, SystemAssumption DEF Systems
  <2> QED BY <1>1, <2>1 DEF TypeOK
<1>3. TreeOK
  BY NoneAssumption, SystemAssumption DEF TreeOK, Tree, Systems
<1>4. Shaped
  BY <1>1, FS_EmptySet DEF Shaped
<1>5. HeapSound
  BY <1>1 DEF HeapSound
<1>6. Viewing
  <2>1. \A s \in 0..last : s \in Systems
    BY SystemAssumption DEF Systems
  <2> QED BY <2>1 DEF Viewing
<1>7. \A s \in Systems, n \in Names : Reads[s][n] = None
  BY <1>3, LookupUnfolds
<1> QED BY <1>2, <1>3, <1>4, <1>5, <1>6, <1>7 DEF SuccInv

(* What both getComponent and getComponents do to the lookups.             *)
LEMMA CopyUnread ==
  ASSUME SuccInv, NodeNames = {}, UNCHANGED <<last, parent>>, NEW s \in 0..last,
         NEW src \in SUBSET DOMAIN attr,
         \A o \in src : Sys(o) \in Up(s) /\ Sys(o) # s /\ Val(o) = Reads[s][Name(o)],
         \A o, p \in src : Name(o) = Name(p) => o = p,
         SuccessorCopy(s, src)
  PROVE  Same
<1>1. s \in Systems
  BY Kinds
<1>2. Kept(DOMAIN attr)
  BY <1>1, CopyIs
<1>3. ASSUME NEW t \in Systems, NEW n \in Names
      PROVE  \/ componentNameMap'[t][n] = componentNameMap[t][n]
             \/ /\ componentNameMap'[t][n] # None
                /\ Then(componentNameMap'[t][n]) = Reads[t][n]
  <2>1. CASE t # s \/ \A o \in src : Name(o) # n
    BY <1>1, <2>1, CopyIs
  <2>2. CASE t = s /\ \E o \in src : Name(o) = n
    <3>1. PICK o \in src : Name(o) = n
      BY <2>2
    <3>2. /\ HeapTyped'
          /\ New(s, n) \in DOMAIN attr' /\ Then(New(s, n)) = Val(o)
          /\ componentNameMap'[s][n] = New(s, n)
      BY <1>1, <3>1, CopyIs
    <3>3. New(s, n) # None
      <4>1. New(s, n) \in Objects
        BY <3>2 DEF HeapTyped
      <4> QED BY <4>1, Kinds
    <3> QED BY <2>2, <3>1, <3>2, <3>3
  <2> QED BY <2>1, <2>2
<1> QED BY <1>2, <1>3, Unread DEF Same

LEMMA CopyNames ==
  ASSUME SuccInv, NodeNames = {}, UNCHANGED <<last, parent>>, NEW s \in 0..last,
         NEW src \in SUBSET DOMAIN attr, \A o \in src : Sys(o) \in Up(s) /\ Sys(o) # s,
         \A o, p \in src : Name(o) = Name(p) => o = p,
         SuccessorCopy(s, src),
         NEW t \in Systems, NEW n \in Names, componentNameMap'[t][n] # None
  PROVE  /\ t \in 0..last /\ componentNameMap'[t][n] \in DOMAIN attr'
         /\ Sys(componentNameMap'[t][n]) = t /\ Name(componentNameMap'[t][n]) = n
<1>1. s \in Systems
  BY Kinds
<1>2. CASE t # s \/ \A o \in src : Name(o) # n
  <2>1. componentNameMap'[t][n] = componentNameMap[t][n]
    BY <1>1, <1>2, CopyIs
  <2>2. /\ componentNameMap[t][n] \in DOMAIN attr
        /\ Sys(componentNameMap[t][n]) = t /\ Name(componentNameMap[t][n]) = n
    BY <2>1, Kinds
  <2>3. t \in 0..last
    <3>1. ~ (t > last)
      BY <2>1 DEF SuccInv, Shaped
    <3> QED BY <3>1, SystemAssumption DEF SuccInv, TypeOK, Systems
  <2>4. Kept(DOMAIN attr)
    BY <1>1, CopyIs
  <2> QED BY <2>1, <2>2, <2>3, <2>4 DEF Kept
<1>3. CASE t = s /\ \E o \in src : Name(o) = n
  <2>1. PICK o \in src : Name(o) = n
    BY <1>3
  <2>2. /\ New(s, n) \in DOMAIN attr' /\ Sys(New(s, n)) = s /\ Name(New(s, n)) = n
        /\ componentNameMap'[s][n] = New(s, n)
    BY <1>1, <2>1, CopyIs
  <2> QED BY <1>3, <2>2
<1> QED BY <1>2, <1>3

LEMMA GetComponentKeeps ==
  ASSUME SuccInv, NodeNames = {}, NEW s \in 0..last, NEW n \in Names, GetComponent(s, n)
  PROVE  SuccInv' /\ Same
<1> DEFINE f == Find[s][n]
           src == {f}
<1>1. s \in Systems /\ HeapTyped /\ TreeOK
  BY Kinds
<1>2. /\ UNCHANGED <<last, parent, listed, clock>> /\ SuccessorCopy(s, src)
      /\ componentNameMap[s][n] = None
  BY DEF GetComponent
<1>3. /\ src \in SUBSET DOMAIN attr
      /\ \A o \in src : /\ Sys(o) \in Up(s) /\ Sys(o) # s
                        /\ Val(o) = Reads[s][Name(o)] /\ Name(o) = n
  BY <1>1, FindIs DEF GetComponent
<1>4. \A o, p \in src : Name(o) = Name(p) => o = p
  OBVIOUS
<1> HIDE DEF f, src
<1>5. Same
  BY <1>2, <1>3, <1>4, CopyUnread
<1>6. /\ HeapTyped' /\ HeapSound' /\ Kept(DOMAIN attr)
      /\ componentNameMap' \in [Systems -> [Names -> Objects \cup {None}]]
      /\ \A t \in Systems, m \in Names :
           t # s \/ m # n => componentNameMap'[t][m] = componentNameMap[t][m]
  BY <1>1, <1>2, <1>3, <1>4, CopyIs
<1>7. \A t \in Systems, m \in Names :
        componentNameMap'[t][m] # None =>
          /\ t \in 0..last /\ componentNameMap'[t][m] \in DOMAIN attr'
          /\ Sys(componentNameMap'[t][m]) = t /\ Name(componentNameMap'[t][m]) = m
  BY <1>2, <1>3, <1>4, CopyNames
<1>8. Viewing'
  <2>1. ASSUME NEW t \in 0..last, NEW o \in listed[t]
        PROVE  Shown(t, o)'
    <3>1. Shown(t, o) /\ t \in Systems
      BY Kinds DEF SuccInv, Viewing
    <3>2. o \in DOMAIN attr /\ o \in Objects /\ Name(o) \in Names
      BY <1>1, <3>1, Kinds DEF Shown, HeapTyped
    <3>3. Sys(o) # t => parent[t] \in Systems
      <4>1. Sys(o) # t => parent[t] # None
        BY <1>1, <3>1, Predecessing DEF Shown
      <4> QED BY <1>1, <3>1, <4>1 DEF TreeOK, Tree
    <3>4. Sys(o) = t => componentNameMap'[t][Name(o)] = componentNameMap[t][Name(o)]
      BY <1>2, <1>6, <3>1, <3>2, Kinds DEF Shown
    <3> QED BY <1>2, <1>5, <1>6, <3>1, <3>2, <3>3, <3>4, StillShown DEF Same, Kept
  <2> QED BY <1>2, <2>1 DEF SuccInv, Viewing
<1>9. SuccInv'
  BY <1>2, <1>6, <1>7, <1>8, Restored DEF SuccInv, TypeOK
<1> QED BY <1>5, <1>9

LEMMA GetComponentsKeeps ==
  ASSUME SuccInv, NodeNames = {}, NEW s \in 0..last, GetComponents(s)
  PROVE  SuccInv' /\ Same
<1> DEFINE src == Foreign(s)
<1>1. s \in Systems /\ HeapTyped /\ TreeOK
  BY Kinds
<1>2. /\ UNCHANGED <<last, parent, clock>> /\ SuccessorCopy(s, src)
      /\ listed' = [listed EXCEPT ![s] = Migrated(s)]
  BY DEF GetComponents
<1>3. /\ src \in SUBSET DOMAIN attr
      /\ \A o \in src : /\ Sys(o) \in Up(s) /\ Sys(o) # s
                        /\ Val(o) = Reads[s][Name(o)] /\ Name(o) \in Names
  BY <1>1, Kinds DEF Foreign, SuccInv, Viewing, Shown, HeapTyped
<1>4. \A o, p \in listed[s] : Name(o) = Name(p) => o = p
  BY DEF SuccInv, Viewing
<1>5. \A o, p \in src : Name(o) = Name(p) => o = p
  BY <1>4 DEF Foreign
<1>6. listed[s] = src \cup {o \in listed[s] : Sys(o) = s} /\ src \subseteq listed[s]
  BY DEF Foreign
<1>7. /\ Migrated(s) = {o \in listed[s] : Sys(o) = s} \cup {New(s, Name(o)) : o \in src}
      /\ listed'[s] = Migrated(s) /\ \A t \in Systems : t # s => listed'[t] = listed[t]
  BY <1>1, <1>2 DEF Migrated, Foreign, SuccInv, TypeOK
<1> HIDE DEF src
<1>8. Same
  BY <1>2, <1>3, <1>5, CopyUnread
<1>9. /\ HeapTyped' /\ HeapSound' /\ Kept(DOMAIN attr)
      /\ componentNameMap' \in [Systems -> [Names -> Objects \cup {None}]]
      /\ \A t \in Systems, m \in Names :
           t # s \/ (\A o \in src : Name(o) # m) =>
             componentNameMap'[t][m] = componentNameMap[t][m]
      /\ \A o \in src :
           /\ New(s, Name(o)) \in DOMAIN attr' /\ Then(New(s, Name(o))) = Val(o)
           /\ Sys(New(s, Name(o))) = s /\ Name(New(s, Name(o))) = Name(o)
           /\ componentNameMap'[s][Name(o)] = New(s, Name(o))
  BY <1>1, <1>2, <1>3, <1>5, CopyIs
<1>10. \A t \in Systems, m \in Names :
         componentNameMap'[t][m] # None =>
           /\ t \in 0..last /\ componentNameMap'[t][m] \in DOMAIN attr'
           /\ Sys(componentNameMap'[t][m]) = t /\ Name(componentNameMap'[t][m]) = m
  BY <1>2, <1>3, <1>5, CopyNames
<1>11. ASSUME NEW t \in 0..last, NEW o \in listed[t], t # s \/ Sys(o) = s
       PROVE  Shown(t, o)'
  <2>1. Shown(t, o) /\ t \in Systems
    BY Kinds DEF SuccInv, Viewing
  <2>2. o \in DOMAIN attr /\ o \in Objects /\ Name(o) \in Names
    BY <1>1, <2>1, Kinds DEF Shown, HeapTyped
  <2>3. Sys(o) # t => parent[t] \in Systems
    <3>1. Sys(o) # t => parent[t] # None
      BY <1>1, <2>1, Predecessing DEF Shown
    <3> QED BY <1>1, <2>1, <3>1 DEF TreeOK, Tree
  <2>4. t = s => \A p \in src : Name(p) # Name(o)
    BY <1>3, <1>4, <1>6, <1>11
  <2>5. componentNameMap'[t][Name(o)] = componentNameMap[t][Name(o)]
    BY <1>9, <2>1, <2>2, <2>4
  <2> QED BY <1>2, <1>8, <1>9, <2>1, <2>2, <2>3, <2>5, StillShown DEF Same, Kept
<1>12. ASSUME NEW o \in src, NEW c, c = New(s, Name(o)) PROVE Shown(s, c)'
  <2>1. s \in Up(s)'
    BY <1>1, <1>2, SameTree, Predecessing
  <2>2. /\ c \in DOMAIN attr' /\ Sys(c) = s /\ Then(c) = Reads'[s][Name(c)]
        /\ componentNameMap'[s][Name(c)] = c
    BY <1>1, <1>3, <1>8, <1>9, <1>12 DEF Same
  <2>3. Val(c)' = Then(c)
    BY DEF Val, Then, Value
  <2> QED BY <2>1, <2>2, <2>3 DEF Shown
<1>13. Viewing'
  <2>1. ASSUME NEW t \in 0..last, NEW o \in listed'[t]
        PROVE  Shown(t, o)'
    <3>1. t \in Systems
      BY Kinds
    <3>2. CASE t # s
      BY <1>7, <1>11, <3>1, <3>2
    <3>3. CASE t = s /\ o \in listed[s] /\ Sys(o) = s
      BY <1>11, <3>3
    <3>4. CASE t = s /\ \E p \in src : o = New(s, Name(p))
      <4>1. PICK p \in src : o = New(s, Name(p))
        BY <3>4
      <4> QED BY <1>12, <3>4, <4>1
    <3> QED BY <1>7, <3>2, <3>3, <3>4
  <2>2. ASSUME NEW t \in 0..last, NEW o \in listed'[t], NEW p \in listed'[t], Name(o) = Name(p)
        PROVE  o = p
    <3>1. t \in Systems
      BY Kinds
    <3>2. CASE t # s
      BY <1>7, <2>2, <3>1, <3>2 DEF SuccInv, Viewing
    <3>3. CASE t = s
      <4>1. \A x \in listed'[s] : \E y \in listed[s] :
              /\ Name(y) = Name(x) /\ x = IF y \in src THEN New(s, Name(y)) ELSE y
        BY <1>3, <1>6, <1>7, <1>9
      <4> QED BY <1>4, <2>2, <3>3, <4>1
    <3> QED BY <3>2, <3>3
  <2> QED BY <1>2, <2>1, <2>2 DEF Viewing
<1>14. listed' \in [Systems -> SUBSET Objects]
  <2>1. Migrated(s) \subseteq Objects
    <3>1. {New(s, Name(o)) : o \in src} \subseteq Objects
      BY <1>9 DEF HeapTyped
    <3>2. listed[s] \subseteq Objects
      BY <1>1 DEF SuccInv, TypeOK
    <3> QED BY <1>7, <3>1, <3>2
  <2> QED BY <1>2, <2>1 DEF SuccInv, TypeOK
<1>15. SuccInv'
  BY <1>2, <1>9, <1>10, <1>13, <1>14, Restored DEF SuccInv, TypeOK
<1> QED BY <1>8, <1>15

(* Steps that leave the names alone. *)
LEMMA NamesKept ==
  ASSUME SuccInv, UNCHANGED componentNameMap, DOMAIN attr \subseteq DOMAIN attr',
         NEW t \in Systems, NEW n \in Names, componentNameMap'[t][n] # None
  PROVE  /\ t \in 0..last /\ componentNameMap'[t][n] \in DOMAIN attr'
         /\ Sys(componentNameMap'[t][n]) = t /\ Name(componentNameMap'[t][n]) = n
<1>1. /\ componentNameMap[t][n] \in DOMAIN attr
      /\ Sys(componentNameMap[t][n]) = t /\ Name(componentNameMap[t][n]) = n
  BY Kinds
<1>2. t \in 0..last
  <2>1. ~ (t > last)
    BY DEF SuccInv, Shaped
  <2> QED BY <2>1, SystemAssumption DEF SuccInv, TypeOK, Systems
<1> QED BY <1>1, <1>2

LEMMA HeapUntouched ==
  ASSUME SuccInv, UNCHANGED <<last, parent, heap>>
  PROVE  HeapTyped' /\ HeapSound' /\ Kept(DOMAIN attr)
<1>1. HeapTyped /\ HeapSound /\ Predecessors' = Predecessors
  BY Kinds, SameTree
<1>2. attr' = attr /\ owner' = owner /\ value' = value
  BY DEF heap
<1>3. HeapTyped'
  BY <1>1, <1>2 DEF HeapTyped
<1>4. HeapSound'
  BY <1>1, <1>2 DEF HeapSound
<1>5. Kept(DOMAIN attr)
  BY <1>2 DEF Kept, Then, Value, Val
<1> QED BY <1>3, <1>4, <1>5

(* A view lists what it listed, or a component of its system as well.      *)
LEMMA ListedKept ==
  ASSUME SuccInv, UNCHANGED <<last, parent, componentNameMap>>, Same, Kept(DOMAIN attr),
         NEW s \in 0..last,
         \A t \in 0..last : \A x \in listed'[t] :
           \/ x \in listed[t]
           \/ /\ t = s /\ x \in DOMAIN attr /\ Sys(x) = s /\ componentNameMap[s][Name(x)] = x
              /\ \A y \in listed[s] : Name(y) # Name(x)
  PROVE  Viewing'
<1>1. HeapTyped /\ TreeOK /\ \A t \in 0..last : t \in Systems
  BY Kinds
<1>2. ASSUME NEW t \in 0..last, NEW x \in listed[t]
      PROVE  Shown(t, x)'
  <2>1. Shown(t, x) /\ t \in Systems
    BY <1>1 DEF SuccInv, Viewing
  <2>2. x \in DOMAIN attr /\ Name(x) \in Names
    BY <1>1, <2>1, Kinds DEF Shown, HeapTyped
  <2>3. Sys(x) # t => parent[t] \in Systems
    <3>1. Sys(x) # t => parent[t] # None
      BY <1>1, <2>1, Predecessing DEF Shown
    <3> QED BY <1>1, <2>1, <3>1 DEF TreeOK, Tree
  <2> QED BY <2>1, <2>2, <2>3, StillShown DEF Same, Kept
<1>3. ASSUME NEW x \in DOMAIN attr, Sys(x) = s, componentNameMap[s][Name(x)] = x
      PROVE  Shown(s, x)'
  <2>1. s \in Up(s)'
    BY <1>1, SameTree, Predecessing
  <2>2. Name(x) \in Names /\ x # None
    BY <1>1, Kinds DEF HeapTyped
  <2>3. Val(x) = Reads[s][Name(x)]
    BY <1>1, <1>3, <2>2, LookupUnfolds DEF Val, Value
  <2>4. x \in DOMAIN attr' /\ Then(x) = Reads'[s][Name(x)]
    BY <1>1, <2>2, <2>3 DEF Kept, Same
  <2>5. Val(x)' = Then(x)
    BY DEF Val, Then, Value
  <2> QED BY <1>3, <2>1, <2>4, <2>5 DEF Shown
<1>4. ASSUME NEW t \in 0..last, NEW x \in listed'[t] PROVE Shown(t, x)'
  BY <1>2, <1>3, <1>4
<1>5. ASSUME NEW t \in 0..last, NEW x \in listed'[t], NEW y \in listed'[t], Name(x) = Name(y)
      PROVE  x = y
  BY <1>5 DEF SuccInv, Viewing
<1> QED BY <1>4, <1>5 DEF Viewing

LEMMA ViewKeeps ==
  ASSUME SuccInv, NEW s \in 0..last, NEW n \in Names,
         AddComponentToView(s, n) \/ RemoveComponentFromView(s, n)
  PROVE  SuccInv' /\ Same
<1> DEFINE o == componentNameMap[s][n]
<1>1. /\ UNCHANGED <<last, parent, componentNameMap, heap, clock>>
      /\ attr' = attr
  BY DEF AddComponentToView, RemoveComponentFromView, heap
<1>2. HeapTyped' /\ HeapSound' /\ Kept(DOMAIN attr)
  BY <1>1, HeapUntouched
<1>3. Same
  BY <1>1, <1>2, Unread DEF Same
<1>4. listed \in [Systems -> SUBSET Objects] /\ s \in Systems /\ HeapTyped
  BY Kinds DEF SuccInv, TypeOK
<1>5. CASE AddComponentToView(s, n)
  <2>1. /\ listed' = [listed EXCEPT ![s] = @ \cup {o}]
        /\ o # None /\ \A y \in listed[s] : Name(y) # n
    BY <1>5 DEF AddComponentToView
  <2>2. o \in DOMAIN attr /\ Sys(o) = s /\ Name(o) = n
    BY <1>4, <2>1, Kinds
  <2>3. Viewing'
    BY <1>1, <1>2, <1>3, <1>4, <2>1, <2>2, ListedKept
  <2>4. listed' \in [Systems -> SUBSET Objects]
    BY <1>4, <2>1, <2>2 DEF HeapTyped
  <2> QED BY <1>1, <1>2, <1>3, <2>3, <2>4, NamesKept, Restored DEF SuccInv, Shaped, TypeOK
<1>6. CASE RemoveComponentFromView(s, n)
  <2>1. listed' = [listed EXCEPT ![s] = @ \ {o}]
    BY <1>6 DEF RemoveComponentFromView, Unlisted
  <2>2. Viewing'
    BY <1>1, <1>2, <1>3, <1>4, <2>1, ListedKept
  <2>3. listed' \in [Systems -> SUBSET Objects]
    BY <1>4, <2>1
  <2> QED BY <1>1, <1>2, <1>3, <2>2, <2>3, NamesKept, Restored DEF SuccInv, Shaped, TypeOK
<1> QED BY <1>5, <1>6

LEMMA HoldsIs ==
  ASSUME SuccInv, NEW o \in DOMAIN attr
  PROVE  Val(o) \in 0..MaxWrites
<1>1. HeapTyped /\ HeapSound
  BY Kinds
<1> QED BY <1>1, CopyAssumption DEF Val, HeapTyped, HeapSound

LEMMA GetAttributeKeeps ==
  ASSUME SuccInv, NEW s \in 0..last, NEW n \in Names, GetAttribute(s, n)
  PROVE  SuccInv' /\ Same
<1> DEFINE o == componentNameMap[s][n]
<1>1. /\ UNCHANGED <<last, parent, componentNameMap, listed, clock>>
      /\ o # None /\ OwnAttribute(o, Val(o))
  BY DEF GetAttribute, Defined
<1>2. o \in DOMAIN attr
  BY <1>1, Kinds
<1>3. DOMAIN attr' = DOMAIN attr /\ HeapTyped' /\ HeapSound' /\ Kept(DOMAIN attr)
  <2>1. Val(o) \in 0..MaxWrites
    BY <1>2, HoldsIs
  <2> HIDE DEF o
  <2> QED BY <1>1, <1>2, <2>1, OwnAttributeIs DEF Kept
<1>4. Same
  BY <1>1, <1>3, Unread DEF Same
<1>5. Viewing'
  BY <1>1, <1>3, <1>4, ListedKept
<1>6. \A t \in Systems, m \in Names :
        componentNameMap'[t][m] # None =>
          /\ t \in 0..last /\ componentNameMap'[t][m] \in DOMAIN attr'
          /\ Sys(componentNameMap'[t][m]) = t /\ Name(componentNameMap'[t][m]) = m
  BY <1>1, <1>3, NamesKept
<1>7. SuccInv'
  BY <1>1, <1>3, <1>5, <1>6, Restored DEF SuccInv, Shaped, TypeOK
<1> QED BY <1>4, <1>7

-----------------------------------------------------------------------------
(* A new successor reads what its predecessor reads *)

LEMMA CreateSuccessorTree ==
  ASSUME SuccInv, NEW p \in 0..last, CreateSuccessor(p)
  PROVE  /\ TreeOK' /\ p \in Systems /\ p # last + 1
         /\ last + 1 \in Systems /\ last + 1 \notin 0..last /\ parent'[last + 1] = p
         /\ \A t \in Systems : t # last + 1 =>
              /\ Up(t)' = Up(t) /\ Predecessors'[t] = Predecessors[t]
              /\ parent'[t] = parent[t] /\ parent[t] # last + 1
         /\ \A t \in Systems : t = last + 1 => Up(t)' = {t} \cup Up(p) /\ Predecessors[t] = {}
<1> USE DEF SuccInv
<1> DEFINE k == last + 1
<1>1. /\ last \in Nat /\ k \in Systems /\ p \in Systems /\ k \notin 0..last /\ k > last
      /\ parent[k] = None /\ p # k
  BY SystemAssumption DEF TypeOK, TreeOK, CreateSuccessor, Systems
<1>2. parent \in [Systems -> Systems \cup {None}] /\ None \notin Systems
  BY NoneAssumption DEF TypeOK
<1>3. parent' = [parent EXCEPT ![k] = p]
  BY DEF CreateSuccessor
<1>4. Tree(parent', None, Systems)
  BY <1>1, <1>2, <1>3 DEF TreeOK, Tree, Systems
<1>5. TreeOK'
  <2>1. ASSUME NEW t \in Systems, t > last + 1 PROVE parent'[t] = None
    BY <1>1, <1>2, <1>3, <2>1 DEF TreeOK, Systems
  <2> QED BY <1>4, <2>1 DEF TreeOK, CreateSuccessor
<1>6. /\ \A t \in Systems : parent[t] # k
      /\ \A t \in Systems \ {k} : parent'[t] = parent[t]
      /\ parent'[k] = p
  BY <1>1, <1>2, <1>3 DEF TreeOK, Tree, Systems
<1>7. Adopted(parent, parent', k, None, Systems)
  BY <1>4, <1>6 DEF TreeOK, Adopted
<1> HIDE DEF k
<1>8. \A t \in Systems : t # k => Up(t)' = Up(t)
  BY <1>1, <1>7, LineageExtends DEF Up
<1>9. /\ Predecessors' = AllPredecessors(Systems, parent', None)
      /\ Predecessors = AllPredecessors(Systems, parent, None)
  BY DEF Predecessors, AllPredecessors, Derived
<1>10. \A t \in Systems : t # k => Predecessors'[t] = Predecessors[t]
  <2> TAKE t \in Systems
  <2> HAVE t # k
  <2>1. Predecessors[t] = Up(t) \ {t}
    BY Predecessing
  <2>2. Predecessors'[t] = IF parent'[t] # None THEN Lineage(parent'[t], parent', None) ELSE {}
    BY <1>4, <1>9, AllPredecessorsAre
  <2>3. Predecessors[t] = IF parent[t] # None THEN Lineage(parent[t], parent, None) ELSE {}
    BY <1>9, AllPredecessorsAre DEF TreeOK
  <2>4. parent'[t] = parent[t] /\ (parent[t] # None => parent[t] \in Systems /\ parent[t] # k)
    BY <1>1, <1>2, <1>6
  <2>5. parent[t] # None => Lineage(parent[t], parent', None) = Lineage(parent[t], parent, None)
    BY <1>7, <2>4, LineageExtends
  <2> QED BY <2>2, <2>3, <2>4, <2>5
<1>11. Predecessors[k] = {}
  BY <1>1, <1>9, AllPredecessorsAre DEF TreeOK
<1>12. Lineage(k, parent', None) = {k} \cup Lineage(p, parent', None)
  <2>1. p # None
    BY <1>1, <1>2
  <2> QED BY <1>1, <1>4, <1>6, <2>1, LineageUnfolds
<1>13. Lineage(p, parent', None) = Up(p)
  BY <1>1, <1>7, LineageExtends DEF Up
<1>14. \A t \in Systems : t = k => Up(t)' = {t} \cup Up(p)
  BY <1>12, <1>13 DEF Up
<1> QED BY <1>1, <1>5, <1>6, <1>8, <1>10, <1>11, <1>12, <1>13, <1>14 DEF k

LEMMA CreateSuccessorKeeps ==
  ASSUME SuccInv, NEW p \in 0..last, CreateSuccessor(p)
  PROVE  /\ SuccInv'
         /\ \A s \in Systems, n \in Names :
              Reads'[s][n] = IF s = last + 1 THEN Reads[p][n] ELSE Reads[s][n]
<1> DEFINE k == last + 1
<1>1. /\ TreeOK' /\ p \in Systems /\ p # k
      /\ k \in Systems /\ k \notin 0..last /\ parent'[k] = p
      /\ \A t \in Systems : t # k =>
           /\ Up(t)' = Up(t) /\ Predecessors'[t] = Predecessors[t]
           /\ parent'[t] = parent[t] /\ parent[t] # k
      /\ \A t \in Systems : t = k => Up(t)' = {t} \cup Up(p) /\ Predecessors[t] = {}
  BY CreateSuccessorTree
<1>2. /\ last' = k /\ listed' = [listed EXCEPT ![k] = listed[p]]
      /\ UNCHANGED <<componentNameMap, attr, owner, value, clock>>
  BY DEF CreateSuccessor, heap
<1>3. HeapTyped /\ HeapSound /\ TreeOK /\ 0..last \subseteq Systems
  BY Kinds
<1>4. last \in Nat /\ listed \in [Systems -> SUBSET Objects] /\ None \notin Systems
  BY NoneAssumption, SystemAssumption DEF SuccInv, TypeOK, Systems
<1>5. \A n \in Names : componentNameMap[k][n] = None
  <2>1. k > last
    BY <1>4
  <2> QED BY <1>1, <2>1 DEF SuccInv, Shaped
<1>6. \A x \in DOMAIN attr : Then(x) = Val(x)
  BY <1>2 DEF Then, Value, Val
<1>7. 0..k = 0..last \cup {k}
  BY <1>4
<1> HIDE DEF k
<1>8. \A t \in Systems \ {k}, n \in Names : Reads'[t][n] = Reads[t][n]
  <2> DEFINE D == Systems \ {k}
  <2>1. D \in SUBSET Systems /\ \A t \in D : parent'[t] = parent[t]
    BY <1>1
  <2>2. \A t \in D : parent[t] # None => parent[t] \in D
    BY <1>1, <1>3 DEF TreeOK, Tree
  <2>3. ASSUME NEW t \in D, NEW n \in Names
        PROVE  /\ componentNameMap'[t][n] # None =>
                    Then(componentNameMap'[t][n]) = Reads[t][n]
               /\ componentNameMap'[t][n] = None => componentNameMap[t][n] = None
    <3>1. componentNameMap[t][n] # None =>
            /\ componentNameMap[t][n] \in DOMAIN attr
            /\ Reads[t][n] = Val(componentNameMap[t][n])
      BY <1>3, Kinds, LookupUnfolds DEF Val, Value
    <3> QED BY <1>2, <1>6, <3>1
  <2> HIDE DEF D
  <2>4. \A t \in D, n \in Names : Reads'[t][n] = Reads[t][n]
    BY <1>1, <1>3, <2>1, <2>2, <2>3, LookupKept
  <2> QED BY <2>4 DEF D
<1>9. \A n \in Names : Reads'[k][n] = Reads[p][n]
  <2>1. p # None
    BY <1>1, <1>4
  <2> QED BY <1>1, <1>2, <1>5, <1>8, <2>1, LookupUnfoldsThen
<1>10. TypeOK'
  BY <1>1, <1>2, <1>4 DEF CreateSuccessor, SuccInv, TypeOK, k
<1>11. Shaped'
  <2>1. \A s \in Systems : s > k => s > last
    BY <1>4, SystemAssumption DEF k, Systems
  <2> QED BY <1>2, <2>1 DEF SuccInv, Shaped
<1>12. HeapSound'
  <2>1. \A t \in Systems : Predecessors[t] \subseteq Predecessors'[t]
    BY <1>1
  <2>2. \A o \in DOMAIN attr : Sys(o) \in Systems
    BY <1>3, Kinds DEF HeapTyped
  <2> QED BY <1>2, <1>3, <2>1, <2>2 DEF HeapSound
<1>13. Viewing'
  <2>1. ASSUME NEW t \in 0..last, NEW o \in listed[t]
        PROVE  /\ t \in Systems /\ t # k /\ Shown(t, o) /\ o \in DOMAIN attr /\ Name(o) \in Names
               /\ Sys(o) # t => parent[t] \in Systems
               /\ Sys(o) # k
    <3>1. t \in Systems /\ t # k /\ Shown(t, o)
      BY <1>1, <1>3 DEF SuccInv, Viewing
    <3>2. o \in DOMAIN attr /\ Name(o) \in Names
      BY <1>3, <3>1, Kinds DEF Shown, HeapTyped
    <3>3. Sys(o) # t => parent[t] \in Systems
      <4>1. Sys(o) # t => parent[t] # None
        BY <1>3, <3>1, Predecessing DEF Shown
      <4> QED BY <1>3, <3>1, <4>1 DEF TreeOK, Tree
    <3>4. Sys(o) # k
      <4>1. Sys(o) <= t /\ t <= last /\ Sys(o) \in Systems
        BY <1>3, <3>1, Predecessing DEF Shown
      <4>2. Sys(o) \in Nat /\ t \in Nat
        BY <4>1, SystemAssumption DEF Systems
      <4> QED BY <1>4, <4>1, <4>2 DEF k
    <3> QED BY <3>1, <3>2, <3>3, <3>4
  <2>2. \A o : Val(o)' = Then(o)
    BY DEF Val, Then, Value
  <2>3. ASSUME NEW t \in 0..last, NEW o \in listed[t]
        PROVE  Shown(t, o)'
    <3>1. /\ t \in Systems \ {k} /\ Shown(t, o) /\ o \in DOMAIN attr /\ Name(o) \in Names
          /\ Sys(o) # t => parent[t] \in Systems \ {k}
      BY <1>1, <2>1
    <3>2. /\ parent'[t] = parent[t] /\ Up(t)' = Up(t) /\ Then(o) = Val(o)
          /\ Reads'[t][Name(o)] = Reads[t][Name(o)]
          /\ Sys(o) # t => Reads'[parent[t]][Name(o)] = Reads[parent[t]][Name(o)]
      BY <1>1, <1>6, <1>8, <3>1
    <3> QED BY <1>2, <2>2, <3>1, <3>2 DEF Shown
  <2>4. ASSUME NEW o \in listed[p], NEW t, t = k
        PROVE  Shown(t, o)'
    <3>1. Shown(p, o) /\ o \in DOMAIN attr /\ Name(o) \in Names /\ Sys(o) # k
      BY <2>1
    <3>2. Up(t)' = {t} \cup Up(p)
      BY <1>1, <2>4
    <3>3. /\ Then(o) = Val(o) /\ Val(o) = Reads[p][Name(o)]
          /\ Reads'[p][Name(o)] = Reads[p][Name(o)] /\ Reads'[k][Name(o)] = Reads[p][Name(o)]
      BY <1>1, <1>6, <1>8, <1>9, <3>1 DEF Shown
    <3> QED BY <1>1, <1>2, <2>2, <2>4, <3>1, <3>2, <3>3 DEF Shown
  <2>5. listed'[k] = listed[p] /\ \A t \in 0..last : listed'[t] = listed[t]
    BY <1>1, <1>2, <1>3, <1>4
  <2>6. ASSUME NEW t \in 0..k
        PROVE  /\ \A o \in listed'[t] : Shown(t, o)'
               /\ \A o, q \in listed'[t] : Name(o) = Name(q) => o = q
    <3>1. CASE t \in 0..last
      BY <2>3, <2>5, <3>1 DEF SuccInv, Viewing
    <3>2. CASE t = k
      BY <2>4, <2>5, <3>2 DEF SuccInv, Viewing
    <3> QED BY <1>7, <3>1, <3>2
  <2> QED BY <1>2, <2>6 DEF Viewing
<1>14. SuccInv'
  BY <1>1, <1>10, <1>11, <1>12, <1>13 DEF SuccInv
<1>15. \A s \in Systems, n \in Names :
         Reads'[s][n] = IF s = k THEN Reads[p][n] ELSE Reads[s][n]
  BY <1>1, <1>8, <1>9
<1> QED BY <1>14, <1>15 DEF k

-----------------------------------------------------------------------------
(* Writes: a leaf reads something else of one name, nobody else does *)

LEMMA Elsewhere ==
  ASSUME SuccInv, NEW s \in Systems, NEW n \in Names, NEW o, Sys(o) = s, Name(o) = n,
         Kept(DOMAIN attr \ {o})
  PROVE  Kept({x \in DOMAIN attr : Sys(x) # s \/ Name(x) # n})
BY DEF Kept

LEMMA AttributeKeeps ==
  ASSUME SuccInv, NEW s \in 0..last, NEW n \in Names, Leaf(s), Enumerated(s, n),
         UNCHANGED <<last, parent, componentNameMap, listed>>, clock' \in 0..MaxWrites,
         NEW o \in DOMAIN attr, o = componentNameMap[s][n],
         DOMAIN attr' = DOMAIN attr, HeapTyped', HeapSound', Kept(DOMAIN attr \ {o})
  PROVE  SuccInv' /\ OnlyAt(s, n) /\ Reads'[s][n] = Then(o)
<1>1. /\ s \in Systems /\ o # None /\ Sys(o) = s /\ Name(o) = n
      /\ HeapTyped /\ TreeOK
  BY Kinds DEF HeapTyped
<1>2. Kept({x \in DOMAIN attr : Sys(x) # s \/ Name(x) # n})
  BY <1>1, Elsewhere
<1>3. OnlyAt(s, n) /\ Reads'[s][n] = Then(o)
  BY <1>1, <1>2, LeafReads
<1>4. ASSUME NEW x \in listed[s], Name(x) = n PROVE Shown(s, x)'
  <2>1. Sys(x) = s /\ Shown(s, x)
    BY <1>4 DEF Enumerated, SuccInv, Viewing
  <2>2. x = o
    BY <1>4, <2>1 DEF Shown
  <2>3. s \in Up(s)'
    BY <1>1, SameTree, Predecessing
  <2>4. Val(x)' = Then(x)
    BY DEF Val, Then, Value
  <2> QED BY <1>1, <1>3, <1>4, <2>1, <2>2, <2>3, <2>4 DEF Shown
<1>5. Viewing'
  <2>1. \A x, y \in listed'[s] : Name(x) = n /\ Name(y) = n => x = y
    BY DEF SuccInv, Viewing
  <2> QED BY <1>1, <1>2, <1>3, <1>4, <2>1, LeafViews
<1>6. \A t \in Systems, m \in Names :
        componentNameMap'[t][m] # None =>
          /\ t \in 0..last /\ componentNameMap'[t][m] \in DOMAIN attr'
          /\ Sys(componentNameMap'[t][m]) = t /\ Name(componentNameMap'[t][m]) = m
  BY NamesKept
<1>7. SuccInv'
  BY <1>5, <1>6, Restored DEF SuccInv, Shaped, TypeOK
<1> QED BY <1>3, <1>7

LEMMA ChangeAttributeKeeps ==
  ASSUME SuccInv, NEW s \in 0..last, NEW n \in Names, ChangeAttribute(s, n)
  PROVE  SuccInv' /\ OnlyAt(s, n) /\ Reads'[s][n] \in 0..MaxWrites
<1> DEFINE o == componentNameMap[s][n]
           v == clock + 1
<1>1. /\ UNCHANGED <<last, parent, componentNameMap, listed>> /\ Leaf(s) /\ Enumerated(s, n)
      /\ o # None /\ clock' = v /\ OwnAttribute(o, clock') /\ clock < MaxWrites
  BY DEF ChangeAttribute, Defined
<1>2. o \in DOMAIN attr /\ Sys(o) = s
  BY <1>1, Kinds
<1>3. v \in 0..MaxWrites
  <2>1. clock \in 0..MaxWrites /\ MaxWrites \in Nat /\ clock < MaxWrites
    BY <1>1, CopyAssumption DEF SuccInv, TypeOK
  <2> QED BY <2>1
<1>4. OwnAttribute(o, v)
  BY <1>1
<1> HIDE DEF o, v
<1>5. /\ DOMAIN attr' = DOMAIN attr /\ HeapTyped' /\ HeapSound'
      /\ Then(o) = v /\ Kept(DOMAIN attr \ {o})
  BY <1>1, <1>2, <1>3, <1>4, OwnAttributeIs
<1>6. SuccInv' /\ OnlyAt(s, n) /\ Reads'[s][n] = Then(o)
  BY <1>1, <1>2, <1>3, <1>5, AttributeKeeps DEF o
<1> QED BY <1>3, <1>5, <1>6

LEMMA RemoveAttributeKeeps ==
  ASSUME SuccInv, NEW s \in 0..last, NEW n \in Names, RemoveAttribute(s, n)
  PROVE  SuccInv' /\ OnlyAt(s, n) /\ Reads'[s][n] \in 0..MaxWrites
<1> DEFINE o == componentNameMap[s][n]
<1>1. /\ UNCHANGED <<last, parent, componentNameMap, listed, clock>>
      /\ Leaf(s) /\ Enumerated(s, n)
      /\ o # None /\ attr' = [attr EXCEPT ![o] = None] /\ FreeAttributes(Deletes(o))
  BY DEF RemoveAttribute, Defined
<1>2. o \in DOMAIN attr /\ Sys(o) = s
  BY <1>1, Kinds
<1>3. clock' \in 0..MaxWrites /\ 0 \in 0..MaxWrites
  BY <1>1, CopyAssumption DEF SuccInv, TypeOK
<1> HIDE DEF o
<1>4. /\ DOMAIN attr' = DOMAIN attr /\ attr'[o] = None
      /\ \A x \in DOMAIN attr \ {o} : attr'[x] = attr[x]
  BY <1>1, <1>2
<1>5. HeapTyped' /\ HeapSound' /\ Kept(DOMAIN attr \ {o}) /\ Then(o) = 0
  BY <1>1, <1>2, <1>4, FreeAttributesIs
<1>6. SuccInv' /\ OnlyAt(s, n) /\ Reads'[s][n] = Then(o)
  BY <1>1, <1>2, <1>3, <1>4, <1>5, AttributeKeeps DEF o
<1> QED BY <1>3, <1>5, <1>6

LEMMA AddKeeps ==
  ASSUME SuccInv, NEW s \in 0..last, NEW n \in Names, NEW inView \in BOOLEAN,
         Add(s, n, inView)
  PROVE  SuccInv' /\ OnlyAt(s, n) /\ Reads'[s][n] \in 0..MaxWrites
<1>0. PICK o : o = New(s, n)
  OBVIOUS
<1>1. /\ UNCHANGED <<last, parent, owner, value, clock>> /\ Leaf(s)
      /\ \A x \in DOMAIN attr : Name(x) # n
      /\ componentNameMap' = Registered(s, {o})
      /\ attr' = [x \in DOMAIN attr \cup {o} |-> IF x \in DOMAIN attr THEN attr[x] ELSE None]
      /\ listed' = [listed EXCEPT ![s] = IF inView THEN @ \cup {o} ELSE @]
  BY <1>0 DEF Add
<1>2. s \in Systems /\ HeapTyped /\ HeapSound /\ TreeOK /\ Predecessors' = Predecessors
  BY <1>1, Kinds, SameTree
<1>3. o \in Objects /\ o \notin DOMAIN attr /\ Sys(o) = s /\ Name(o) = n /\ o # None
  <2>1. <<s, n, 1>> \notin DOMAIN attr
    BY <1>1 DEF Name
  <2>2. Fresh(s, n) # {}
    <3>1. 1 \in 1..MaxCopies
      BY CopyAssumption
    <3> QED BY <2>1, <3>1 DEF Fresh
  <2> QED BY <1>0, <1>2, <2>2, NewIs, Kinds
<1>4. /\ DOMAIN attr' = DOMAIN attr \cup {o} /\ attr'[o] = None
      /\ \A x \in DOMAIN attr : attr'[x] = attr[x]
  BY <1>1, <1>3
<1>5. /\ componentNameMap'[s][n] = o
      /\ \A t \in Systems, m \in Names :
           t # s \/ m # n => componentNameMap'[t][m] = componentNameMap[t][m]
      /\ componentNameMap' \in [Systems -> [Names -> Objects \cup {None}]]
  <2>1. componentNameMap \in [Systems -> [Names -> Objects \cup {None}]]
    BY DEF SuccInv, Shaped
  <2>2. componentNameMap' = [componentNameMap EXCEPT ![s] =
          [m \in Names |-> IF m = n THEN o ELSE componentNameMap[s][m]]]
    <3>1. \A m : (\E x \in {o} : Name(x) = m) <=> m = n
      BY <1>3
    <3>2. (CHOOSE x \in {o} : Name(x) = n) = o
      BY <1>3
    <3>3. \A m \in Names : (IF \E x \in {o} : Name(x) = m THEN CHOOSE x \in {o} : Name(x) = m
                            ELSE componentNameMap[s][m])
                           = IF m = n THEN o ELSE componentNameMap[s][m]
      BY <3>1, <3>2
    <3> QED BY <1>1, <3>3 DEF Registered
  <2> QED BY <1>2, <1>3, <2>1, <2>2
<1>6. HeapTyped'
  <2>1. IsFiniteSet(DOMAIN attr \cup {o})
    <3>1. IsFiniteSet(DOMAIN attr)
      BY <1>2 DEF HeapTyped
    <3> QED BY <3>1, FS_AddElement
  <2>2. \A x \in DOMAIN attr' : attr'[x] \in Nat \cup {None}
    BY <1>2, <1>4 DEF HeapTyped
  <2> QED BY <1>1, <1>2, <1>3, <1>4, <2>1, <2>2 DEF HeapTyped
<1>7. HeapSound'
  BY <1>1, <1>2, <1>4 DEF HeapSound
<1>8. Kept(DOMAIN attr) /\ Then(o) = 0
  BY <1>1, <1>4 DEF Kept, Then, Value, Val
<1>9. Kept({x \in DOMAIN attr : Sys(x) # s \/ Name(x) # n})
  BY <1>8 DEF Kept
<1>10. OnlyAt(s, n) /\ Reads'[s][n] = 0
  <2>1. UNCHANGED <<last, parent>>
    BY <1>1
  <2>2. \A t \in Systems, m \in Names :
          t # s \/ m # n => componentNameMap'[t][m] = componentNameMap[t][m]
    BY <1>5
  <2>3. /\ OnlyAt(s, n)
        /\ Reads'[s][n] =
             IF componentNameMap'[s][n] # None THEN Then(componentNameMap'[s][n])
             ELSE IF parent[s] = None THEN None ELSE Reads[parent[s]][n]
    BY <1>1, <1>2, <1>9, <2>1, <2>2, LeafReads
  <2> QED BY <1>3, <1>5, <1>8, <2>3
<1>11. listed' \in [Systems -> SUBSET Objects] /\
       \A t \in Systems : listed'[t] = IF t = s /\ inView THEN listed[t] \cup {o} ELSE listed[t]
  <2>1. listed \in [Systems -> SUBSET Objects]
    BY DEF SuccInv, TypeOK
  <2> QED BY <1>1, <1>2, <1>3, <2>1
<1>12. Viewing'
  <2>1. \A x \in listed[s] : Name(x) # n
    BY <1>1 DEF SuccInv, Viewing, Shown
  <2>2. Shown(s, o)'
    <3>1. s \in Up(s)'
      BY <1>1, <1>2, SameTree, Predecessing
    <3>2. Val(o)' = Then(o)
      BY DEF Val, Then, Value
    <3> QED BY <1>3, <1>4, <1>5, <1>8, <1>10, <3>1, <3>2 DEF Shown
  <2>3. \A x \in listed'[s] : Name(x) = n => Shown(s, x)'
    BY <1>2, <1>11, <2>1, <2>2
  <2>4. \A x, y \in listed'[s] : Name(x) = n /\ Name(y) = n => x = y
    BY <1>2, <1>11, <2>1
  <2>5. \A t \in 0..last : \A x \in listed'[t] : x \in listed[t] \/ (t = s /\ Name(x) = n)
    BY <1>3, <1>11, Kinds
  <2> QED BY <1>1, <1>2, <1>5, <1>9, <1>10, <2>3, <2>4, <2>5, LeafViews
<1>13. ASSUME NEW t \in Systems, NEW m \in Names, componentNameMap'[t][m] # None
       PROVE  /\ t \in 0..last /\ componentNameMap'[t][m] \in DOMAIN attr'
              /\ Sys(componentNameMap'[t][m]) = t /\ Name(componentNameMap'[t][m]) = m
  <2>1. CASE t = s /\ m = n
    BY <1>3, <1>4, <1>5, <2>1
  <2>2. CASE t # s \/ m # n
    <3>1. componentNameMap'[t][m] = componentNameMap[t][m]
      BY <1>5, <2>2
    <3>2. t \in 0..last
      <4>1. ~ (t > last)
        BY <1>13, <3>1 DEF SuccInv, Shaped
      <4> QED BY <4>1, SystemAssumption DEF SuccInv, TypeOK, Systems
    <3> QED BY <1>4, <1>13, <3>1, <3>2, Kinds
  <2> QED BY <2>1, <2>2
<1>14. SuccInv'
  BY <1>1, <1>5, <1>6, <1>7, <1>11, <1>12, <1>13, Restored DEF SuccInv, TypeOK
<1>15. 0 \in 0..MaxWrites
  BY CopyAssumption
<1> QED BY <1>10, <1>14, <1>15

(* Removing a component uncovers what the predecessor holds. *)
LEMMA RemoveComponentKeeps ==
  ASSUME SuccInv, NEW s \in 0..last, NEW n \in Names, RemoveComponent(s, n)
  PROVE  /\ SuccInv' /\ OnlyAt(s, n)
         /\ Reads'[s][n] = IF parent[s] = None THEN None ELSE Reads[parent[s]][n]
<1>0. PICK o : o = componentNameMap[s][n]
  OBVIOUS
<1>1. /\ UNCHANGED <<last, parent, clock>> /\ Leaf(s) /\ o # None
      /\ componentNameMap' = [componentNameMap EXCEPT ![s][n] = None]
      /\ listed' = [listed EXCEPT ![s] = @ \ {o}]
      /\ attr' = [x \in DOMAIN attr \ {o} |-> attr[x]]
      /\ FreeAttributes(Deletes(o))
  BY <1>0 DEF RemoveComponent, Forgotten, Unlisted
<1>2. /\ s \in Systems /\ HeapTyped /\ TreeOK
      /\ o \in DOMAIN attr /\ Sys(o) = s /\ Name(o) = n
  BY <1>0, <1>1, Kinds
<1>3. /\ DOMAIN attr' = DOMAIN attr \ {o}
      /\ \A x \in DOMAIN attr \ {o} : attr'[x] = attr[x]
  BY <1>1
<1>4. HeapTyped' /\ HeapSound' /\ Kept(DOMAIN attr \ {o})
  <2> DEFINE left == DOMAIN attr \ {o}
  <2>1. /\ left \subseteq DOMAIN attr /\ DOMAIN attr \ {o} \subseteq left /\ o \notin left
        /\ DOMAIN attr' = left /\ \A x \in left \ {o} : attr'[x] = attr[x]
    BY <1>3
  <2> HIDE DEF left
  <2> QED BY <1>1, <1>2, <2>1, FreeAttributesIs
<1>5. /\ componentNameMap'[s][n] = None
      /\ \A t \in Systems, m \in Names :
           t # s \/ m # n => componentNameMap'[t][m] = componentNameMap[t][m]
      /\ componentNameMap' \in [Systems -> [Names -> Objects \cup {None}]]
  <2>1. componentNameMap \in [Systems -> [Names -> Objects \cup {None}]]
    BY DEF SuccInv, Shaped
  <2> QED BY <1>1, <1>2, <2>1
<1>6. Kept({x \in DOMAIN attr : Sys(x) # s \/ Name(x) # n})
  BY <1>2, <1>4, Elsewhere
<1>7. /\ OnlyAt(s, n)
      /\ Reads'[s][n] = IF parent[s] = None THEN None ELSE Reads[parent[s]][n]
  <2>1. UNCHANGED <<last, parent>>
    BY <1>1
  <2>2. \A t \in Systems, m \in Names :
          t # s \/ m # n => componentNameMap'[t][m] = componentNameMap[t][m]
    BY <1>5
  <2>3. /\ OnlyAt(s, n)
        /\ Reads'[s][n] =
             IF componentNameMap'[s][n] # None THEN Then(componentNameMap'[s][n])
             ELSE IF parent[s] = None THEN None ELSE Reads[parent[s]][n]
    BY <1>1, <1>2, <1>6, <2>1, <2>2, LeafReads
  <2> QED BY <1>5, <2>3
<1>8. /\ listed' \in [Systems -> SUBSET Objects]
      /\ \A t \in Systems : listed'[t] = IF t = s THEN listed[t] \ {o} ELSE listed[t]
  <2>1. listed \in [Systems -> SUBSET Objects]
    BY DEF SuccInv, TypeOK
  <2> QED BY <1>1, <1>2, <2>1
<1>9. ASSUME NEW x \in listed'[s], Name(x) = n PROVE Shown(s, x)'
  <2>1. x \in listed[s] /\ x # o /\ Shown(s, x)
    BY <1>2, <1>8, <1>9 DEF SuccInv, Viewing
  <2>2. x \in DOMAIN attr /\ Sys(x) # s /\ Sys(x) \in Up(s)
    BY <1>0, <1>9, <2>1 DEF Shown
  <2>3. parent[s] # None /\ parent[s] \in Systems /\ parent[s] # s
    <3>1. parent[s] # None
      BY <1>2, <2>2, Predecessing
    <3> QED BY <1>1, <1>2, <3>1, LeafApart DEF TreeOK, Tree
  <2>4. /\ Then(x) = Val(x) /\ Val(x) = Reads[parent[s]][n] /\ x \in DOMAIN attr'
        /\ Reads'[parent[s]][n] = Reads[parent[s]][n]
        /\ Reads'[s][n] = Reads[parent[s]][n]
    <3>1. Then(x) = Val(x) /\ x \in DOMAIN attr'
      BY <1>4, <2>1, <2>2 DEF Kept
    <3>2. Val(x) = Reads[parent[s]][n]
      BY <1>9, <2>1, <2>2 DEF Shown
    <3> QED BY <1>7, <2>3, <3>1, <3>2 DEF OnlyAt
  <2>5. Up(s)' = Up(s) /\ parent' = parent
    BY <1>1, <1>2, SameTree
  <2>6. Val(x)' = Then(x)
    BY DEF Val, Then, Value
  <2> QED BY <1>9, <2>2, <2>4, <2>5, <2>6 DEF Shown
<1>10. Viewing'
  <2>1. \A x, y \in listed'[s] : Name(x) = n /\ Name(y) = n => x = y
    <3>1. \A x, y \in listed[s] : Name(x) = Name(y) => x = y
      <4>1. s \in 0..last
        OBVIOUS
      <4> QED BY <4>1 DEF SuccInv, Viewing
    <3> QED BY <1>2, <1>8, <3>1
  <2>2. \A t \in 0..last : \A x \in listed'[t] : x \in listed[t] \/ (t = s /\ Name(x) = n)
    BY <1>8, Kinds
  <2>3. UNCHANGED <<last, parent>>
    BY <1>1
  <2>4. \A t \in Systems, m \in Names :
          t # s \/ m # n => componentNameMap'[t][m] = componentNameMap[t][m]
    BY <1>5
  <2> QED BY <1>1, <1>2, <1>6, <1>7, <1>9, <2>1, <2>2, <2>3, <2>4, LeafViews
<1>11. ASSUME NEW t \in Systems, NEW m \in Names, componentNameMap'[t][m] # None
       PROVE  /\ t \in 0..last /\ componentNameMap'[t][m] \in DOMAIN attr'
              /\ Sys(componentNameMap'[t][m]) = t /\ Name(componentNameMap'[t][m]) = m
  <2>1. (t # s \/ m # n) /\ componentNameMap'[t][m] = componentNameMap[t][m]
    BY <1>5, <1>11
  <2>2. t \in 0..last
    <3>1. ~ (t > last)
      BY <1>11, <2>1 DEF SuccInv, Shaped
    <3> QED BY <3>1, SystemAssumption DEF SuccInv, TypeOK, Systems
  <2>3. /\ componentNameMap[t][m] \in DOMAIN attr
        /\ Sys(componentNameMap[t][m]) = t /\ Name(componentNameMap[t][m]) = m
    BY <1>11, <2>1, Kinds
  <2>4. componentNameMap[t][m] # o
    BY <1>2, <2>1, <2>3
  <2> QED BY <1>3, <2>1, <2>2, <2>3, <2>4
<1>12. SuccInv'
  BY <1>1, <1>4, <1>5, <1>8, <1>10, <1>11, Restored DEF SuccInv, TypeOK
<1> QED BY <1>7, <1>12

-----------------------------------------------------------------------------
(* Theorems *)

LEMMA ContentIs ==
  Content = [s \in Systems |-> [n \in Names |-> IF s > last THEN None ELSE Reads[s][n]]]
<1>1. \A s \in Systems, n \in Names : Reads[s][n] = Lookup(s, n)
  BY DEF Reads
<1>2. ASSUME NEW s \in Systems
      PROVE  (IF s > last THEN [n \in Names |-> None] ELSE [n \in Names |-> Lookup(s, n)])
             = [n \in Names |-> IF s > last THEN None ELSE Reads[s][n]]
  BY <1>1
<1> QED BY <1>2 DEF Content

LEMMA ContentThen ==
  Content' = [s \in Systems |-> [n \in Names |-> IF s > last' THEN None ELSE Reads'[s][n]]]
<1>1. (Content = [s \in Systems |-> [n \in Names |-> IF s > last THEN None ELSE Reads[s][n]]])'
  BY ContentIs, PTL
<1> QED BY <1>1

LEMMA SameVersions ==
  ASSUME Same
  PROVE  UNCHANGED V!vars
<1>1. Content' = Content
  BY ContentIs, ContentThen DEF Same
<1> QED BY <1>1 DEF Same, V!vars

LEMMA CellChanged ==
  ASSUME UNCHANGED <<last, parent>>, NEW s \in Systems, ~ (s > last), NEW n \in Names,
         OnlyAt(s, n), NEW v, v = Reads'[s][n]
  PROVE  Content' = [Content EXCEPT ![s][n] = v]
<1> DEFINE C == [t \in Systems |-> [m \in Names |-> IF t > last THEN None ELSE Reads[t][m]]]
<1>1. \A t \in Systems, m \in Names :
        (IF t > last' THEN None ELSE Reads'[t][m])
        = IF t = s /\ m = n THEN v ELSE IF t > last THEN None ELSE Reads[t][m]
  BY DEF OnlyAt
<1>2. Content' = [t \in Systems |-> [m \in Names |->
                    IF t = s /\ m = n THEN v ELSE IF t > last THEN None ELSE Reads[t][m]]]
  BY <1>1, ContentThen
<1>3. [C EXCEPT ![s][n] = v] = [t \in Systems |-> [m \in Names |->
         IF t = s /\ m = n THEN v ELSE IF t > last THEN None ELSE Reads[t][m]]]
  <2> DEFINE E == [C EXCEPT ![s][n] = v]
  <2>1. DOMAIN E = Systems
    OBVIOUS
  <2>2. ASSUME NEW t \in Systems
        PROVE  E[t] = [m \in Names |-> IF t = s /\ m = n THEN v
                                       ELSE IF t > last THEN None ELSE Reads[t][m]]
    OBVIOUS
  <2> QED BY <2>1, <2>2
<1>4. Content = C
  BY ContentIs
<1> QED BY <1>2, <1>3, <1>4

LEMMA PutVersions ==
  ASSUME SuccInv, UNCHANGED <<last, parent>>, NEW s \in 0..last, NEW n \in Names, Leaf(s),
         OnlyAt(s, n), Reads'[s][n] \in 0..MaxWrites
  PROVE  V!Next
<1>1. PICK v \in 0..MaxWrites : v = Reads'[s][n]
  OBVIOUS
<1>2. s \in Systems /\ ~ (s > last)
  BY Kinds DEF SuccInv, TypeOK, Systems
<1>3. Content' = [Content EXCEPT ![s][n] = v]
  BY <1>1, <1>2, CellChanged
<1>4. V!Put(s, n, v)
  BY <1>3 DEF V!Put, V!Leaf, Leaf, V!Systems, Systems
<1> QED BY <1>1, <1>2, <1>4 DEF V!Next, V!Systems, Systems

LEMMA RemoveVersions ==
  ASSUME SuccInv, UNCHANGED <<last, parent>>, NEW s \in 0..last, NEW n \in Names, Leaf(s),
         OnlyAt(s, n),
         Reads'[s][n] = IF parent[s] = None THEN None ELSE Reads[parent[s]][n]
  PROVE  V!Next
<1>1. /\ s \in Systems /\ ~ (s > last)
      /\ parent[s] # None => parent[s] \in Systems /\ ~ (parent[s] > last)
  <2>1. s \in Systems /\ last \in Nat /\ s \in Nat /\ s <= last
    BY Kinds, SystemAssumption DEF SuccInv, TypeOK, Systems
  <2>2. parent[s] # None => parent[s] \in Systems /\ parent[s] < s
    BY <2>1 DEF SuccInv, TreeOK, Tree
  <2>3. parent[s] # None => parent[s] \in Nat
    BY <2>2, SystemAssumption DEF Systems
  <2> QED BY <2>1, <2>2, <2>3
<1>2. Reads'[s][n] = IF parent[s] = None THEN None ELSE Content[parent[s]][n]
  BY <1>1, ContentIs
<1>3. Content' = [Content EXCEPT ![s][n] = Reads'[s][n]]
  BY <1>1, CellChanged
<1>4. V!Remove(s, n)
  BY <1>2, <1>3 DEF V!Remove, V!Leaf, Leaf, V!Systems, Systems
<1> QED BY <1>1, <1>4 DEF V!Next, V!Systems, Systems

LEMMA CreateVersions ==
  ASSUME SuccInv, NEW p \in 0..last, CreateSuccessor(p)
  PROVE  V!Next
<1>1. /\ last' = last + 1 /\ parent' = [parent EXCEPT ![last + 1] = p] /\ last < LastSystem
      /\ last \in Nat /\ last + 1 \in Systems /\ p \in Systems /\ ~ (p > last)
      /\ \A s \in Systems : s \in Nat
  BY SystemAssumption DEF CreateSuccessor, SuccInv, TypeOK, Systems
<1>2. \A s \in Systems, n \in Names :
        Reads'[s][n] = IF s = last + 1 THEN Reads[p][n] ELSE Reads[s][n]
  BY CreateSuccessorKeeps
<1>3. \A s \in Systems, n \in Names :
        (IF s > last + 1 THEN None ELSE Reads'[s][n])
        = IF s = last + 1 THEN Content[p][n] ELSE Content[s][n]
  <2> TAKE s \in Systems, n \in Names
  <2>1. /\ Content[p][n] = Reads[p][n]
        /\ Content[s][n] = IF s > last THEN None ELSE Reads[s][n]
    BY <1>1, ContentIs
  <2>2. CASE s = last + 1
    <3>1. ~ (s > last + 1)
      BY <1>1, <2>2
    <3> QED BY <1>2, <2>1, <2>2, <3>1
  <2>3. CASE s # last + 1
    <3>1. s > last + 1 <=> s > last
      BY <1>1, <2>3
    <3> QED BY <1>2, <2>1, <2>3, <3>1
  <2> QED BY <2>2, <2>3
<1>4. Content' = [Content EXCEPT ![last + 1] = Content[p]]
  <2>1. Content' = [s \in Systems |-> [n \in Names |->
                      IF s = last + 1 THEN Content[p][n] ELSE Content[s][n]]]
    BY <1>1, <1>3, ContentThen
  <2>2. /\ DOMAIN Content = Systems
        /\ \A s \in Systems : Content[s] = [n \in Names |-> Content[s][n]]
    BY ContentIs
  <2>3. \A s \in Systems :
          [n \in Names |-> IF s = last + 1 THEN Content[p][n] ELSE Content[s][n]]
          = IF s = last + 1 THEN Content[p] ELSE Content[s]
    BY <1>1, <2>2
  <2>4. Content = [s \in Systems |-> Content[s]]
    BY ContentIs
  <2> QED BY <1>1, <2>1, <2>3, <2>4
<1> QED BY <1>1, <1>4 DEF V!Next, V!CreateSuccessor

LEMMA NextSucc ==
  ASSUME NodeNames = {}, SuccInv, [Next]_vars
  PROVE  SuccInv' /\ [V!Next]_(V!vars)
<1>1. CASE UNCHANGED vars
  <2>1. /\ UNCHANGED <<last, parent, componentNameMap, heap, listed, clock>>
        /\ attr' = attr
    BY <1>1 DEF vars, heap
  <2>2. HeapTyped' /\ HeapSound' /\ Kept(DOMAIN attr)
    BY <2>1, HeapUntouched
  <2>3. Same
    BY <2>1, <2>2, Unread DEF Same
  <2>4. Viewing'
    <3>1. 0 \in 0..last
      BY SystemAssumption DEF SuccInv, TypeOK, Systems
    <3> QED BY <2>1, <2>2, <2>3, <3>1, ListedKept
  <2>5. SuccInv'
    BY <2>1, <2>2, <2>4, NamesKept, Restored DEF SuccInv, Shaped, TypeOK
  <2> QED BY <2>3, <2>5, SameVersions
<1>2. ASSUME NEW s \in 0..last, CreateSuccessor(s)
      PROVE  SuccInv' /\ V!Next
  BY <1>2, CreateSuccessorKeeps, CreateVersions
<1>3. ASSUME NEW s \in 0..last, GetComponents(s)
      PROVE  SuccInv' /\ UNCHANGED V!vars
  BY <1>3, GetComponentsKeeps, SameVersions
<1>4. ASSUME NEW s \in 0..last, NEW n \in Names, NEW inView \in BOOLEAN, Add(s, n, inView)
      PROVE  SuccInv' /\ V!Next
  <2>1. UNCHANGED <<last, parent>> /\ Leaf(s)
    BY <1>4 DEF Add
  <2> QED BY <1>4, <2>1, AddKeeps, PutVersions
<1>5. ASSUME NEW s \in 0..last, NEW n \in Names, GetComponent(s, n)
      PROVE  SuccInv' /\ UNCHANGED V!vars
  BY <1>5, GetComponentKeeps, SameVersions
<1>6. ASSUME NEW s \in 0..last, NEW n \in Names, RemoveComponent(s, n)
      PROVE  SuccInv' /\ V!Next
  <2>1. UNCHANGED <<last, parent>> /\ Leaf(s)
    BY <1>6 DEF RemoveComponent
  <2> QED BY <1>6, <2>1, RemoveComponentKeeps, RemoveVersions
<1>7. ASSUME NEW s \in 0..last, NEW n \in Names, GetAttribute(s, n)
      PROVE  SuccInv' /\ UNCHANGED V!vars
  BY <1>7, GetAttributeKeeps, SameVersions
<1>8. ASSUME NEW s \in 0..last, NEW n \in Names, ChangeAttribute(s, n)
      PROVE  SuccInv' /\ V!Next
  <2>1. UNCHANGED <<last, parent>> /\ Leaf(s)
    BY <1>8 DEF ChangeAttribute
  <2> QED BY <1>8, <2>1, ChangeAttributeKeeps, PutVersions
<1>9. ASSUME NEW s \in 0..last, NEW n \in Names, RemoveAttribute(s, n)
      PROVE  SuccInv' /\ V!Next
  <2>1. UNCHANGED <<last, parent>> /\ Leaf(s)
    BY <1>9 DEF RemoveAttribute
  <2> QED BY <1>9, <2>1, RemoveAttributeKeeps, PutVersions
<1>10. ASSUME NEW s \in 0..last, NEW n \in Names,
              AddComponentToView(s, n) \/ RemoveComponentFromView(s, n)
       PROVE  SuccInv' /\ UNCHANGED V!vars
  BY <1>10, ViewKeeps, SameVersions
<1> QED BY <1>1, <1>2, <1>3, <1>4, <1>5, <1>6, <1>7, <1>8, <1>9, <1>10 DEF Next

(* The inductive invariant holds when no component is a node.              *)
THEOREM SpecSuccInv == ASSUME NodeNames = {} PROVE Spec => []SuccInv
<1>1. Init => SuccInv
  BY InitSucc
<1>2. SuccInv /\ [Next]_vars => SuccInv'
  BY NextSucc
<1> QED BY <1>1, <1>2, PTL DEF Spec

(* Names, objects, attributes and views are what their types in System,    *)
(* Component and DataViewer say.                                           *)
THEOREM SpecTypeOK == ASSUME NodeNames = {} PROVE Spec => []TypeOK
<1>1. SuccInv => TypeOK
  BY DEF SuccInv
<1> QED BY <1>1, SpecSuccInv, PTL

(* No attribute is deleted while a component points to it and none is left *)
(* without the component that deletes it, however often systems copy,      *)
(* share and remove components (Component::CopyAttributes, getAttribute,   *)
(* ~Component).                                                            *)
THEOREM SpecHeapSound == ASSUME NodeNames = {} PROVE Spec => []HeapSound
<1>1. SuccInv => HeapSound
  BY DEF SuccInv
<1> QED BY <1>1, SpecSuccInv, PTL

(* What DataViewer::getComponents lists of a system exists and shows what  *)
(* a lookup by name in that system gives, before and after the late copy.  *)
THEOREM SpecViewsAgree == ASSUME NodeNames = {} PROVE Spec => []ViewsAgree
<1>1. SuccInv => ViewsAgree
  <2> SUFFICES ASSUME SuccInv, NEW s \in 0..last, NEW o \in listed[s]
               PROVE  /\ o \in DOMAIN attr /\ Sys(o) \in {s} \cup Predecessors[s]
                      /\ Val(o) = Lookup(s, Name(o))
    BY DEF ViewsAgree
  <2>1. Shown(s, o) /\ s \in Systems /\ TreeOK
    BY Kinds DEF SuccInv, Viewing
  <2>2. Name(o) \in Names
    BY <2>1, Kinds DEF Shown, HeapTyped
  <2>3. Predecessors[s] = Up(s) \ {s}
    BY <2>1, Predecessing
  <2> QED BY <2>1, <2>2, <2>3 DEF Shown, Reads
<1> QED BY <1>1, SpecSuccInv, PTL

(* The sharing of attributes and the copies that System and Component make *)
(* late implement systems that are independent maps, as dmsystem.h says.   *)
THEOREM SpecSuccessorsAreVersions == ASSUME NodeNames = {} PROVE Spec => SuccessorsAreVersions
<1>1. Init => V!Init
  <2> SUFFICES ASSUME Init PROVE V!Init
    OBVIOUS
  <2>1. Content = [s \in Systems |-> [n \in Names |-> None]]
    BY InitSucc, ContentIs
  <2> QED BY <2>1 DEF Init, V!Init, V!Systems, Systems
<1>2. SuccInv /\ [Next]_vars => [V!Next]_(V!vars)
  BY NextSucc
<1> QED BY <1>1, <1>2, SpecSuccInv, PTL DEF Spec, SuccessorsAreVersions, V!Spec
=============================================================================
