------------------------ MODULE SystemLifetimeProofs ------------------------
(***************************************************************************)
(* Nothing deleted is used, in every network, with every bound on the      *)
(* Systems, the runs and the edits: the proof that as long as no removal   *)
(* and no group deletes what others refer to, ports and predecessors lead  *)
(* to Systems that are alive.                                              *)
(***************************************************************************)
EXTENDS SystemLifetime, Lineage, FiniteSetTheorems

(* Predecessors are older than their successors.                           *)
Family(par) == par \in [Systems -> 0..MaxSystems] /\ \A y \in Systems : par[y] < y

(* The ports of the modules of P hold only Systems of Y.                   *)
IsPort(port) == port = [m \in Modules |-> [s \in Streams |-> port[m][s]]]
Holds(port, P, Y) == \A m \in P, s \in Streams : port[m][s] \in Y \cup {NULL}

-----------------------------------------------------------------------------
(* What is deleted with a System *)

LEMMA FamilyIsTree ==
  ASSUME NEW par, Family(par)
  PROVE  Tree(par, 0, Systems)
<1>1. \A y \in Systems : par[y] \in Systems \cup {0}
  <2> TAKE y \in Systems
  <2>1. par[y] \in 0..MaxSystems
    BY DEF Family
  <2> QED BY <2>1, BoundAssumption DEF Systems
<1> QED BY <1>1, BoundAssumption DEF Family, Tree, Systems

LEMMA BelowIs ==
  ASSUME NEW par, Family(par), NEW ys
  PROVE  /\ Below(ys, par) \subseteq Systems
         /\ \A z \in Systems : z \in Below(ys, par) <=>
              z \in ys \/ (par[z] # 0 /\ par[z] \in Below(ys, par))
<1> DEFINE A == AllLineages(Systems, par, 0)
           L(z) == Lineage(z, par, 0)
<1>1. Tree(par, 0, Systems)
  BY FamilyIsTree
<1>2. Below(ys, par) = {z \in Systems : A[z] \cap ys # {}}
  BY DEF Below, AllLineages
<1>3. \A z \in Systems : A[z] = L(z)
  <2> HIDE DEF A
  <2> QED BY <1>1, AllLineagesAre DEF A
<1>4. \A z \in Systems : L(z) = {z} \cup (IF par[z] # 0 THEN L(par[z]) ELSE {})
  BY <1>1, LineageUnfolds
<1>5. \A z \in Systems : par[z] # 0 => par[z] \in Systems
  BY <1>1 DEF Tree
<1> HIDE DEF A, L
<1>6. \A z \in Systems : z \in Below(ys, par) <=> L(z) \cap ys # {}
  BY <1>2, <1>3
<1>7. Below(ys, par) \subseteq Systems
  BY <1>2
<1>8. ASSUME NEW z \in Systems
      PROVE  z \in Below(ys, par) <=> z \in ys \/ (par[z] # 0 /\ par[z] \in Below(ys, par))
  <2>1. CASE par[z] = 0
    BY <1>4, <1>6, <2>1
  <2>2. CASE par[z] # 0
    <3>1. L(z) = {z} \cup L(par[z]) /\ par[z] \in Systems
      BY <1>4, <1>5, <2>2
    <3> QED BY <1>6, <2>2, <3>1
  <2> QED BY <2>1, <2>2
<1> QED BY <1>7, <1>8

LEMMA BelowNone ==
  ASSUME NEW par, Family(par)
  PROVE  Below({}, par) = {}
  BY DEF Below

(* Two families that agree on the first n Systems. *)
LEMMA BelowSame ==
  ASSUME NEW par, Family(par), NEW par2, Family(par2), NEW n \in Nat, NEW ys,
         \A z \in Systems : z <= n => par[z] = par2[z],
         NEW z \in Systems, z <= n
  PROVE  z \in Below(ys, par) <=> z \in Below(ys, par2)
<1> DEFINE B == Below(ys, par)
           C == Below(ys, par2)
           Bad == {x \in Systems : x <= n /\ ~ (x \in B <=> x \in C)}
<1>1. \A x \in Systems : x \in B <=> x \in ys \/ (par[x] # 0 /\ par[x] \in B)
  BY BelowIs
<1>2. \A x \in Systems : x \in C <=> x \in ys \/ (par2[x] # 0 /\ par2[x] \in C)
  BY BelowIs
<1>3. \A x \in Systems : par[x] # 0 => par[x] \in Systems /\ par[x] < x
  BY FamilyIsTree DEF Tree
<1>4. \A x \in Systems : x \in Nat
  BY BoundAssumption DEF Systems
<1> HIDE DEF B, C
<1>5. ASSUME Bad # {} PROVE FALSE
  <2>1. Bad \in SUBSET Nat
    BY <1>4
  <2>2. PICK x \in Bad : \A y \in Bad : x <= y
    BY <1>5, <2>1, LeastExists
  <2>3. x \in Systems /\ x <= n /\ ~ (x \in B <=> x \in C) /\ par[x] = par2[x]
    BY <2>2
  <2>4. par[x] # 0 /\ par[x] \in Systems /\ par[x] < x
    BY <1>1, <1>2, <1>3, <2>3
  <2>5. x \in Nat /\ par[x] \in Nat
    BY <1>4, <2>3, <2>4
  <2>6. par[x] <= n /\ ~ (x <= par[x])
    BY <2>3, <2>4, <2>5
  <2>7. par[x] \in B <=> par[x] \in C
    BY <2>2, <2>4, <2>6
  <2> QED BY <1>1, <1>2, <2>3, <2>7
<1> QED BY <1>5 DEF B, C

(* With what is alive its successors are alive; so is all that is below it. *)
LEMMA BelowAlive ==
  ASSUME NEW par, Family(par), NEW A, \A z \in Systems : par[z] \in A => z \in A,
         NEW ys, ys \subseteq A
  PROVE  Below(ys, par) \subseteq A
<1> DEFINE B == Below(ys, par)
           Bad == B \ A
<1>1. B \subseteq Systems /\ \A x \in Systems : x \in B <=> x \in ys \/ (par[x] # 0 /\ par[x] \in B)
  BY BelowIs
<1>3. \A x \in Systems : par[x] # 0 => par[x] \in Systems /\ par[x] < x
  BY FamilyIsTree DEF Tree
<1>4. \A x \in Systems : x \in Nat
  BY BoundAssumption DEF Systems
<1> HIDE DEF B
<1>5. ASSUME Bad # {} PROVE FALSE
  <2>1. Bad \in SUBSET Nat
    BY <1>1, <1>4
  <2>2. PICK x \in Bad : \A y \in Bad : x <= y
    BY <1>5, <2>1, LeastExists
  <2>3. x \in Systems /\ x \in B /\ x \notin A
    BY <1>1, <2>2
  <2>4. par[x] \in B /\ par[x] \in Systems /\ par[x] < x
    BY <1>1, <1>3, <2>3
  <2>5. ~ (x <= par[x])
    BY <1>4, <2>3, <2>4
  <2>6. par[x] \in A
    BY <2>2, <2>4, <2>5
  <2> QED BY <2>3, <2>6
<1> QED BY <1>5 DEF B

-----------------------------------------------------------------------------
(* Ports *)

LEMMA PortTyped ==
  ASSUME NEW port, NEW Y
  PROVE  port \in [Modules -> [Streams -> Y \cup {NULL}]] <=> IsPort(port) /\ Holds(port, Modules, Y)
<1>1. ASSUME port \in [Modules -> [Streams -> Y \cup {NULL}]]
      PROVE  IsPort(port) /\ Holds(port, Modules, Y)
  <2>1. \A m \in Modules : port[m] \in [Streams -> Y \cup {NULL}]
    BY <1>1
  <2>2. \A m \in Modules : port[m] = [s \in Streams |-> port[m][s]]
    BY <2>1
  <2>3. IsPort(port)
    BY <1>1, <2>2 DEF IsPort
  <2> QED BY <2>1, <2>3 DEF Holds
<1>2. ASSUME IsPort(port), Holds(port, Modules, Y)
      PROVE  port \in [Modules -> [Streams -> Y \cup {NULL}]]
  <2> DEFINE row(m) == [s \in Streams |-> port[m][s]]
  <2>1. \A m \in Modules : row(m) \in [Streams -> Y \cup {NULL}]
    BY <1>2 DEF Holds
  <2>2. port = [m \in Modules |-> row(m)]
    BY <1>2 DEF IsPort
  <2> HIDE DEF row
  <2> QED BY <2>1, <2>2
<1> QED BY <1>1, <1>2

LEMMA HeldIs ==
  ASSUME NEW in, NEW out, NEW Y
  PROVE  Held(in, out) \subseteq Y <=> Holds(in, present, Y) /\ Holds(out, present, Y)
<1>1. ASSUME Held(in, out) \subseteq Y
      PROVE  Holds(in, present, Y) /\ Holds(out, present, Y)
  <2>1. \A m \in present : On(in, m) \cup On(out, m) \subseteq Y
    BY <1>1 DEF Held
  <2> QED BY <2>1 DEF On, Holds
<1>2. ASSUME Holds(in, present, Y), Holds(out, present, Y)
      PROVE  Held(in, out) \subseteq Y
  <2>1. \A m \in present : On(in, m) \cup On(out, m) \subseteq Y
    BY <1>2 DEF On, Holds
  <2> QED BY <2>1 DEF Held
<1> QED BY <1>1, <1>2

LEMMA HoldsMore ==
  ASSUME NEW port, NEW P, NEW Y, NEW Z, Holds(port, P, Y), Y \subseteq Z
  PROVE  Holds(port, P, Z)
  BY DEF Holds

LEMMA HoldsFewer ==
  ASSUME NEW port, NEW P, NEW Q, NEW Y, Holds(port, P, Y), Q \subseteq P
  PROVE  Holds(port, Q, Y)
  BY DEF Holds

LEMMA ShiftedHolds ==
  ASSUME NEW ls, NEW carried, NEW in, NEW out, NEW P \in SUBSET Modules, NEW Y,
         Holds(in, P, Y), Holds(out, P, Y), \A l \in ls : carried[l] \in Y
  PROVE  LET sh == Shifted(ls, carried, in, out)
         IN Holds(sh.in, P, Y) /\ Holds(sh.out, P, Y)
<1> DEFINE Into(m, s) == {l \in ls : l.dst = m /\ l.in = s /\ ~IsOutOfGroup(l)}
           Upon(m, s) == {l \in ls : l.dst = m /\ l.in = s /\
                            (IsOutOfGroup(l) \/ (s \in Outs(m) /\ ~IsGroup(m)))}
           Put(port, m, s, from) ==
             IF from = {} THEN port[m][s] ELSE carried[CHOOSE l \in from : TRUE]
           sh == Shifted(ls, carried, in, out)
<1>1. /\ sh.in = [m \in Modules |-> [s \in Streams |-> Put(in, m, s, Into(m, s))]]
      /\ sh.out = [m \in Modules |-> [s \in Streams |-> Put(out, m, s, Upon(m, s))]]
  BY DEF Shifted
<1>2. ASSUME NEW port, Holds(port, P, Y), NEW m \in P, NEW s \in Streams, NEW from \in SUBSET ls
      PROVE  Put(port, m, s, from) \in Y \cup {NULL}
  <2>1. CASE from = {}
    BY <1>2, <2>1 DEF Holds
  <2>2. CASE from # {}
    <3>1. (CHOOSE l \in from : TRUE) \in ls
      BY <2>2
    <3> QED BY <2>2, <3>1
  <2> QED BY <2>1, <2>2
<1>3. \A m \in Modules, s \in Streams : Into(m, s) \in SUBSET ls /\ Upon(m, s) \in SUBSET ls
  OBVIOUS
<1> HIDE DEF Put, Into, Upon, sh
<1>4. \A m \in P, s \in Streams : sh.in[m][s] = Put(in, m, s, Into(m, s))
  BY <1>1
<1>5. \A m \in P, s \in Streams : sh.out[m][s] = Put(out, m, s, Upon(m, s))
  BY <1>1
<1>6. Holds(sh.in, P, Y)
  <2> SUFFICES ASSUME NEW m \in P, NEW s \in Streams PROVE sh.in[m][s] \in Y \cup {NULL}
    BY DEF Holds
  <2> QED BY <1>2, <1>3, <1>4
<1>7. Holds(sh.out, P, Y)
  <2> SUFFICES ASSUME NEW m \in P, NEW s \in Streams PROVE sh.out[m][s] \in Y \cup {NULL}
    BY DEF Holds
  <2> QED BY <1>2, <1>3, <1>5
<1> QED BY <1>6, <1>7 DEF sh

LEMMA ShiftedIsPort ==
  ASSUME NEW ls, NEW carried, NEW in, NEW out
  PROVE  LET sh == Shifted(ls, carried, in, out) IN IsPort(sh.in) /\ IsPort(sh.out)
<1> DEFINE Into(m, s) == {l \in ls : l.dst = m /\ l.in = s /\ ~IsOutOfGroup(l)}
           Upon(m, s) == {l \in ls : l.dst = m /\ l.in = s /\
                            (IsOutOfGroup(l) \/ (s \in Outs(m) /\ ~IsGroup(m)))}
           Put(port, m, s, from) ==
             IF from = {} THEN port[m][s] ELSE carried[CHOOSE l \in from : TRUE]
           sh == Shifted(ls, carried, in, out)
           I(m, s) == Put(in, m, s, Into(m, s))
           O(m, s) == Put(out, m, s, Upon(m, s))
<1>1. /\ sh.in = [m \in Modules |-> [s \in Streams |-> I(m, s)]]
      /\ sh.out = [m \in Modules |-> [s \in Streams |-> O(m, s)]]
  BY DEF Shifted
<1> HIDE DEF I, O, sh
<1>2. IsPort(sh.in)
  BY <1>1 DEF IsPort
<1>3. IsPort(sh.out)
  BY <1>1 DEF IsPort
<1> QED BY <1>2, <1>3 DEF sh

LEMMA EmptiedIs ==
  ASSUME NEW port, IsPort(port), NEW m \in Modules, NEW which
  PROVE  /\ IsPort(Emptied(port, m, which))
         /\ \A n \in Modules, s \in Streams :
              Emptied(port, m, which)[n][s] =
                IF n = m /\ s \in which THEN NULL ELSE port[n][s]
<1> DEFINE row == [s \in Streams |-> IF s \in which THEN NULL ELSE port[m][s]]
           new == [port EXCEPT ![m] = row]
<1>1. Emptied(port, m, which) = new
  BY DEF Emptied
<1>2. new = [n \in Modules |-> IF n = m THEN row ELSE port[n]]
  BY DEF IsPort
<1>3. \A n \in Modules, s \in Streams :
        new[n][s] = IF n = m /\ s \in which THEN NULL ELSE port[n][s]
  BY <1>2
<1>4. IsPort(new)
  <2>1. \A n \in Modules : port[n] = [s \in Streams |-> port[n][s]]
    BY DEF IsPort
  <2>2. \A n \in Modules : new[n] = [s \in Streams |-> new[n][s]]
    BY <1>2, <2>1
  <2>3. new = [n \in Modules |-> new[n]]
    BY <1>2
  <2> HIDE DEF new
  <2> QED BY <2>2, <2>3 DEF IsPort
<1> QED BY <1>1, <1>3, <1>4

LEMMA EmptiedHolds ==
  ASSUME NEW port, IsPort(port), NEW m \in Modules, NEW which,
         NEW P \in SUBSET Modules, NEW Y, Holds(port, P, Y)
  PROVE  Holds(Emptied(port, m, which), P, Y)
<1> SUFFICES ASSUME NEW n \in P, NEW s \in Streams
             PROVE  Emptied(port, m, which)[n][s] \in Y \cup {NULL}
  BY DEF Holds
<1>1. Emptied(port, m, which)[n][s] = IF n = m /\ s \in which THEN NULL ELSE port[n][s]
  BY EmptiedIs
<1>2. port[n][s] \in Y \cup {NULL}
  BY DEF Holds
<1> QED BY <1>1, <1>2

-----------------------------------------------------------------------------
(* The invariant *)

(* What is known of a System that was never made: nobody holds it, and it  *)
(* has no predecessor.  A link ends at a module; a worklist is for a run.   *)
Grounded ==
  /\ IsPort(inPort) /\ Holds(inPort, Modules, 1..created)
  /\ IsPort(outPort) /\ Holds(outPort, Modules, 1..created)
  /\ \A y \in Systems : y > created => parent[y] = 0
  /\ \A l \in net.links : l.dst \in present
  /\ ~running => ready = {}

(* Where nothing was deleted that others refer to, not even an owner.      *)
Safe ==
  /\ ~undefined
  /\ Holds(inPort, present, alive) /\ Holds(outPort, present, alive)
  /\ \A z \in Systems : parent[z] \in alive => z \in alive
  /\ \A m \in present : net.owner[m] \in present \cup {Root}

LifeInv == TypeOK /\ Grounded /\ (~exposed => Safe)

LEMMA Counts ==
  ASSUME LifeInv
  PROVE  /\ created \in Nat /\ created <= MaxSystems /\ MaxSystems \in Nat
         /\ \A y \in Systems : y \in Nat /\ y # 0 /\ y <= MaxSystems
         /\ Family(parent)
         /\ alive \subseteq 1..created /\ 1..created \subseteq Systems
         /\ IsNet(net) /\ present \subseteq Modules /\ ready \subseteq present
<1>1. created \in 0..MaxSystems /\ MaxSystems \in Nat
  BY BoundAssumption DEF LifeInv, TypeOK
<1>2. \A y \in Systems : y \in Nat /\ y # 0 /\ y <= MaxSystems
  BY <1>1 DEF Systems
<1>3. 1..created \subseteq Systems
  BY <1>1 DEF Systems
<1>4. Family(parent)
  BY DEF LifeInv, TypeOK, Family
<1> QED BY <1>1, <1>2, <1>3, <1>4 DEF LifeInv, TypeOK

(* A name for each new System, beyond those that have one.                 *)
LEMMA NamedIs ==
  ASSUME NEW new, IsFiniteSet(new), NEW n \in Nat
  PROVE  /\ Named(new, n) \in [new -> (n + 1)..(n + Cardinality(new))]
         /\ \A l, k \in new : Named(new, n)[l] = Named(new, n)[k] => l = k
         /\ Cardinality(new) \in Nat
<1> DEFINE k == Cardinality(new)
           R == (n + 1)..(n + k)
<1>1. k \in Nat
  BY FS_CardinalityType
<1> HIDE DEF k
<1>2. IsFiniteSet(R) /\ Cardinality(R) = k
  <2>1. n + 1 \in Int /\ n + k \in Int
    BY <1>1
  <2>2. IsFiniteSet(R) /\ Cardinality(R) = IF n + 1 > n + k THEN 0 ELSE (n + k) - (n + 1) + 1
    BY <2>1, FS_Interval
  <2> QED BY <1>1, <2>2
<1>3. PICK f : f \in Bijection(new, R)
  <2> HIDE DEF R
  <2>1. ExistsBijection(new, R)
    BY <1>2, FS_SameCardinalityBij DEF k
  <2> QED BY <2>1 DEF ExistsBijection
<1>4. f \in [new -> R] /\ IsInjective(f)
  BY <1>3 DEF Bijection, Injection
<1>5. Named(new, n) = CHOOSE g \in [new -> R] : IsInjective(g)
  BY DEF Named, k
<1> HIDE DEF R
<1>6. Named(new, n) \in [new -> R] /\ IsInjective(Named(new, n))
  BY <1>4, <1>5
<1>7. \A l, j \in new : Named(new, n)[l] = Named(new, n)[j] => l = j
  BY <1>6 DEF IsInjective
<1> QED BY <1>1, <1>6, <1>7 DEF R, k

(* What Change is called with: links that branch, Systems that are there.  *)
Called(new, src, fromNew, Y) ==
  /\ new \subseteq net.links /\ fromNew \in Nat
  /\ \A l \in new : src[l] \in Y

LEMMA ParentsAre ==
  ASSUME LifeInv, NEW new, NEW src, NEW n \in Nat, n >= created,
         n + Cardinality(new) <= MaxSystems,
         new \subseteq net.links, \A l \in new : src[l] \in 1..n
  PROVE  /\ Family(Parents(new, src, n))
         /\ \A y \in Systems : y <= n => Parents(new, src, n)[y] = parent[y]
         /\ \A y \in Systems : y > n + Cardinality(new) => Parents(new, src, n)[y] = 0
         /\ Named(new, n) \in [new -> (n + 1)..(n + Cardinality(new))]
         /\ Cardinality(new) \in Nat
<1> DEFINE as(y) == {l \in new : Named(new, n)[l] = y}
           P == Parents(new, src, n)
           k == Cardinality(new)
<1>1. IsFiniteSet(new)
  <2>1. IsFiniteSet(net.links)
    BY Counts DEF IsNet
  <2> QED BY <2>1, FS_Subset
<1>2. Named(new, n) \in [new -> (n + 1)..(n + k)] /\ k \in Nat
  BY <1>1, NamedIs
<1>3. \A l \in new : Named(new, n)[l] \in (n + 1)..(n + k)
  BY <1>2
<1>4. \A y \in Systems : P[y] = IF as(y) = {} THEN parent[y] ELSE src[CHOOSE l \in as(y) : TRUE]
  BY DEF Parents
<1>5. \A y \in Systems : as(y) # {} => (CHOOSE l \in as(y) : TRUE) \in new
  OBVIOUS
<1>6. \A y \in Systems : as(y) # {} => y \in (n + 1)..(n + k)
  BY <1>3
<1>7. DOMAIN P = Systems /\ P = [y \in Systems |-> P[y]]
  BY DEF Parents
<1> HIDE DEF as, P
<1>8. \A y \in Systems : y \in Nat /\ y <= MaxSystems /\ parent[y] \in 0..MaxSystems /\ parent[y] < y
  BY Counts DEF Family
<1>9. ASSUME NEW y \in Systems
      PROVE  /\ P[y] \in 0..MaxSystems /\ P[y] < y
             /\ y <= n => P[y] = parent[y]
             /\ y > n + k => P[y] = 0
  <2>1. CASE as(y) = {}
    <3>1. P[y] = parent[y]
      BY <1>4, <2>1
    <3>2. y > n + k => P[y] = 0
      <4>1. y > created => parent[y] = 0
        BY DEF LifeInv, Grounded
      <4>2. created \in Nat /\ y \in Nat
        BY Counts
      <4> QED BY <1>2, <3>1, <4>1, <4>2
    <3> QED BY <1>8, <3>1, <3>2
  <2>2. CASE as(y) # {}
    <3>1. P[y] \in 1..n
      BY <1>4, <1>5, <2>2
    <3>2. y \in (n + 1)..(n + k) /\ MaxSystems \in Nat
      BY <1>6, <2>2, Counts
    <3> QED BY <1>2, <3>1, <3>2
  <2> QED BY <2>1, <2>2
<1>10. P \in [Systems -> 0..MaxSystems]
  BY <1>7, <1>9
<1> QED BY <1>2, <1>9, <1>10 DEF Family, P, k

(* The Systems keep their types, and those that were never made.           *)
LEMMA ChangeTyped ==
  ASSUME LifeInv, NEW new, NEW src, NEW fromNew, NEW used, NEW gone,
         Called(new, src, fromNew, 1..(created + fromNew)),
         Change(new, src, fromNew, used, gone)
  PROVE  /\ created' \in 0..MaxSystems /\ created' \in Nat
         /\ created' = created + fromNew + Cardinality(new) /\ Cardinality(new) \in Nat
         /\ created + fromNew \in Nat /\ created + fromNew <= created'
         /\ created <= created + fromNew
         /\ alive' \subseteq 1..created' /\ undefined' \in BOOLEAN
         /\ parent' = Parents(new, src, created + fromNew)
         /\ parent' \in [Systems -> 0..MaxSystems] /\ \A y \in Systems : parent'[y] < y
         /\ \A y \in Systems : y > created' => parent'[y] = 0
         /\ Named(new, created + fromNew) \in [new -> (created + fromNew + 1)..created']
<1> DEFINE n == created + fromNew
           k == Cardinality(new)
<1>1. n \in Nat /\ created \in Nat /\ n >= created /\ created <= n
  BY Counts DEF Called
<1>2. n + k <= MaxSystems /\ created' = n + k
  BY DEF Change
<1>3. parent' = Parents(new, src, n)
  BY DEF Change
<1>4. /\ Family(parent')
      /\ \A y \in Systems : y > n + k => parent'[y] = 0
      /\ Named(new, n) \in [new -> (n + 1)..(n + k)]
      /\ k \in Nat
  <2>1. new \subseteq net.links /\ \A l \in new : src[l] \in 1..n
    BY DEF Called
  <2> HIDE DEF n
  <2> QED BY <1>1, <1>2, <1>3, <2>1, ParentsAre
<1>5. alive' \subseteq 1..created'
  <2>1. alive \subseteq 1..created
    BY Counts
  <2>2. alive' \subseteq alive \cup ((created + 1)..n) \cup ((n + 1)..(n + k))
    BY DEF Change
  <2> HIDE DEF n, k
  <2> QED BY <1>1, <1>2, <1>4, <2>1, <2>2
<1>6. undefined' \in BOOLEAN
  BY DEF Change
<1>7. MaxSystems \in Nat
  BY Counts
<1> HIDE DEF n, k
<1>8. created' \in 0..MaxSystems /\ created' \in Nat /\ n <= created'
  BY <1>1, <1>2, <1>4, <1>7
<1> QED BY <1>1, <1>2, <1>3, <1>4, <1>5, <1>6, <1>8 DEF Family, n, k

(* Where nothing refers any more to what goes, nothing undefined happens,  *)
(* and the successors of what is alive are alive.                          *)
LEMMA ChangeSafe ==
  ASSUME LifeInv, Safe, NEW new, NEW src, NEW fromNew, NEW used, NEW gone,
         Called(new, src, fromNew, alive \cup ((created + 1)..(created + fromNew))),
         Change(new, src, fromNew, used, gone),
         used \subseteq alive \cup ((created + 1)..(created + fromNew)), gone \subseteq alive,
         \A y \in gone : parent'[y] \in alive => parent'[y] \in Below(gone, parent'),
         \A y, z \in gone : y # z => z \notin Below({y}, parent')
  PROVE  /\ ~ undefined'
         /\ alive' = (alive \cup ((created + 1)..created')) \ Below(gone, parent')
         /\ \A z \in Systems : parent'[z] \in alive' => z \in alive'
<1> DEFINE n == created + fromNew
           k == Cardinality(new)
           living == alive \cup ((created + 1)..n)
<1>1. alive \subseteq 1..created /\ created \in Nat /\ Family(parent) /\ 1..created \subseteq Systems
  BY Counts
<1>2. fromNew \in Nat /\ living \subseteq 1..n
  BY <1>1 DEF Called
<1>3. Called(new, src, fromNew, 1..n)
  BY <1>2 DEF Called
<1>4. /\ created' = n + k /\ k \in Nat /\ n \in Nat /\ created <= n
      /\ parent' = Parents(new, src, n)
      /\ created' \in 0..MaxSystems
      /\ Family(parent')
      /\ \A y \in Systems : y > created' => parent'[y] = 0
  BY <1>3, ChangeTyped DEF Family
<1>5. \A y \in Systems : y <= n => parent'[y] = parent[y]
  <2>1. new \subseteq net.links /\ \A l \in new : src[l] \in 1..n
    BY <1>3 DEF Called
  <2>2. n + k <= MaxSystems
    BY DEF Change
  <2>3. n >= created
    BY <1>1, <1>2
  <2> HIDE DEF n, k
  <2> QED BY <1>4, <2>1, <2>2, <2>3, ParentsAre DEF k
<1>6. alive' = (living \cup ((n + 1)..(n + k))) \ Below(gone, parent')
  BY <1>4 DEF Change
<1>7. living \cup ((n + 1)..(n + k)) = alive \cup ((created + 1)..created')
  <2> HIDE DEF n, k
  <2>1. ((created + 1)..n) \cup ((n + 1)..(n + k)) = (created + 1)..created'
    BY <1>1, <1>4
  <2> QED BY <2>1
<1>8. \A z \in Systems : parent[z] \in alive => z \in alive
  BY DEF Safe
<1>9. Below(gone, parent) \subseteq alive
  BY <1>1, <1>8, BelowAlive
<1>10. Deletable(gone, parent, living)
  <2>1. ASSUME NEW y \in gone, NEW z \in gone, y # z PROVE z \notin Below({y}, parent)
    <3>1. z \in Systems /\ z <= created
      BY <1>1
    <3>2. \A x \in Systems : x <= created => parent[x] = parent'[x]
      <4>1. \A x \in Systems : x \in Nat
        BY Counts
      <4> HIDE DEF n
      <4> QED BY <1>1, <1>4, <1>5, <4>1
    <3>3. z \in Below({y}, parent) <=> z \in Below({y}, parent')
      BY <1>1, <1>4, <3>1, <3>2, BelowSame
    <3> QED BY <2>1, <3>3
  <2> QED BY <1>9, <2>1 DEF Deletable
<1>11. \A l \in new : src[l] \in living /\ Sucessors(src[l]) \subseteq living
  <2> TAKE l \in new
  <2>1. src[l] \in living
    BY DEF Called
  <2>2. ASSUME NEW z \in 1..created, parent[z] = src[l] PROVE z \in alive
    <3>1. z \in Systems /\ parent[z] < z
      BY <1>1 DEF Family
    <3>2. src[l] <= created
      <4>1. parent[z] \in Nat
        BY <3>1, <1>1 DEF Family
      <4> QED BY <1>1, <2>2, <3>1, <4>1
    <3>3. src[l] \in alive
      BY <1>1, <2>1, <3>2
    <3> QED BY <1>8, <2>2, <3>1, <3>3
  <2> QED BY <2>1, <2>2 DEF Sucessors
<1>12. ~ undefined'
  <2> DEFINE read == UNION {{src[l]} \cup Sucessors(src[l]) : l \in new}
  <2>1. read \subseteq living
    BY <1>11
  <2>2. undefined' = ~(used \cup read \subseteq living /\ Deletable(gone, parent, living))
    BY DEF Change
  <2> HIDE DEF read, living
  <2> QED BY <1>10, <2>1, <2>2 DEF living
<1>13. ASSUME NEW z \in Systems, parent'[z] \in alive' PROVE z \in alive'
  <2>1. parent'[z] \in alive \cup ((created + 1)..created')
    BY <1>6, <1>7, <1>13
  <2>2. parent'[z] \notin Below(gone, parent')
    BY <1>6, <1>13
  <2>3. z \in Nat /\ parent'[z] \in Nat /\ parent'[z] < z
    <3>1. z \in Nat /\ parent'[z] \in 0..MaxSystems /\ parent'[z] < z
      BY <1>4, Counts DEF Family
    <3> QED BY <3>1
  <2>4. parent'[z] # 0
    BY <1>1, <2>1
  <2>5. z <= created'
    BY <1>4, <2>3, <2>4
  <2>6. z <= created => parent'[z] \in alive
    BY <1>1, <2>1, <2>3
  <2>7. z \in alive \cup ((created + 1)..created')
    <3>1. CASE z <= created
      <4>1. parent'[z] = parent[z]
        <5> HIDE DEF n
        <5>1. z <= n
          BY <1>1, <1>4, <2>3, <3>1
        <5> QED BY <1>5, <5>1
      <4> QED BY <1>8, <2>6, <3>1, <4>1
    <3>2. CASE ~ (z <= created)
      <4>1. z \in (created + 1)..created'
        BY <1>1, <1>4, <2>3, <2>5, <3>2
      <4> QED BY <4>1
    <3> QED BY <3>1, <3>2
  <2>8. z \notin Below(gone, parent')
    <3>1. z \in Below(gone, parent') <=> z \in gone \/ (parent'[z] # 0 /\ parent'[z] \in Below(gone, parent'))
      BY <1>4, BelowIs
    <3>2. z \notin gone
      <4>1. z \in gone => z <= created
        BY <1>1
      <4> QED BY <2>2, <2>6, <4>1
    <3> QED BY <2>2, <3>1, <3>2
  <2> QED BY <1>6, <1>7, <2>7, <2>8
<1> QED BY <1>6, <1>7, <1>12, <1>13

-----------------------------------------------------------------------------
(* What the steps do to the ports *)

BranchesOf(m, out) == {l \in Outgoing(m) : out[m][l.out] # NULL}
Sources(ls, m, port) == [l \in ls |-> port[m][l.out]]
Carried(ls, new, src, n) == [l \in ls |-> IF l \in new THEN Named(new, n)[l] ELSE src[l]]

LEMMA LinksAre ==
  ASSUME LifeInv, NEW l \in net.links
  PROVE  l.src \in Modules /\ l.dst \in Modules /\ l.out \in Streams /\ l.in \in Streams
         /\ l.dst \in present
<1>1. l \in Link
  BY Counts DEF IsNet
<1>2. l.dst \in present
  BY DEF LifeInv, Grounded
<1> QED BY <1>1, <1>2 DEF Link

(* Systems of Y are carried along links, by their names if they are new.   *)
LEMMA CarriedHolds ==
  ASSUME NEW ls, NEW new \in SUBSET ls, NEW src, NEW n, NEW top, NEW Y,
         \A l \in ls : src[l] \in Y,
         Named(new, n) \in [new -> (n + 1)..top], (n + 1)..top \subseteq Y,
         NEW in, NEW out, NEW P \in SUBSET Modules, Holds(in, P, Y), Holds(out, P, Y)
  PROVE  LET sh == Shifted(ls, Carried(ls, new, src, n), in, out)
         IN /\ Holds(sh.in, P, Y) /\ Holds(sh.out, P, Y)
            /\ IsPort(sh.in) /\ IsPort(sh.out)
<1> DEFINE carried == Carried(ls, new, src, n)
           name == Named(new, n)
<1>1. \A l \in ls : carried[l] = IF l \in new THEN name[l] ELSE src[l]
  BY DEF Carried
<1> HIDE DEF carried, name
<1>2. \A l \in new : name[l] \in Y
  BY DEF name
<1>3. \A l \in ls : carried[l] \in Y
  BY <1>1, <1>2
<1>4. LET sh == Shifted(ls, carried, in, out) IN Holds(sh.in, P, Y) /\ Holds(sh.out, P, Y)
  BY <1>3, ShiftedHolds
<1>5. LET sh == Shifted(ls, carried, in, out) IN IsPort(sh.in) /\ IsPort(sh.out)
  BY ShiftedIsPort
<1> QED BY <1>4, <1>5 DEF carried

LEMMA BranchesAre ==
  ASSUME LifeInv, NEW m \in Modules, NEW out, NEW P \in SUBSET Modules, m \in P,
         NEW Y, Holds(out, P, Y)
  PROVE  /\ BranchesOf(m, out) \subseteq net.links
         /\ Derived(m, BranchesOf(m, out)) \subseteq BranchesOf(m, out)
         /\ \A l \in BranchesOf(m, out) : Sources(BranchesOf(m, out), m, out)[l] \in Y
<1>1. BranchesOf(m, out) \subseteq net.links
  BY DEF BranchesOf, Outgoing
<1>2. Derived(m, BranchesOf(m, out)) \subseteq BranchesOf(m, out)
  BY DEF Derived
<1>3. ASSUME NEW l \in BranchesOf(m, out)
      PROVE  Sources(BranchesOf(m, out), m, out)[l] \in Y
  <2>1. l.out \in Streams
    BY <1>1, LinksAre
  <2>2. out[m][l.out] # NULL
    BY DEF BranchesOf
  <2>3. out[m][l.out] \in Y
    BY <2>1, <2>2 DEF Holds
  <2> QED BY <2>3 DEF Sources
<1> QED BY <1>1, <1>2, <1>3

LEMMA QueueIs ==
  ASSUME LifeInv, NEW ls \in SUBSET net.links, NEW in, NEW rest \in SUBSET present,
         Queue(ls, in, rest)
  PROVE  ready' \subseteq present
<1>1. \A l \in ls : l.dst \in present
  BY LinksAre
<1> QED BY <1>1 DEF Queue

(* shiftModuleOutput, taken apart. *)
LEMMA ShiftModuleOutputIs ==
  ASSUME NEW m, NEW out, NEW fromNew, NEW used, ShiftModuleOutput(m, out, fromNew, used)
  PROVE  LET ls  == BranchesOf(m, out)
             new == Derived(m, ls)
             src == Sources(ls, m, out)
             sh  == Shifted(ls, Carried(ls, new, src, created + fromNew), inPort, out)
         IN /\ Change(new, src, fromNew, used, {})
            /\ \E which : outPort' = Emptied(sh.out, m, which)
            /\ inPort' = sh.in \/ inPort' = Emptied(sh.in, m, Streams)
            /\ Queue(ls, sh.in, ready \ {m})
<1> DEFINE ls  == BranchesOf(m, out)
           new == Derived(m, ls)
           src == Sources(ls, m, out)
           sh  == Shifted(ls, Carried(ls, new, src, created + fromNew), inPort, out)
<1>1. /\ Change(new, src, fromNew, used, {})
      /\ outPort' = Emptied(sh.out, m, {l.out : l \in ls \ new})
      /\ inPort' = IF KeepsInPorts(m) THEN sh.in ELSE Emptied(sh.in, m, Streams)
      /\ Queue(ls, sh.in, ready \ {m})
  BY DEF ShiftModuleOutput, BranchesOf, Sources, Carried
<1> HIDE DEF ls, new, src, sh
<1>2. \E which : outPort' = Emptied(sh.out, m, which)
  BY <1>1
<1>3. inPort' = sh.in \/ inPort' = Emptied(sh.in, m, Streams)
  BY <1>1
<1> QED BY <1>1, <1>2, <1>3 DEF ls, new, src, sh

LEMMA ShiftModuleOutputTyped ==
  ASSUME LifeInv, NEW m \in Modules, NEW out, NEW fromNew \in Nat, NEW used,
         Holds(out, Modules, 1..(created + fromNew)),
         ShiftModuleOutput(m, out, fromNew, used)
  PROVE  /\ created' \in 0..MaxSystems /\ created' \in Nat
         /\ alive' \subseteq 1..created' /\ undefined' \in BOOLEAN
         /\ parent' \in [Systems -> 0..MaxSystems] /\ \A y \in Systems : parent'[y] < y
         /\ \A y \in Systems : y > created' => parent'[y] = 0
         /\ IsPort(inPort') /\ Holds(inPort', Modules, 1..created')
         /\ IsPort(outPort') /\ Holds(outPort', Modules, 1..created')
         /\ ready' \subseteq present
<1> DEFINE n   == created + fromNew
           ls  == BranchesOf(m, out)
           new == Derived(m, ls)
           src == Sources(ls, m, out)
           sh  == Shifted(ls, Carried(ls, new, src, n), inPort, out)
           Y   == 1..created'
<1>1. /\ Change(new, src, fromNew, used, {})
      /\ \E which : outPort' = Emptied(sh.out, m, which)
      /\ inPort' = sh.in \/ inPort' = Emptied(sh.in, m, Streams)
      /\ Queue(ls, sh.in, ready \ {m})
  BY ShiftModuleOutputIs
<1>2. /\ ls \subseteq net.links /\ new \subseteq ls
      /\ \A l \in ls : src[l] \in 1..n
  <2> HIDE DEF n
  <2> QED BY BranchesAre DEF n
<1> HIDE DEF ls, new, src, sh
<1>3. Called(new, src, fromNew, 1..n)
  BY <1>2 DEF Called
<1>4. /\ created' \in 0..MaxSystems /\ created' \in Nat
      /\ n \in Nat /\ n <= created' /\ created <= n /\ created \in Nat
      /\ alive' \subseteq 1..created' /\ undefined' \in BOOLEAN
      /\ parent' \in [Systems -> 0..MaxSystems] /\ \A y \in Systems : parent'[y] < y
      /\ \A y \in Systems : y > created' => parent'[y] = 0
      /\ Named(new, n) \in [new -> (n + 1)..created']
  <2>1. created \in Nat
    BY Counts
  <2> QED BY <1>1, <1>3, <2>1, ChangeTyped
<1> HIDE DEF n
<1>5. 1..n \subseteq Y /\ 1..created \subseteq Y /\ (n + 1)..created' \subseteq Y
  BY <1>4
<1>6. Holds(inPort, Modules, Y) /\ Holds(out, Modules, Y) /\ \A l \in ls : src[l] \in Y
  <2>1. Holds(inPort, Modules, 1..created) /\ Holds(out, Modules, 1..n)
    BY DEF LifeInv, Grounded, n
  <2> HIDE DEF Y
  <2> QED BY <1>2, <1>5, <2>1, HoldsMore
<1> HIDE DEF Y
<1>7. Holds(sh.in, Modules, Y) /\ Holds(sh.out, Modules, Y) /\ IsPort(sh.in) /\ IsPort(sh.out)
  BY <1>2, <1>4, <1>5, <1>6, CarriedHolds DEF sh
<1>8. IsPort(inPort') /\ Holds(inPort', Modules, Y)
  BY <1>1, <1>7, EmptiedIs, EmptiedHolds
<1>9. IsPort(outPort') /\ Holds(outPort', Modules, Y)
  BY <1>1, <1>7, EmptiedIs, EmptiedHolds
<1>10. ready' \subseteq present
  <2>1. ready \ {m} \subseteq present
    BY Counts
  <2> QED BY <1>1, <1>2, <2>1, QueueIs
<1> QED BY <1>4, <1>8, <1>9, <1>10 DEF Y

LEMMA ShiftModuleOutputSafe ==
  ASSUME LifeInv, Safe, NEW m \in present, NEW out, NEW fromNew \in Nat, NEW used,
         Holds(out, Modules, 1..(created + fromNew)),
         Holds(out, present, alive \cup ((created + 1)..(created + fromNew))),
         used \subseteq alive \cup ((created + 1)..(created + fromNew)),
         ShiftModuleOutput(m, out, fromNew, used)
  PROVE  /\ ~ undefined'
         /\ Holds(inPort', present, alive') /\ Holds(outPort', present, alive')
         /\ \A z \in Systems : parent'[z] \in alive' => z \in alive'
<1> DEFINE n   == created + fromNew
           ls  == BranchesOf(m, out)
           new == Derived(m, ls)
           src == Sources(ls, m, out)
           sh  == Shifted(ls, Carried(ls, new, src, n), inPort, out)
           L   == alive \cup ((created + 1)..n)
           Y   == alive'
<1>0. m \in Modules /\ present \in SUBSET Modules
  BY Counts
<1>1. /\ Change(new, src, fromNew, used, {})
      /\ \E which : outPort' = Emptied(sh.out, m, which)
      /\ inPort' = sh.in \/ inPort' = Emptied(sh.in, m, Streams)
  BY ShiftModuleOutputIs
<1>2. /\ ls \subseteq net.links /\ new \subseteq ls
      /\ \A l \in ls : src[l] \in 1..n
  <2> HIDE DEF n
  <2> QED BY <1>0, BranchesAre DEF n
<1>3. \A l \in ls : src[l] \in L
  <2> HIDE DEF L
  <2> QED BY <1>0, BranchesAre DEF L
<1> HIDE DEF ls, new, src, sh
<1>4. Called(new, src, fromNew, 1..n) /\ Called(new, src, fromNew, L)
  BY <1>2, <1>3 DEF Called
<1>5. /\ created' \in Nat /\ n \in Nat /\ n <= created' /\ created <= n /\ created \in Nat
      /\ Named(new, n) \in [new -> (n + 1)..created']
      /\ Family(parent')
  <2>1. created \in Nat
    BY Counts
  <2> QED BY <1>1, <1>4, <2>1, ChangeTyped DEF Family
<1>6. /\ ~ undefined'
      /\ alive' = (alive \cup ((created + 1)..created')) \ Below({}, parent')
      /\ \A z \in Systems : parent'[z] \in alive' => z \in alive'
  BY <1>1, <1>4, ChangeSafe
<1>7. alive' = alive \cup ((created + 1)..created')
  BY <1>5, <1>6, BelowNone
<1> HIDE DEF n
<1>8. alive \subseteq Y /\ L \subseteq Y /\ (n + 1)..created' \subseteq Y
  BY <1>5, <1>7
<1>9. Holds(inPort, present, Y) /\ Holds(out, present, Y) /\ \A l \in ls : src[l] \in Y
  <2>1. Holds(inPort, present, alive) /\ Holds(out, present, L)
    BY DEF Safe, n
  <2> HIDE DEF Y, L
  <2> QED BY <1>3, <1>8, <2>1, HoldsMore
<1> HIDE DEF Y
<1>10. Holds(sh.in, present, Y) /\ Holds(sh.out, present, Y) /\ IsPort(sh.in) /\ IsPort(sh.out)
  BY <1>0, <1>2, <1>5, <1>8, <1>9, CarriedHolds DEF sh
<1>11. Holds(inPort', present, Y)
  BY <1>0, <1>1, <1>10, EmptiedHolds
<1>12. Holds(outPort', present, Y)
  BY <1>0, <1>1, <1>10, EmptiedHolds
<1> QED BY <1>6, <1>11, <1>12 DEF Y

LEMMA CreatedIs ==
  ASSUME LifeInv, NEW m, NEW used \in SUBSET Streams
  PROVE  /\ Created(m, used) \subseteq Streams
         /\ Cardinality(Created(m, used)) \in Nat
         /\ Named(Created(m, used), created)
              \in [Created(m, used) -> (created + 1)..(created + Cardinality(Created(m, used)))]
<1>1. Created(m, used) \subseteq Streams
  BY DEF Created
<1>2. IsFiniteSet(Created(m, used))
  BY <1>1, FiniteAssumption, FS_Subset
<1>3. created \in Nat
  BY Counts
<1> QED BY <1>1, <1>2, <1>3, NamedIs

(* getData finds what the ports hold, or puts a new System on one.         *)
LEMMA AfterGetDataHolds ==
  ASSUME LifeInv, NEW m \in Modules, NEW used \in SUBSET Streams,
         NEW P \in SUBSET Modules, m \in P, NEW Y, Holds(inPort, P, Y), Holds(outPort, P, Y),
         (created + 1)..(created + Cardinality(Created(m, used))) \subseteq Y
  PROVE  /\ IsPort(AfterGetData(m, used)) /\ Holds(AfterGetData(m, used), P, Y)
<1> DEFINE made == Created(m, used)
           name == Named(made, created)
           row == [s \in Streams |->
                     IF s \in made THEN name[s]
                     ELSE IF s \in used \cap Outs(m) /\ inPort[m][s] # NULL THEN inPort[m][s]
                     ELSE outPort[m][s]]
           new == [outPort EXCEPT ![m] = row]
<1>1. AfterGetData(m, used) = new
  BY DEF AfterGetData
<1>2. \A s \in made : name[s] \in Y
  <2>1. name \in [made -> (created + 1)..(created + Cardinality(made))]
    BY CreatedIs
  <2> HIDE DEF name, made
  <2>2. \A s \in made : name[s] \in (created + 1)..(created + Cardinality(made))
    BY <2>1
  <2> QED BY <2>2 DEF made
<1> HIDE DEF made, name
<1>3. IsPort(outPort)
  BY DEF LifeInv, Grounded
<1>4. new = [n \in Modules |-> IF n = m THEN row ELSE outPort[n]]
  BY <1>3 DEF IsPort
<1>5. \A s \in Streams : row[s] \in Y \cup {NULL}
  <2> TAKE s \in Streams
  <2>1. inPort[m][s] \in Y \cup {NULL} /\ outPort[m][s] \in Y \cup {NULL}
    BY DEF Holds
  <2> QED BY <1>2, <2>1
<1>6. row = [s \in Streams |-> row[s]]
  OBVIOUS
<1> HIDE DEF row
<1>7. IsPort(new)
  <2>1. \A n \in Modules : outPort[n] = [s \in Streams |-> outPort[n][s]]
    BY <1>3 DEF IsPort
  <2>2. \A n \in Modules : new[n] = [s \in Streams |-> new[n][s]]
    BY <1>4, <1>6, <2>1
  <2>3. new = [n \in Modules |-> new[n]]
    BY <1>4
  <2> HIDE DEF new
  <2> QED BY <2>2, <2>3 DEF IsPort
<1>8. Holds(new, P, Y)
  <2> SUFFICES ASSUME NEW n \in P, NEW s \in Streams PROVE new[n][s] \in Y \cup {NULL}
    BY DEF Holds
  <2>1. new[n] = IF n = m THEN row ELSE outPort[n]
    BY <1>4
  <2>2. outPort[n][s] \in Y \cup {NULL}
    BY DEF Holds
  <2> QED BY <1>5, <2>1, <2>2
<1> QED BY <1>1, <1>7, <1>8

LEMMA FoundHeld ==
  ASSUME NEW m, NEW used \in SUBSET Streams, NEW P, m \in P,
         NEW Y, Holds(inPort, P, Y), Holds(outPort, P, Y)
  PROVE  Found(m, used) \subseteq Y
<1>1. ASSUME NEW s \in used, s \notin Created(m, used)
      PROVE  (IF inPort[m][s] # NULL THEN inPort[m][s] ELSE outPort[m][s]) \in Y
  <2>1. inPort[m][s] \in Y \cup {NULL} /\ outPort[m][s] \in Y \cup {NULL}
    BY DEF Holds
  <2>2. inPort[m][s] # NULL \/ outPort[m][s] # NULL
    BY <1>1 DEF Created
  <2> QED BY <2>1, <2>2
<1> QED BY <1>1 DEF Found

-----------------------------------------------------------------------------
(* Each step *)

(* What a step has to keep besides the ports and the Systems.              *)
Kept ==
  /\ IsNet(net) /\ present \subseteq Modules
  /\ armed \subseteq Modules /\ ready \subseteq present
  /\ running \in BOOLEAN /\ exposed \in BOOLEAN
  /\ fresh \in BOOLEAN /\ spoiled \subseteq Systems
  /\ runs \in 0..MaxRuns /\ edits \in 0..MaxEdits
  /\ \A l \in net.links : l.dst \in present
  /\ ~running => ready = {}
  /\ ~exposed => \A m \in present : net.owner[m] \in present \cup {Root}
Heaped ==
  /\ created \in 0..MaxSystems /\ alive \subseteq 1..created /\ undefined \in BOOLEAN
  /\ parent \in [Systems -> 0..MaxSystems] /\ \A y \in Systems : parent[y] < y
  /\ \A y \in Systems : y > created => parent[y] = 0
  /\ IsPort(inPort) /\ Holds(inPort, Modules, 1..created)
  /\ IsPort(outPort) /\ Holds(outPort, Modules, 1..created)
Reached ==
  /\ ~undefined
  /\ Holds(inPort, present, alive) /\ Holds(outPort, present, alive)
  /\ \A z \in Systems : parent[z] \in alive => z \in alive

LEMMA PartsOfLifeInv == LifeInv <=> Kept /\ Heaped /\ (~exposed => Reached)
<1>1. ASSUME Kept, Heaped, ~exposed => Reached PROVE LifeInv
  <2>1. 1..created \subseteq Systems
    BY <1>1, BoundAssumption DEF Heaped, Systems
  <2>2. Holds(inPort, Modules, Systems) /\ Holds(outPort, Modules, Systems)
    BY <1>1, <2>1, HoldsMore DEF Heaped
  <2>3. /\ inPort \in [Modules -> [Streams -> Systems \cup {NULL}]]
        /\ outPort \in [Modules -> [Streams -> Systems \cup {NULL}]]
    BY <1>1, <2>2, PortTyped DEF Heaped
  <2>4. TypeOK
    BY <1>1, <2>3 DEF TypeOK, Kept, Heaped
  <2>5. Grounded
    BY <1>1 DEF Grounded, Kept, Heaped
  <2>6. ~exposed => Safe
    BY <1>1 DEF Safe, Kept, Reached
  <2> QED BY <2>4, <2>5, <2>6 DEF LifeInv
<1>2. ASSUME LifeInv PROVE Kept /\ Heaped /\ (~exposed => Reached)
  <2>1. Kept
    BY <1>2 DEF LifeInv, TypeOK, Grounded, Safe, Kept
  <2>2. Heaped
    BY <1>2 DEF LifeInv, TypeOK, Grounded, Heaped
  <2>3. ~exposed => Reached
    BY <1>2 DEF LifeInv, Safe, Reached
  <2> QED BY <2>1, <2>2, <2>3
<1> QED BY <1>1, <1>2

LEMMA PartsOfLifeInvThen == Kept' /\ Heaped' /\ (~exposed' => Reached') => LifeInv'
<1>1. (LifeInv <=> Kept /\ Heaped /\ (~exposed => Reached))'
  BY PartsOfLifeInv, PTL
<1> QED BY <1>1

LEMMA InitLife == Init => LifeInv
<1> SUFFICES ASSUME Init PROVE Kept /\ Heaped /\ Reached
  BY PartsOfLifeInv
<1> USE DEF Init
<1>1. IsNet(net)
  BY NetAssumption
<1>2. Kept
  <2>1. \A l \in net.links : l.dst \in present
    BY <1>1 DEF IsNet, Link
  <2>2. \A m \in present : net.owner[m] \in present \cup {Root}
    BY <1>1 DEF IsNet
  <2>3. armed \subseteq Modules
    BY <1>1 DEF IsNet
  <2>4. runs \in 0..MaxRuns /\ edits \in 0..MaxEdits
    BY BoundAssumption
  <2>5. /\ running \in BOOLEAN /\ exposed \in BOOLEAN /\ fresh \in BOOLEAN
        /\ ready \subseteq present /\ spoiled \subseteq Systems /\ present \subseteq Modules
    OBVIOUS
  <2> QED BY <1>1, <2>1, <2>2, <2>3, <2>4, <2>5 DEF Kept
<1>3. \A Y, P \in SUBSET Modules : IsPort(NoData) /\ Holds(NoData, P, Y)
  BY DEF IsPort, Holds, NoData, NoPorts
<1>4. \A y \in Systems : 0 < y
  BY BoundAssumption DEF Systems
<1>5. Heaped
  <2>1. parent \in [Systems -> 0..MaxSystems] /\ \A y \in Systems : parent[y] = 0
    BY BoundAssumption
  <2>2. Holds(NoData, Modules, 1..created)
    BY <1>3
  <2>3. created \in 0..MaxSystems /\ alive \subseteq 1..created /\ undefined \in BOOLEAN
    <3>1. created \in 0..MaxSystems
      BY BoundAssumption
    <3>2. alive \subseteq 1..created
      OBVIOUS
    <3>3. undefined \in BOOLEAN
      OBVIOUS
    <3> QED BY <3>1, <3>2, <3>3
  <2>4. /\ IsPort(inPort) /\ Holds(inPort, Modules, 1..created)
        /\ IsPort(outPort) /\ Holds(outPort, Modules, 1..created)
    BY <1>3, <2>2
  <2>5. (\A y \in Systems : parent[y] < y) /\ \A y \in Systems : y > created => parent[y] = 0
    BY <1>4, <2>1
  <2> HIDE DEF Init
  <2> QED BY <2>1, <2>3, <2>4, <2>5 DEF Heaped
<1>6. Reached
  BY <1>3 DEF Reached
<1> QED BY <1>2, <1>5, <1>6

LEMMA StartRunLife == LifeInv /\ StartRun => LifeInv'
<1> SUFFICES ASSUME LifeInv, StartRun PROVE Kept' /\ Heaped' /\ (~exposed' => Reached')
  BY PartsOfLifeInvThen
<1> USE DEF StartRun
<1>0. Kept /\ Heaped /\ (~exposed => Reached)
  BY PartsOfLifeInv
<1>1. UNCHANGED <<net, present, inPort, outPort, created, alive, parent, undefined, exposed, edits>>
  BY DEF data
<1>2. Kept'
  <2>1. net.groups \subseteq Modules
    BY Counts DEF IsNet
  <2>2. armed' \subseteq Modules
    BY <1>0, <2>1 DEF Kept
  <2>3. runs' \in 0..MaxRuns
    BY <1>0, BoundAssumption DEF Kept
  <2> QED BY <1>0, <1>1, <2>2, <2>3 DEF Kept
<1>3. Heaped' /\ (~exposed' => Reached')
  BY <1>0, <1>1 DEF Heaped, Reached
<1> QED BY <1>2, <1>3

LEMMA FinishModuleLife ==
  ASSUME LifeInv, NEW m \in ready, NEW used \in SUBSET Streams, FinishModule(m, used)
  PROVE  LifeInv'
<1> DEFINE k == Cardinality(Created(m, used))
           n == created + k
           out == AfterGetData(m, used)
           L == alive \cup ((created + 1)..n)
<1>0. Kept /\ Heaped /\ (~exposed => Reached) /\ m \in present /\ m \in Modules
      /\ present \in SUBSET Modules /\ created \in Nat /\ k \in Nat /\ alive \subseteq 1..created
  BY PartsOfLifeInv, Counts, CreatedIs
<1>1. /\ ShiftModuleOutput(m, out, k, Found(m, used)) /\ Uses(m, used)
      /\ UNCHANGED <<net, present, exposed, armed, running, fresh, runs, edits>>
  BY DEF FinishModule
<1>2. Holds(out, Modules, 1..n)
  <2>1. Holds(inPort, Modules, 1..created) /\ Holds(outPort, Modules, 1..created)
    BY <1>0 DEF Heaped
  <2> DEFINE Y == 1..n
  <2>2. 1..created \subseteq Y /\ (created + 1)..n \subseteq Y
    BY <1>0
  <2> HIDE DEF Y
  <2>3. Holds(inPort, Modules, Y) /\ Holds(outPort, Modules, Y)
    BY <2>1, <2>2, HoldsMore
  <2>4. Holds(out, Modules, Y)
    BY <1>0, <2>2, <2>3, AfterGetDataHolds
  <2> QED BY <2>4 DEF Y
<1>3. ASSUME ~exposed PROVE Holds(out, present, L) /\ Found(m, used) \subseteq L
  <2>1. Holds(inPort, present, alive) /\ Holds(outPort, present, alive)
    BY <1>0, <1>3 DEF Reached
  <2>2. alive \subseteq L /\ (created + 1)..n \subseteq L
    OBVIOUS
  <2> HIDE DEF L
  <2>3. Holds(inPort, present, L) /\ Holds(outPort, present, L)
    BY <2>1, <2>2, HoldsMore
  <2>4. Holds(out, present, L)
    BY <1>0, <2>2, <2>3, AfterGetDataHolds
  <2> QED BY <1>0, <2>3, <2>4, FoundHeld
<1> HIDE DEF out, k
<1>4. Heaped' /\ ready' \subseteq present
  <2>1. /\ created' \in 0..MaxSystems /\ alive' \subseteq 1..created' /\ undefined' \in BOOLEAN
        /\ parent' \in [Systems -> 0..MaxSystems] /\ \A y \in Systems : parent'[y] < y
        /\ \A y \in Systems : y > created' => parent'[y] = 0
        /\ IsPort(inPort') /\ Holds(inPort', Modules, 1..created')
        /\ IsPort(outPort') /\ Holds(outPort', Modules, 1..created')
        /\ ready' \subseteq present
    BY <1>0, <1>1, <1>2, ShiftModuleOutputTyped
  <2> QED BY <2>1 DEF Heaped, IsPort, Holds
<1>5. ~exposed' => Reached'
  <2> SUFFICES ASSUME ~exposed' PROVE Reached'
    OBVIOUS
  <2>1. ~exposed /\ Safe
    BY <1>1 DEF LifeInv
  <2>2. /\ ~ undefined'
        /\ Holds(inPort', present, alive') /\ Holds(outPort', present, alive')
        /\ \A z \in Systems : parent'[z] \in alive' => z \in alive'
    BY <1>0, <1>1, <1>2, <1>3, <2>1, ShiftModuleOutputSafe
  <2> QED BY <1>1, <2>2 DEF Reached, Holds
<1>6. spoiled' \subseteq Systems
  <2>1. Found(m, used \cap Outs(m)) \subseteq 1..created
    BY <1>0, FoundHeld DEF Heaped
  <2> QED BY <1>0, <1>1, <2>1, Counts DEF Uses, Kept
<1>7. Kept'
  <2>1. running
    BY <1>1 DEF Uses
  <2> QED BY <1>0, <1>1, <1>4, <1>6, <2>1 DEF Kept
<1> QED BY <1>4, <1>5, <1>7, PartsOfLifeInvThen

LEMMA FinishGroupLife ==
  ASSUME LifeInv, NEW g \in ready, FinishGroup(g)
  PROVE  LifeInv'
<1>0. Kept /\ Heaped /\ (~exposed => Reached) /\ g \in present /\ g \in Modules /\ created \in Nat
  BY PartsOfLifeInv, Counts
<1>1. /\ ShiftModuleOutput(g, outPort, 0, {})
      /\ UNCHANGED <<net, present, exposed, armed, running, fresh, spoiled, runs, edits>>
      /\ running
  BY DEF FinishGroup
<1>2. Holds(outPort, Modules, 1..(created + 0))
  BY <1>0 DEF Heaped
<1>3. ~exposed => Holds(outPort, present, alive \cup ((created + 1)..(created + 0)))
  BY <1>0, HoldsMore DEF Reached
<1>4. Heaped' /\ ready' \subseteq present
  <2>1. /\ created' \in 0..MaxSystems /\ alive' \subseteq 1..created' /\ undefined' \in BOOLEAN
        /\ parent' \in [Systems -> 0..MaxSystems] /\ \A y \in Systems : parent'[y] < y
        /\ \A y \in Systems : y > created' => parent'[y] = 0
        /\ IsPort(inPort') /\ Holds(inPort', Modules, 1..created')
        /\ IsPort(outPort') /\ Holds(outPort', Modules, 1..created')
        /\ ready' \subseteq present
    BY <1>0, <1>1, <1>2, ShiftModuleOutputTyped
  <2> QED BY <2>1 DEF Heaped, IsPort, Holds
<1>5. ~exposed' => Reached'
  <2> SUFFICES ASSUME ~exposed' PROVE Reached'
    OBVIOUS
  <2>1. ~exposed /\ Safe
    BY <1>1 DEF LifeInv
  <2>2. /\ ~ undefined'
        /\ Holds(inPort', present, alive') /\ Holds(outPort', present, alive')
        /\ \A z \in Systems : parent'[z] \in alive' => z \in alive'
    BY <1>0, <1>1, <1>2, <1>3, <2>1, ShiftModuleOutputSafe
  <2> QED BY <1>1, <2>2 DEF Reached, Holds
<1>6. Kept'
  BY <1>0, <1>1, <1>4 DEF Kept
<1> QED BY <1>4, <1>5, <1>6, PartsOfLifeInvThen

LEMMA FailModuleLife ==
  ASSUME LifeInv, NEW m \in ready, NEW used \in SUBSET Streams, FailModule(m, used)
  PROVE  LifeInv'
<1> DEFINE k == Cardinality(Created(m, used))
           n == created + k
           L == alive \cup ((created + 1)..n)
           told == Found(m, used) \cup
                     (IF net.owner[m] \in present \cup {Root} THEN {} ELSE {0})
<1>0. Kept /\ Heaped /\ (~exposed => Reached) /\ m \in present /\ m \in Modules
      /\ present \in SUBSET Modules /\ created \in Nat /\ k \in Nat /\ alive \subseteq 1..created
  BY PartsOfLifeInv, Counts, CreatedIs
<1>1. /\ Change({}, <<>>, k, told, {}) /\ Uses(m, used)
      /\ outPort' = AfterGetData(m, used)
      /\ running' = FALSE /\ ready' = {}
      /\ UNCHANGED <<net, present, inPort, exposed, armed, fresh, runs, edits>>
  BY DEF FailModule
<1> HIDE DEF k, told
<1>2. Cardinality({}) = 0
  BY FS_EmptySet
<1>3. \A Y : Called({}, <<>>, k, Y)
  BY <1>0 DEF Called
<1>4. /\ created' \in 0..MaxSystems /\ created' \in Nat /\ created' = n
      /\ alive' \subseteq 1..created' /\ undefined' \in BOOLEAN
      /\ parent' \in [Systems -> 0..MaxSystems] /\ \A y \in Systems : parent'[y] < y
      /\ \A y \in Systems : y > created' => parent'[y] = 0
  <2>1. /\ created' \in 0..MaxSystems /\ created' \in Nat
        /\ created' = n + Cardinality({})
        /\ alive' \subseteq 1..created' /\ undefined' \in BOOLEAN
        /\ parent' \in [Systems -> 0..MaxSystems] /\ \A y \in Systems : parent'[y] < y
        /\ \A y \in Systems : y > created' => parent'[y] = 0
    BY <1>1, <1>3, ChangeTyped
  <2>2. n \in Nat
    BY <1>0
  <2>3. created' = n
    BY <1>2, <2>1, <2>2
  <2> QED BY <2>1, <2>3
<1>5. \A Y : (created + 1)..n \subseteq Y =>
        (created + 1)..(created + Cardinality(Created(m, used))) \subseteq Y
  BY DEF k
<1>6. IsPort(outPort') /\ Holds(outPort', Modules, 1..n) /\ Holds(inPort, Modules, 1..n)
  <2>1. Holds(inPort, Modules, 1..created) /\ Holds(outPort, Modules, 1..created)
    BY <1>0 DEF Heaped
  <2> DEFINE Y == 1..n
  <2>2. 1..created \subseteq Y /\ (created + 1)..n \subseteq Y
    BY <1>0
  <2> HIDE DEF Y, n
  <2>3. Holds(inPort, Modules, Y) /\ Holds(outPort, Modules, Y)
    BY <2>1, <2>2, HoldsMore
  <2>4. IsPort(outPort') /\ Holds(outPort', Modules, Y)
    BY <1>0, <1>1, <1>5, <2>2, <2>3, AfterGetDataHolds
  <2> QED BY <2>3, <2>4 DEF Y
<1>7. Heaped'
  <2>1. IsPort(inPort)
    BY <1>0 DEF Heaped
  <2>2. Holds(outPort', Modules, 1..created') /\ Holds(inPort', Modules, 1..created')
        /\ IsPort(outPort') /\ IsPort(inPort')
    BY <1>1, <1>4, <1>6, <2>1
  <2> QED BY <1>4, <2>2 DEF Heaped, IsPort, Holds
<1>8. ASSUME ~exposed' PROVE Reached'
  <2>1. ~exposed /\ Safe
    BY <1>1, <1>8 DEF LifeInv
  <2>2. Holds(inPort, present, alive) /\ Holds(outPort, present, alive)
        /\ net.owner[m] \in present \cup {Root}
    BY <1>0, <2>1 DEF Safe
  <2>3. alive \subseteq L /\ (created + 1)..n \subseteq L
    OBVIOUS
  <2> HIDE DEF L, n
  <2>4. Holds(inPort, present, L) /\ Holds(outPort, present, L)
    BY <2>2, <2>3, HoldsMore
  <2>5. Holds(outPort', present, L)
    BY <1>0, <1>1, <1>5, <2>3, <2>4, AfterGetDataHolds
  <2>6. told \subseteq L
    <3>1. Found(m, used) \subseteq L
      BY <1>0, <2>4, FoundHeld
    <3> QED BY <2>2, <3>1 DEF told
  <2>7. /\ ~ undefined'
        /\ alive' = (alive \cup ((created + 1)..created')) \ Below({}, parent')
        /\ \A z \in Systems : parent'[z] \in alive' => z \in alive'
    BY <1>1, <1>3, <2>1, <2>6, ChangeSafe DEF L, n
  <2>8. alive' = L
    <3>1. Family(parent')
      BY <1>4 DEF Family
    <3> QED BY <1>4, <2>7, <3>1, BelowNone DEF L
  <2> QED BY <1>1, <2>4, <2>5, <2>7, <2>8 DEF Reached, Holds
<1>9. spoiled' \subseteq Systems
  <2>1. Found(m, used \cap Outs(m)) \subseteq 1..created
    BY <1>0, FoundHeld DEF Heaped
  <2> QED BY <1>0, <1>1, <2>1, Counts DEF Uses, Kept
<1>10. Kept'
  BY <1>0, <1>1, <1>9 DEF Kept
<1> QED BY <1>7, <1>8, <1>10, PartsOfLifeInvThen

LEMMA EndRunLife == LifeInv /\ EndRun => LifeInv'
<1> SUFFICES ASSUME LifeInv, EndRun PROVE Kept' /\ Heaped' /\ (~exposed' => Reached')
  BY PartsOfLifeInvThen
<1> USE DEF EndRun, data
<1>0. Kept /\ Heaped /\ (~exposed => Reached)
  BY PartsOfLifeInv
<1>1. Kept'
  BY <1>0 DEF Kept
<1>2. Heaped' /\ (~exposed' => Reached')
  BY <1>0 DEF Heaped, Reached
<1> QED BY <1>1, <1>2

(* A port that is given up. *)
LEMMA RemovedIs ==
  ASSUME NEW port, IsPort(port), NEW m \in Modules
  PROVE  /\ IsPort(Removed(port, m))
         /\ \A n \in Modules, s \in Streams :
              Removed(port, m)[n][s] = IF n = m THEN NULL ELSE port[n][s]
<1> DEFINE new == [port EXCEPT ![m] = NoPorts]
<1>1. Removed(port, m) = new
  BY DEF Removed
<1>2. new = [n \in Modules |-> IF n = m THEN NoPorts ELSE port[n]]
  BY DEF IsPort
<1>3. \A n \in Modules, s \in Streams : new[n][s] = IF n = m THEN NULL ELSE port[n][s]
  BY <1>2 DEF NoPorts
<1>4. IsPort(new)
  <2>1. \A n \in Modules : port[n] = [s \in Streams |-> port[n][s]]
    BY DEF IsPort
  <2>2. \A n \in Modules : new[n] = [s \in Streams |-> new[n][s]]
    BY <1>2, <2>1 DEF NoPorts
  <2>3. new = [n \in Modules |-> new[n]]
    BY <1>2
  <2> HIDE DEF new
  <2> QED BY <2>2, <2>3 DEF IsPort
<1> QED BY <1>1, <1>3, <1>4

LEMMA RemovedHolds ==
  ASSUME NEW port, IsPort(port), NEW m \in Modules,
         NEW P \in SUBSET Modules, NEW Y, Holds(port, P, Y)
  PROVE  Holds(Removed(port, m), P, Y)
<1> SUFFICES ASSUME NEW n \in P, NEW s \in Streams
             PROVE  Removed(port, m)[n][s] \in Y \cup {NULL}
  BY DEF Holds
<1>1. Removed(port, m)[n][s] = IF n = m THEN NULL ELSE port[n][s]
  BY RemovedIs
<1>2. port[n][s] \in Y \cup {NULL}
  BY DEF Holds
<1> QED BY <1>1, <1>2

LEMMA RemoveLinkLife ==
  ASSUME LifeInv, NEW l \in net.links, RemoveLink(l)
  PROVE  LifeInv'
<1>0. Kept /\ Heaped /\ (~exposed => Reached) /\ l.dst \in Modules /\ present \in SUBSET Modules
  BY PartsOfLifeInv, LinksAre, Counts
<1>1. /\ edits < MaxEdits /\ edits' = edits + 1
      /\ net' = [net EXCEPT !.links = net.links \ {l}]
      /\ inPort' = Removed(inPort, l.dst) /\ outPort' = Removed(outPort, l.dst)
      /\ UNCHANGED <<present, created, alive, parent, undefined, exposed>>
      /\ UNCHANGED <<armed, running, ready, fresh, spoiled, runs>>
  BY DEF RemoveLink, control
<1>2. IsPort(inPort) /\ IsPort(outPort)
  BY <1>0 DEF Heaped
<1>3. Heaped'
  <2>1. /\ IsPort(inPort') /\ Holds(inPort', Modules, 1..created)
        /\ IsPort(outPort') /\ Holds(outPort', Modules, 1..created)
    BY <1>0, <1>1, <1>2, RemovedIs, RemovedHolds DEF Heaped
  <2> QED BY <1>0, <1>1, <2>1 DEF Heaped, IsPort, Holds
<1>4. ASSUME ~exposed' PROVE Reached'
  <2>1. Reached
    BY <1>0, <1>1, <1>4
  <2>2. Holds(inPort', present, alive) /\ Holds(outPort', present, alive)
    BY <1>0, <1>1, <1>2, <2>1, RemovedHolds DEF Reached
  <2> QED BY <1>1, <2>1, <2>2 DEF Reached, Holds
<1>5. Kept'
  <2>1. IsNet(net)
    BY <1>0 DEF Kept
  <2>2. /\ net'.groups = net.groups /\ net'.owner = net.owner /\ net'.views = net.views
        /\ net'.successorMode = net.successorMode
    BY <1>1
  <2>3. net'.links \subseteq net.links
    BY <1>1 DEF IsNet
  <2>4. IsFiniteSet(net'.links)
    BY <2>1, <2>3, FS_Subset DEF IsNet
  <2>5. IsNet(net')
    BY <2>1, <2>2, <2>3, <2>4 DEF IsNet
  <2>6. edits' \in 0..MaxEdits
    BY <1>0, <1>1, BoundAssumption DEF Kept
  <2> QED BY <1>0, <1>1, <2>2, <2>3, <2>5, <2>6 DEF Kept
<1> QED BY <1>3, <1>4, <1>5, PartsOfLifeInvThen

(* What goes when nothing that stays refers to it leaves the rest whole.   *)
LEMMA Unreferenced ==
  ASSUME LifeInv, Safe, NEW ys, ys \subseteq alive,
         \A y \in ys : parent[y] \in alive => parent[y] \in Below(ys, parent)
  PROVE  /\ Below(ys, parent) \subseteq alive
         /\ \A z \in Systems : parent[z] \in alive \ Below(ys, parent)
                                 => z \in alive \ Below(ys, parent)
<1>1. Family(parent) /\ \A z \in Systems : parent[z] \in alive => z \in alive
  BY Counts DEF Safe
<1>2. Below(ys, parent) \subseteq alive
  BY <1>1, BelowAlive
<1>3. \A z \in Systems : z \in Below(ys, parent) <=>
        z \in ys \/ (parent[z] # 0 /\ parent[z] \in Below(ys, parent))
  BY <1>1, BelowIs
<1> QED BY <1>1, <1>2, <1>3

LEMMA ResetLife == LifeInv /\ Reset => LifeInv'
<1> SUFFICES ASSUME LifeInv, Reset PROVE Kept' /\ Heaped' /\ (~exposed' => Reached')
  BY PartsOfLifeInvThen
<1>0. Kept /\ Heaped /\ (~exposed => Reached) /\ present \in SUBSET Modules
      /\ Family(parent) /\ alive \subseteq 1..created /\ 1..created \subseteq Systems
  BY PartsOfLifeInv, Counts
<1>1. /\ alive' = alive \ Below(RootsHeld, parent)
      /\ undefined' = ~(/\ Held(inPort, outPort) \subseteq alive
                        /\ Deletable(RootsHeld, parent, alive))
      /\ inPort' = [m \in Modules |-> IF m \in present THEN NoPorts ELSE inPort[m]]
      /\ outPort' = [m \in Modules |-> IF m \in present THEN NoPorts ELSE outPort[m]]
      /\ running' = FALSE /\ ready' = {}
      /\ UNCHANGED <<net, present, created, parent, armed, exposed, fresh, spoiled, runs, edits>>
  BY DEF Reset
<1>2. ASSUME NEW port, IsPort(port), NEW P \in SUBSET Modules, NEW Y, Holds(port, P, Y)
      PROVE  LET new == [m \in Modules |-> IF m \in present THEN NoPorts ELSE port[m]]
             IN IsPort(new) /\ Holds(new, P, Y)
  <2> DEFINE new == [m \in Modules |-> IF m \in present THEN NoPorts ELSE port[m]]
  <2>1. \A m \in Modules : new[m] = IF m \in present THEN NoPorts ELSE port[m]
    OBVIOUS
  <2>2. new = [m \in Modules |-> new[m]]
    OBVIOUS
  <2>3. \A m \in Modules : port[m] = [s \in Streams |-> port[m][s]]
    BY <1>2 DEF IsPort
  <2> HIDE DEF new
  <2>4. \A m \in Modules : new[m] = [s \in Streams |-> new[m][s]]
    BY <2>1, <2>3 DEF NoPorts
  <2>5. IsPort(new)
    BY <2>2, <2>4 DEF IsPort
  <2>6. Holds(new, P, Y)
    BY <1>2, <2>1 DEF Holds, NoPorts
  <2> QED BY <2>5, <2>6 DEF new
<1>3. ASSUME NEW Y
      PROVE  Holds(inPort', present, Y) /\ Holds(outPort', present, Y)
  BY <1>0, <1>1 DEF Holds, NoPorts
<1>4. Kept'
  BY <1>0, <1>1 DEF Kept
<1>5. Heaped'
  <2>1. /\ IsPort(inPort') /\ Holds(inPort', Modules, 1..created)
        /\ IsPort(outPort') /\ Holds(outPort', Modules, 1..created)
    BY <1>0, <1>1, <1>2 DEF Heaped
  <2>2. alive' \subseteq 1..created
    BY <1>0, <1>1
  <2>3. undefined' \in BOOLEAN
    BY <1>1
  <2> QED BY <1>0, <1>1, <2>1, <2>2, <2>3 DEF Heaped, IsPort, Holds
<1>6. ASSUME ~exposed' PROVE Reached'
  <2>1. Safe
    BY <1>1, <1>6 DEF LifeInv
  <2>2. Held(inPort, outPort) \subseteq alive
    BY <2>1, HeldIs DEF Safe
  <2>3. RootsHeld \subseteq alive /\ \A y \in RootsHeld : y \in Systems /\ parent[y] = 0
    BY <1>0, <2>2 DEF RootsHeld
  <2>4. 0 \notin alive
    BY <1>0
  <2>5. /\ Below(RootsHeld, parent) \subseteq alive
        /\ \A z \in Systems : parent[z] \in alive' => z \in alive'
    BY <1>1, <2>1, <2>3, <2>4, Unreferenced
  <2>6. Deletable(RootsHeld, parent, alive)
    <3>1. ASSUME NEW y \in RootsHeld, NEW z \in RootsHeld, y # z PROVE z \notin Below({y}, parent)
      <4>1. z \in Below({y}, parent) <=> z \in {y} \/ (parent[z] # 0 /\ parent[z] \in Below({y}, parent))
        BY <1>0, <2>3, BelowIs
      <4> QED BY <2>3, <3>1, <4>1
    <3> QED BY <2>5, <3>1 DEF Deletable
  <2>7. ~ undefined'
    BY <1>1, <2>2, <2>6
  <2> QED BY <1>1, <1>3, <2>5, <2>7 DEF Reached, Holds
<1> QED BY <1>4, <1>5, <1>6

LEMMA RemoveModuleLife ==
  ASSUME LifeInv, NEW m \in Modules, RemoveModule(m)
  PROVE  LifeInv'
<1> DEFINE ys == EndsIn(m)
           in == Removed(inPort, m)
           out == Removed(outPort, m)
<1>0. Kept /\ Heaped /\ (~exposed => Reached) /\ present \in SUBSET Modules
      /\ Family(parent) /\ alive \subseteq 1..created /\ 1..created \subseteq Systems
  BY PartsOfLifeInv, Counts
<1>1. /\ ~running /\ m \in present /\ edits < MaxEdits /\ edits' = edits + 1
      /\ present' = present \ {m}
      /\ net' = [net EXCEPT !.links = net.links \ LinksOf(m)]
      /\ inPort' = in /\ outPort' = out
      /\ alive' = alive \ Below(ys, parent)
      /\ undefined' = (Twice(m) \/ ~Deletable(ys, parent, alive))
      /\ exposed' = (\/ exposed \/ Twice(m) \/ Members(m) # {}
                     \/ Exposes(ys, Held(in, out), parent, alive))
      /\ UNCHANGED <<created, parent>>
      /\ UNCHANGED <<armed, running, ready, fresh, spoiled, runs>>
  BY DEF RemoveModule, control
<1>2. IsPort(inPort) /\ IsPort(outPort)
  BY <1>0 DEF Heaped
<1>3. Heaped'
  <2>1. /\ IsPort(inPort') /\ Holds(inPort', Modules, 1..created)
        /\ IsPort(outPort') /\ Holds(outPort', Modules, 1..created)
    BY <1>0, <1>1, <1>2, RemovedIs, RemovedHolds DEF Heaped
  <2>2. alive' \subseteq 1..created
    BY <1>0, <1>1
  <2>3. undefined' \in BOOLEAN
    <3> HIDE DEF ys
    <3> QED BY <1>1
  <2> QED BY <1>0, <1>1, <2>1, <2>2, <2>3 DEF Heaped, IsPort, Holds
<1>4. ASSUME ~exposed' PROVE Reached' /\ Members(m) = {} /\ ~exposed
  <2>1. ~exposed /\ ~Twice(m) /\ Members(m) = {} /\ ~Exposes(ys, Held(in, out), parent, alive)
    <3> HIDE DEF ys, in, out
    <3> QED BY <1>1, <1>4
  <2>2. Safe
    BY <2>1 DEF LifeInv
  <2>3. ys \subseteq alive
    <3>1. On(inPort, m) \subseteq alive
      BY <1>1, <2>2 DEF Safe, Holds, On
    <3> QED BY <3>1 DEF EndsIn
  <2> HIDE DEF ys, in, out
  <2>4. /\ Below(ys, parent) \cap Held(in, out) = {}
        /\ \A y \in ys : parent[y] \in alive => parent[y] \in Below(ys, parent)
        /\ \A y, z \in ys : y # z => z \notin Below({y}, parent)
    BY <2>1 DEF Exposes
  <2>5. /\ Below(ys, parent) \subseteq alive
        /\ \A z \in Systems : parent[z] \in alive' => z \in alive'
    BY <1>1, <2>2, <2>3, <2>4, Unreferenced
  <2>6. ~ undefined'
    BY <1>1, <2>1, <2>4, <2>5 DEF Deletable
  <2>7. Held(in, out) \subseteq alive'
    <3>1. Holds(in, present, alive) /\ Holds(out, present, alive)
      BY <1>0, <1>2, <2>2, RemovedHolds DEF Safe, in, out
    <3>2. Held(in, out) \subseteq alive
      BY <3>1, HeldIs
    <3> QED BY <1>1, <2>4, <3>2
  <2>8. Holds(in, present, alive') /\ Holds(out, present, alive')
    BY <2>7, HeldIs
  <2>9. Holds(in, present', alive') /\ Holds(out, present', alive')
    BY <1>1, <2>8, HoldsFewer
  <2> QED BY <1>1, <2>1, <2>5, <2>6, <2>9 DEF Reached, Holds
<1>5. Kept'
  <2>1. IsNet(net)
    BY <1>0 DEF Kept
  <2>2. /\ net'.groups = net.groups /\ net'.owner = net.owner /\ net'.views = net.views
        /\ net'.successorMode = net.successorMode
    BY <1>1
  <2>3. net'.links = net.links \ LinksOf(m)
    BY <1>1 DEF IsNet
  <2>4. IsFiniteSet(net'.links) /\ net'.links \subseteq net.links
    BY <2>1, <2>3, FS_Subset DEF IsNet
  <2>5. IsNet(net')
    BY <2>1, <2>2, <2>4 DEF IsNet
  <2>6. edits' \in 0..MaxEdits
    BY <1>0, <1>1, BoundAssumption DEF Kept
  <2>7. ready' = {} /\ present' \subseteq Modules
    BY <1>0, <1>1 DEF Kept
  <2>8. \A l \in net'.links : l.dst \in present'
    <3>1. \A l \in net'.links : l \in net.links /\ l.dst # m
      BY <2>3 DEF LinksOf
    <3> QED BY <1>0, <1>1, <3>1 DEF Kept
  <2>9. ~exposed' => \A n \in present' : net'.owner[n] \in present' \cup {Root}
    <3> SUFFICES ASSUME ~exposed', NEW n \in present'
                 PROVE  net.owner[n] \in present' \cup {Root}
      BY <2>2
    <3>1. Members(m) = {} /\ ~exposed
      BY <1>4
    <3>2. n \in present /\ net.owner[n] # m
      BY <1>1, <3>1 DEF Members
    <3>3. net.owner[n] \in present \cup {Root}
      BY <1>0, <3>1, <3>2 DEF Kept
    <3> QED BY <1>1, <3>2, <3>3
  <2>10. armed' \subseteq Modules /\ running' \in BOOLEAN /\ fresh' \in BOOLEAN
         /\ spoiled' \subseteq Systems /\ runs' \in 0..MaxRuns
    BY <1>0, <1>1 DEF Kept
  <2>11. exposed' \in BOOLEAN
    <3> HIDE DEF ys, in, out
    <3>1. exposed \in BOOLEAN
      BY <1>0 DEF Kept
    <3> QED BY <1>1, <3>1
  <2> QED BY <2>5, <2>6, <2>7, <2>8, <2>9, <2>10, <2>11 DEF Kept
<1> QED BY <1>3, <1>4, <1>5, PartsOfLifeInvThen

(* The links over which a group hands on what it was given. *)
EnteredBy(g) == {l \in IntoGroup(g) : inPort[g][l.out] # NULL}
NewFor(g) == IF Cardinality(Ins(g)) > 1 THEN EnteredBy(g) ELSE {}
Unlinked(g) == Ins(g) \ {l.out : l \in EnteredBy(g)}
Gone(g) == {inPort[g][s] : s \in Unlinked(g)} \ {NULL}
Cleared(g) == [m \in Modules |-> IF m \in Members(g) THEN NoPorts ELSE outPort[m]]

LEMMA EnterGroupIs ==
  ASSUME NEW g, EnterGroup(g)
  PROVE  LET ls  == EnteredBy(g)
             new == NewFor(g)
             src == Sources(ls, g, inPort)
             sh  == Shifted(ls, Carried(ls, new, src, created), inPort, Cleared(g))
             in  == Emptied(sh.in, g, Unlinked(g))
         IN /\ running /\ UNCHANGED <<net, present, running, fresh, spoiled, runs, edits>>
            /\ armed' = (armed \ {g}) \cup (Members(g) \cap net.groups)
            /\ Change(new, src, 0, {}, Gone(g))
            /\ inPort' = in /\ outPort' = sh.out
            /\ exposed' = (exposed \/ Exposes(Gone(g), Held(in, sh.out),
                                              Parents(new, src, created), alive))
            /\ Queue(ls, in, ready \ {g})
  BY DEF EnterGroup, EnteredBy, NewFor, Unlinked, Gone, Cleared, Sources, Carried

LEMMA ClearedIs ==
  ASSUME NEW g, IsPort(outPort), NEW P \in SUBSET Modules, NEW Y, Holds(outPort, P, Y)
  PROVE  Holds(Cleared(g), P, Y)
  BY DEF Holds, Cleared, NoPorts

LEMMA EnterGroupLife ==
  ASSUME LifeInv, NEW g \in ready, EnterGroup(g)
  PROVE  LifeInv'
<1> DEFINE ls  == EnteredBy(g)
           new == NewFor(g)
           src == Sources(ls, g, inPort)
           sh  == Shifted(ls, Carried(ls, new, src, created), inPort, Cleared(g))
           in  == Emptied(sh.in, g, Unlinked(g))
           ys  == Gone(g)
           par == Parents(new, src, created)
<1>0. Kept /\ Heaped /\ (~exposed => Reached) /\ present \in SUBSET Modules
      /\ g \in present /\ g \in Modules /\ created \in Nat
      /\ alive \subseteq 1..created /\ 1..created \subseteq Systems
  BY PartsOfLifeInv, Counts
<1>1. /\ running /\ UNCHANGED <<net, present, running, fresh, spoiled, runs, edits>>
      /\ armed' = (armed \ {g}) \cup (Members(g) \cap net.groups)
      /\ Change(new, src, 0, {}, ys)
      /\ inPort' = in /\ outPort' = sh.out
      /\ exposed' = (exposed \/ Exposes(ys, Held(in, sh.out), par, alive))
      /\ Queue(ls, in, ready \ {g})
  BY EnterGroupIs
<1>2. ls \subseteq net.links /\ new \subseteq ls
  BY DEF EnteredBy, IntoGroup, NewFor
<1>3. ASSUME NEW P \in SUBSET Modules, g \in P, NEW Y, Holds(inPort, P, Y)
      PROVE  (\A l \in ls : src[l] \in Y) /\ ys \subseteq Y
  <2>1. ASSUME NEW l \in ls PROVE src[l] \in Y
    <3>1. l.out \in Streams /\ inPort[g][l.out] # NULL /\ src[l] = inPort[g][l.out]
      BY <1>2, LinksAre DEF EnteredBy, Sources
    <3> QED BY <1>3, <3>1 DEF Holds
  <2>2. Ins(g) \subseteq Streams
    BY <1>0 DEF Kept, IsNet, Ins
  <2>3. ys \subseteq Y
    BY <1>3, <2>2 DEF Gone, Unlinked, Holds
  <2> QED BY <2>1, <2>3
<1> HIDE DEF ls, new, src, sh, ys, par
<1>4. Holds(inPort, Modules, 1..created) /\ Holds(outPort, Modules, 1..created)
      /\ IsPort(outPort)
  BY <1>0 DEF Heaped
<1>5. created + 0 = created
  BY <1>0
<1>6. \A l \in new : src[l] \in 1..created
  BY <1>0, <1>2, <1>3, <1>4
<1>7. Called(new, src, 0, 1..(created + 0))
  BY <1>2, <1>5, <1>6 DEF Called
<1>8. /\ created' \in 0..MaxSystems /\ created' \in Nat
      /\ created <= created'
      /\ alive' \subseteq 1..created' /\ undefined' \in BOOLEAN
      /\ parent' = par
      /\ parent' \in [Systems -> 0..MaxSystems] /\ \A y \in Systems : parent'[y] < y
      /\ \A y \in Systems : y > created' => parent'[y] = 0
      /\ Named(new, created) \in [new -> (created + 1)..created']
  <2>1. /\ created' \in 0..MaxSystems /\ created' \in Nat
        /\ created + 0 <= created'
        /\ alive' \subseteq 1..created' /\ undefined' \in BOOLEAN
        /\ parent' = Parents(new, src, created + 0)
        /\ parent' \in [Systems -> 0..MaxSystems] /\ \A y \in Systems : parent'[y] < y
        /\ \A y \in Systems : y > created' => parent'[y] = 0
        /\ Named(new, created + 0) \in [new -> (created + 0 + 1)..created']
    BY <1>1, <1>7, ChangeTyped
  <2> QED BY <1>5, <2>1 DEF par
<1>9. ASSUME NEW P \in SUBSET Modules, g \in P, NEW X, NEW Y, X \subseteq Y,
             Holds(inPort, P, X), Holds(outPort, P, X), (created + 1)..created' \subseteq Y
      PROVE  /\ Holds(sh.in, P, Y) /\ Holds(sh.out, P, Y)
             /\ IsPort(sh.in) /\ IsPort(sh.out)
             /\ Holds(in, P, Y) /\ IsPort(in)
  <2>1. Holds(inPort, P, Y) /\ Holds(outPort, P, Y)
    BY <1>9, HoldsMore
  <2>2. Holds(Cleared(g), P, Y)
    BY <1>4, <2>1, ClearedIs
  <2>3. \A l \in ls : src[l] \in Y
    BY <1>3, <1>9, <2>1
  <2>4. Holds(sh.in, P, Y) /\ Holds(sh.out, P, Y) /\ IsPort(sh.in) /\ IsPort(sh.out)
    BY <1>2, <1>8, <1>9, <2>1, <2>2, <2>3, CarriedHolds DEF sh
  <2>5. Holds(in, P, Y) /\ IsPort(in)
    BY <1>0, <2>4, EmptiedIs, EmptiedHolds
  <2> QED BY <2>4, <2>5
<1> HIDE DEF in
<1>10. Heaped'
  <2> DEFINE X == 1..created
             Y == 1..created'
  <2>1. X \subseteq Y /\ (created + 1)..created' \subseteq Y
    BY <1>0, <1>8
  <2>2. Holds(inPort, Modules, X) /\ Holds(outPort, Modules, X)
    BY <1>4
  <2> HIDE DEF X, Y
  <2>3. IsPort(sh.out) /\ Holds(sh.out, Modules, Y) /\ IsPort(in) /\ Holds(in, Modules, Y)
    BY <1>0, <1>9, <2>1, <2>2
  <2>4. IsPort(inPort') /\ Holds(inPort', Modules, 1..created')
        /\ IsPort(outPort') /\ Holds(outPort', Modules, 1..created')
    BY <1>1, <2>3 DEF Y
  <2> QED BY <1>8, <2>4 DEF Heaped, IsPort, Holds
<1>11. ASSUME ~exposed' PROVE Reached' /\ ~exposed
  <2>1. ~exposed /\ ~Exposes(ys, Held(in, sh.out), par, alive)
    BY <1>1, <1>11
  <2>2. Safe
    BY <2>1 DEF LifeInv
  <2>3. /\ Below(ys, parent') \cap Held(in, sh.out) = {}
        /\ \A y \in ys : parent'[y] \in alive => parent'[y] \in Below(ys, parent')
        /\ \A y, z \in ys : y # z => z \notin Below({y}, parent')
    BY <1>8, <2>1 DEF Exposes
  <2>4. Holds(inPort, present, alive) /\ Holds(outPort, present, alive)
    BY <2>2 DEF Safe
  <2> DEFINE L == alive \cup ((created + 1)..(created + 0))
  <2>5. ys \subseteq alive /\ \A l \in new : src[l] \in alive
    BY <1>0, <1>2, <1>3, <2>4
  <2>6. Called(new, src, 0, L)
    BY <1>2, <2>5 DEF Called
  <2>7. /\ ~ undefined'
        /\ alive' = (alive \cup ((created + 1)..created')) \ Below(ys, parent')
        /\ \A z \in Systems : parent'[z] \in alive' => z \in alive'
    <3>1. {} \subseteq L
      OBVIOUS
    <3> QED BY <1>1, <2>2, <2>3, <2>5, <2>6, <3>1, ChangeSafe
  <2> DEFINE Y == alive \cup ((created + 1)..created')
  <2>8. alive \subseteq Y /\ (created + 1)..created' \subseteq Y
    OBVIOUS
  <2>9. Y \ Below(ys, parent') = alive'
    BY <2>7
  <2> HIDE DEF Y, L
  <2>10. Holds(in, present, Y) /\ Holds(sh.out, present, Y)
    BY <1>0, <1>9, <2>4, <2>8
  <2>11. Held(in, sh.out) \subseteq alive'
    <3>1. Held(in, sh.out) \subseteq Y
      BY <2>10, HeldIs
    <3> QED BY <2>3, <2>9, <3>1
  <2>12. Holds(in, present, alive') /\ Holds(sh.out, present, alive')
    BY <2>11, HeldIs
  <2> QED BY <1>1, <2>1, <2>7, <2>12 DEF Reached, Holds
<1>12. Kept'
  <2>1. ready' \subseteq present
    <3>1. ready \ {g} \subseteq present
      BY <1>0 DEF Kept
    <3> QED BY <1>1, <1>2, <3>1, QueueIs
  <2>2. armed' \subseteq Modules
    BY <1>0, <1>1 DEF Kept, IsNet
  <2>3. exposed' \in BOOLEAN
    BY <1>0, <1>1 DEF Kept
  <2>4. ~exposed' => ~exposed
    BY <1>11
  <2> QED BY <1>0, <1>1, <2>1, <2>2, <2>3, <2>4 DEF Kept
<1> QED BY <1>10, <1>11, <1>12, PartsOfLifeInvThen

LEMMA NextLife == LifeInv /\ [Next]_vars => LifeInv'
<1> SUFFICES ASSUME LifeInv, [Next]_vars PROVE LifeInv'
  OBVIOUS
<1>1. CASE StartRun
  BY <1>1, StartRunLife
<1>2. CASE Reset
  BY <1>2, ResetLife
<1>3. ASSUME NEW m \in Modules, RemoveModule(m) PROVE LifeInv'
  BY <1>3, RemoveModuleLife
<1>4. ASSUME NEW l \in net.links, RemoveLink(l) PROVE LifeInv'
  BY <1>4, RemoveLinkLife
<1>5. ASSUME NEW m \in ready, NEW used \in SUBSET Streams, FinishModule(m, used) PROVE LifeInv'
  BY <1>5, FinishModuleLife
<1>6. ASSUME NEW m \in ready, NEW used \in SUBSET Streams, FailModule(m, used) PROVE LifeInv'
  BY <1>6, FailModuleLife
<1>7. ASSUME NEW g \in ready, EnterGroup(g) PROVE LifeInv'
  BY <1>7, EnterGroupLife
<1>8. ASSUME NEW g \in ready, FinishGroup(g) PROVE LifeInv'
  BY <1>8, FinishGroupLife
<1>9. CASE EndRun
  BY <1>9, EndRunLife
<1>10. CASE UNCHANGED vars
  <2>1. Kept /\ Heaped /\ (~exposed => Reached)
    BY PartsOfLifeInv
  <2>2. UNCHANGED <<net, present, armed, running, ready, fresh, spoiled, runs, edits>>
        /\ UNCHANGED <<inPort, outPort, created, alive, parent, undefined, exposed>>
    BY <1>10 DEF vars, data, control
  <2>3. Kept'
    BY <2>1, <2>2 DEF Kept
  <2>4. Heaped' /\ (~exposed' => Reached')
    BY <2>1, <2>2 DEF Heaped, Reached
  <2> QED BY <2>3, <2>4, PartsOfLifeInvThen
<1> QED BY <1>1, <1>2, <1>3, <1>4, <1>5, <1>6, <1>7, <1>8, <1>9, <1>10 DEF Next, RunStep

-----------------------------------------------------------------------------
(* A run that starts without data *)

LinkedNow == Linked(net) /\ \A l \in net.links : l.src \in present

(* The modules of P are still to finish, the groups of E to be entered.    *)
Due(l, P, E) == IF IsIntoGroup(l) THEN l.src \in E ELSE l.src \in P
Reads(m, P, E) == IF IsGroup(m) THEN m \in E ELSE m \in P

(* Whoever waits is among them; a group that is not among them has been    *)
(* disarmed, and has nothing on an in-port any more once it finished; what *)
(* is linked to one of them, or belongs to one, is one of them.            *)
Awaited(P, E) ==
  /\ ready \subseteq P /\ \A m \in ready : InPortsSet(m, inPort)
  /\ \A g \in present \cap net.groups : g \in armed => g \in E
  /\ \A m \in present : net.owner[m] \in E => m \in P /\ (IsGroup(m) => m \in E)
  /\ \A l \in net.links : Due(l, P, E) =>
       IF IsOutOfGroup(l) THEN l.dst \in P \/ ~InPortsSet(l.dst, inPort)
       ELSE l.dst \in P /\ (IsGroup(l.dst) => l.dst \in E)
(* Data on an in-port came over a link from one that is not among them.    *)
Fed(P, E) ==
  \A m \in present, s \in Streams : inPort[m][s] # NULL =>
    \E l \in net.links : l.dst = m /\ l.in = s /\ ~IsOutOfGroup(l) /\ ~Due(l, P, E)

(* Nobody holds y but m, on its in-port and its out-port s if i and o, and *)
(* groups that were entered, on their in-ports.                            *)
Sole(y, m, s, i, o, in, out, E) ==
  \A n \in present, t \in Streams :
    /\ in[n][t] = y => (i /\ n = m /\ t = s) \/ n \in net.groups \ E
    /\ out[n][t] = y => o /\ n = m /\ t = s
SoleIn(m, s, in, out, E)  == Sole(in[m][s], m, s, TRUE, ~IsGroup(m), in, out, E)
SoleOut(m, s, in, out, E) == Sole(out[m][s], m, s, ~IsGroup(m), TRUE, in, out, E)

(* What is on the ports of those still to run is nobody else's, has no     *)
(* successors, and for a module came in.                                   *)
Unshared(P, E, in, out) ==
  \A m \in P, s \in Streams :
    /\ (Reads(m, P, E) /\ in[m][s] # NULL) => SoleIn(m, s, in, out, E)
    /\ out[m][s] # NULL => SoleOut(m, s, in, out, E)
Childless(y, par, n) == \A z \in 1..n : par[z] # y
Leaves(P, E, in, out, par, n) ==
  \A m \in P, s \in Streams :
    /\ (Reads(m, P, E) /\ in[m][s] # NULL) => Childless(in[m][s], par, n)
    /\ out[m][s] # NULL => Childless(out[m][s], par, n)
Came(P, in, out) ==
  \A m \in P, s \in Streams : ~IsGroup(m) /\ out[m][s] # NULL => out[m][s] = in[m][s]

Untouched(P, E) ==
  /\ Awaited(P, E) /\ Fed(P, E) /\ Came(P, inPort, outPort)
  /\ Unshared(P, E, inPort, outPort) /\ Leaves(P, E, inPort, outPort, parent, created)
FreshInv ==
  (running /\ fresh /\ ~FansOutUnsplit) =>
    /\ spoiled = {}
    /\ \E P \in SUBSET present : \E E \in SUBSET (present \cap net.groups) : Untouched(P, E)

LEMMA LinkedIs ==
  ASSUME LifeInv, LinkedNow
  PROVE  /\ \A l \in net.links :
              /\ l.src \in present /\ l.dst \in present
              /\ l.out \in Streams /\ l.in \in Streams
              /\ IsIntoGroup(l) => IsGroup(l.src) /\ l.out \in Ins(l.src) /\ ~IsOutOfGroup(l)
              /\ ~IsIntoGroup(l) => l.out \in Outs(l.src)
              /\ IsOutOfGroup(l) => IsGroup(l.dst) /\ l.in \in Outs(l.dst)
              /\ ~IsOutOfGroup(l) =>
                   l.in \in Ins(l.dst) /\ (IsIntoGroup(l) \/ net.owner[l.src] = net.owner[l.dst])
         /\ \A k, l \in net.links :
              (k.dst = l.dst /\ k.in = l.in /\ (IsOutOfGroup(k) <=> IsOutOfGroup(l))) => k = l
         /\ \A m \in Modules : Ins(m) \subseteq Streams /\ Outs(m) \subseteq Streams
         /\ \A m \in Modules : IsGroup(m) \/ net.owner[m] # Root => Ins(m) # {}
<1>1. IsNet(net) /\ Linked(net)
  BY Counts DEF LinkedNow
<1>2. ASSUME NEW l \in net.links
      PROVE  /\ l.src \in present /\ l.dst \in present
             /\ l.src \in Modules /\ l.dst \in Modules
             /\ l.out \in Streams /\ l.in \in Streams
  BY LinksAre DEF LinkedNow
<1>3. ASSUME NEW m \in Modules
      PROVE  net.owner[m] \in net.groups \cup {Root} /\ Root \notin Modules
  BY <1>1, BoundAssumption DEF IsNet
<1>4. ASSUME NEW m \in Modules
      PROVE  Ins(m) \subseteq Streams /\ Outs(m) \subseteq Streams
  BY <1>1 DEF IsNet, Ins, Outs
<1>5. ASSUME NEW m \in Modules, IsGroup(m) \/ net.owner[m] # Root
      PROVE  Ins(m) # {}
  BY <1>1, <1>5 DEF Linked, Ins, IsGroup
<1>6. ASSUME NEW k \in net.links, NEW l \in net.links,
             k.dst = l.dst, k.in = l.in, IsOutOfGroup(k) <=> IsOutOfGroup(l)
      PROVE  k = l
  BY <1>1, <1>6 DEF Linked, IsOutOfGroup
<1>7. ASSUME NEW l \in net.links
      PROVE  /\ IsIntoGroup(l) => IsGroup(l.src) /\ l.out \in Ins(l.src) /\ ~IsOutOfGroup(l)
             /\ ~IsIntoGroup(l) => l.out \in Outs(l.src)
             /\ IsOutOfGroup(l) => IsGroup(l.dst) /\ l.in \in Outs(l.dst)
             /\ ~IsOutOfGroup(l) =>
                  l.in \in Ins(l.dst) /\ (IsIntoGroup(l) \/ net.owner[l.src] = net.owner[l.dst])
  <2>1. /\ net.owner[l.src] = net.owner[l.dst] \/ IsIntoGroup(l) \/ IsOutOfGroup(l)
        /\ IsIntoGroup(l) <=> net.owner[l.dst] = l.src
        /\ IsOutOfGroup(l) <=> net.owner[l.src] = l.dst
    BY <1>1 DEF Linked, IsIntoGroup, IsOutOfGroup
  <2>2. PICK v \in net.views[l.src] :
          v[1] = l.out /\ v[2] # (IF net.owner[l.dst] = l.src THEN "write" ELSE "read")
    BY <1>1 DEF Linked
  <2>3. PICK w \in net.views[l.dst] :
          w[1] = l.in /\ w[2] # (IF net.owner[l.src] = l.dst THEN "read" ELSE "write")
    BY <1>1 DEF Linked
  <2>4. IsIntoGroup(l) => IsGroup(l.src) /\ ~IsOutOfGroup(l)
    BY <1>1, <1>2, <1>3, <2>1 DEF Linked, IsGroup
  <2>5. IsOutOfGroup(l) => IsGroup(l.dst)
    BY <1>2, <1>3, <2>1 DEF IsGroup
  <2>6. IF IsIntoGroup(l) THEN l.out \in Ins(l.src) ELSE l.out \in Outs(l.src)
    BY <2>1, <2>2 DEF Ins, Outs
  <2>7. IF IsOutOfGroup(l) THEN l.in \in Outs(l.dst) ELSE l.in \in Ins(l.dst)
    BY <2>1, <2>3 DEF Ins, Outs
  <2> QED BY <2>1, <2>4, <2>5, <2>6, <2>7
<1>8. \A l \in net.links :
        /\ l.src \in present /\ l.dst \in present
        /\ l.out \in Streams /\ l.in \in Streams
        /\ IsIntoGroup(l) => IsGroup(l.src) /\ l.out \in Ins(l.src) /\ ~IsOutOfGroup(l)
        /\ ~IsIntoGroup(l) => l.out \in Outs(l.src)
        /\ IsOutOfGroup(l) => IsGroup(l.dst) /\ l.in \in Outs(l.dst)
        /\ ~IsOutOfGroup(l) =>
             l.in \in Ins(l.dst) /\ (IsIntoGroup(l) \/ net.owner[l.src] = net.owner[l.dst])
  BY <1>2, <1>7
<1>9. \A k, l \in net.links :
        (k.dst = l.dst /\ k.in = l.in /\ (IsOutOfGroup(k) <=> IsOutOfGroup(l))) => k = l
  BY <1>6
<1> QED BY <1>4, <1>5, <1>8, <1>9

(* A module that is ready has nothing due from its links, and its group    *)
(* was entered.                                                            *)
LEMMA ReadyIs ==
  ASSUME LifeInv, LinkedNow, NEW P \in SUBSET present, NEW E \in SUBSET (present \cap net.groups),
         Awaited(P, E), Fed(P, E), NEW m \in ready
  PROVE  /\ \A l \in net.links : l.dst = m /\ ~IsOutOfGroup(l) => ~Due(l, P, E)
         /\ net.owner[m] \notin E
<1>1. m \in present /\ m \in Modules /\ InPortsSet(m, inPort)
  BY Counts DEF Awaited
<1>2. ASSUME NEW s \in Ins(m)
      PROVE  \E k \in net.links : k.dst = m /\ k.in = s /\ ~IsOutOfGroup(k) /\ ~Due(k, P, E)
  <2>1. s \in Streams /\ inPort[m][s] # NULL
    BY <1>1, LinkedIs DEF InPortsSet
  <2> QED BY <1>1, <2>1 DEF Fed
<1>3. ASSUME NEW l \in net.links, l.dst = m, ~IsOutOfGroup(l)
      PROVE  ~Due(l, P, E)
  <2>1. l.in \in Ins(m)
    BY <1>3, LinkedIs
  <2>2. PICK k \in net.links : k.dst = m /\ k.in = l.in /\ ~IsOutOfGroup(k) /\ ~Due(k, P, E)
    BY <1>2, <2>1
  <2>3. k = l
    BY <1>3, <2>2, LinkedIs
  <2> QED BY <2>2, <2>3
<1>4. ASSUME net.owner[m] \in E PROVE FALSE
  <2>1. net.owner[m] # Root
    BY <1>4, Counts, BoundAssumption
  <2>2. PICK s : s \in Ins(m)
    BY <1>1, <2>1, LinkedIs
  <2>3. PICK l \in net.links : l.dst = m /\ ~IsOutOfGroup(l) /\ ~Due(l, P, E)
    BY <1>2, <2>2
  <2>4. l.src \in present /\ (IsIntoGroup(l) \/ net.owner[l.src] = net.owner[m])
    BY <2>3, LinkedIs
  <2>5. CASE IsIntoGroup(l)
    BY <1>4, <2>3, <2>5 DEF Due, IsIntoGroup
  <2>6. CASE ~IsIntoGroup(l)
    BY <1>4, <2>3, <2>4, <2>6 DEF Due, Awaited
  <2> QED BY <2>5, <2>6
<1> QED BY <1>3, <1>4

(* A port after Shifted: what it was, or what a link has brought.          *)
LEMMA ShiftedIs ==
  ASSUME NEW ls, NEW carried, NEW in, NEW out, NEW n \in Modules, NEW t \in Streams
  PROVE  LET sh == Shifted(ls, carried, in, out)
         IN /\ \/ /\ sh.in[n][t] = in[n][t]
                  /\ \A l \in ls : ~(l.dst = n /\ l.in = t /\ ~IsOutOfGroup(l))
               \/ \E l \in ls : /\ l.dst = n /\ l.in = t /\ ~IsOutOfGroup(l)
                                /\ sh.in[n][t] = carried[l]
            /\ \/ /\ sh.out[n][t] = out[n][t]
                  /\ \A l \in ls : ~(/\ l.dst = n /\ l.in = t
                                     /\ IsOutOfGroup(l) \/ (t \in Outs(n) /\ ~IsGroup(n)))
               \/ \E l \in ls : /\ l.dst = n /\ l.in = t
                                /\ IsOutOfGroup(l) \/ (t \in Outs(n) /\ ~IsGroup(n))
                                /\ sh.out[n][t] = carried[l]
<1> DEFINE Into(m, s) == {l \in ls : l.dst = m /\ l.in = s /\ ~IsOutOfGroup(l)}
           Upon(m, s) == {l \in ls : l.dst = m /\ l.in = s /\
                            (IsOutOfGroup(l) \/ (s \in Outs(m) /\ ~IsGroup(m)))}
           Put(port, m, s, from) ==
             IF from = {} THEN port[m][s] ELSE carried[CHOOSE l \in from : TRUE]
           sh == Shifted(ls, carried, in, out)
<1>1. /\ sh.in = [m \in Modules |-> [s \in Streams |-> Put(in, m, s, Into(m, s))]]
      /\ sh.out = [m \in Modules |-> [s \in Streams |-> Put(out, m, s, Upon(m, s))]]
  BY DEF Shifted
<1> HIDE DEF Into, Upon, Put, sh
<1>2. sh.in[n][t] = Put(in, n, t, Into(n, t)) /\ sh.out[n][t] = Put(out, n, t, Upon(n, t))
  BY <1>1
<1>3. ASSUME NEW port, NEW from
      PROVE  \/ from = {} /\ Put(port, n, t, from) = port[n][t]
             \/ \E l \in from : Put(port, n, t, from) = carried[l]
  <2>1. CASE from = {}
    BY <2>1 DEF Put
  <2>2. CASE from # {}
    <3>1. (CHOOSE l \in from : TRUE) \in from
      BY <2>2
    <3> QED BY <2>2, <3>1 DEF Put
  <2> QED BY <2>1, <2>2
<1>4. \/ /\ sh.in[n][t] = in[n][t]
         /\ \A l \in ls : ~(l.dst = n /\ l.in = t /\ ~IsOutOfGroup(l))
      \/ \E l \in ls : l.dst = n /\ l.in = t /\ ~IsOutOfGroup(l) /\ sh.in[n][t] = carried[l]
  <2>1. \/ Into(n, t) = {} /\ sh.in[n][t] = in[n][t]
        \/ \E l \in Into(n, t) : sh.in[n][t] = carried[l]
    BY <1>2, <1>3
  <2> QED BY <2>1 DEF Into
<1>5. \/ /\ sh.out[n][t] = out[n][t]
         /\ \A l \in ls : ~(/\ l.dst = n /\ l.in = t
                            /\ IsOutOfGroup(l) \/ (t \in Outs(n) /\ ~IsGroup(n)))
      \/ \E l \in ls : /\ l.dst = n /\ l.in = t
                       /\ IsOutOfGroup(l) \/ (t \in Outs(n) /\ ~IsGroup(n))
                       /\ sh.out[n][t] = carried[l]
  <2>1. \/ Upon(n, t) = {} /\ sh.out[n][t] = out[n][t]
        \/ \E l \in Upon(n, t) : sh.out[n][t] = carried[l]
    BY <1>2, <1>3
  <2> QED BY <2>1 DEF Upon
<1> QED BY <1>4, <1>5 DEF sh

(* Where data comes from m over the links ls, new Systems over some: what  *)
(* m hands on itself is nobody else's, what the others hold is not m's.    *)
Sound(m, ls, new, port, P, E, in, out, in2, out2, n) ==
  /\ \A l \in ls : port[m][l.out] \in 1..n /\ Childless(port[m][l.out], parent, created)
  /\ \A l \in ls, k \in present, t \in Streams :
       /\ in[k][t] = port[m][l.out] => (k = m /\ t = l.out) \/ k \in net.groups \ E
       /\ out[k][t] = port[m][l.out] => k = m /\ t = l.out
  /\ \A l \in ls \ new :
       /\ in2[m][l.out] = NULL \/ m \in net.groups \ E
       /\ out2[m][l.out] = NULL \/ out[m][l.out] # port[m][l.out]
       /\ \A k \in ls : port[m][k.out] = port[m][l.out] => k = l
  /\ \A k \in P, s \in Streams, l \in ls :
       /\ (Reads(k, P, E) /\ in[k][s] # NULL) => in[k][s] # port[m][l.out]
       /\ out[k][s] # NULL => out[k][s] # port[m][l.out]

Handed(V, ls, in, out, in2, out2) ==
  \A k \in present, t \in Streams :
    /\ \/ in2[k][t] \in {NULL, in[k][t]}
       \/ \E l \in ls : k = l.dst /\ t = l.in /\ ~IsOutOfGroup(l) /\ in2[k][t] = V[l]
    /\ \/ out2[k][t] \in {NULL, out[k][t]}
       \/ \E l \in ls : /\ k = l.dst /\ t = l.in /\ (IsOutOfGroup(l) \/ ~IsGroup(k))
                        /\ out2[k][t] = V[l]

(* The names are beyond n, the Systems without one are not, and differ.    *)
NamesBeyond(new, n) ==
  /\ \A l \in new : Named(new, n)[l] \in Nat /\ Named(new, n)[l] > n
  /\ \A l, k \in new : Named(new, n)[l] = Named(new, n)[k] => l = k
Apart(ls, new, src, n) ==
  /\ \A l \in ls : src[l] \in 1..n
  /\ \A l \in ls \ new, k \in ls : src[k] = src[l] => k = l

Marked(V, ls, new, src, n) ==
  /\ \A l \in new : V[l] \in Nat /\ V[l] > n
  /\ \A l \in ls \ new : V[l] = src[l]
  /\ \A l, k \in ls : V[l] = V[k] => l = k

LEMMA CarriedDiffer ==
  ASSUME NEW ls, NEW new \in SUBSET ls, NEW n \in Nat, NEW src,
         NamesBeyond(new, n), Apart(ls, new, src, n)
  PROVE  Marked(Carried(ls, new, src, n), ls, new, src, n)
<1> USE DEF NamesBeyond, Apart
<1> DEFINE name == Named(new, n)
           V == Carried(ls, new, src, n)
<1>1. \A l \in ls : V[l] = IF l \in new THEN name[l] ELSE src[l]
  BY DEF Carried
<1>2. \A l \in new : name[l] \in Nat /\ name[l] > n
  OBVIOUS
<1>3. \A l \in ls : src[l] \in Nat /\ src[l] <= n
  OBVIOUS
<1> HIDE DEF name, V
<1>4. ASSUME NEW l \in ls, NEW k \in ls, V[l] = V[k] PROVE l = k
  <2>1. CASE l \in new /\ k \in new
    BY <1>1, <1>4, <2>1 DEF name
  <2>2. CASE l \notin new /\ k \notin new
    BY <1>1, <1>4, <2>2
  <2>3. CASE l \in new /\ k \notin new
    BY <1>1, <1>2, <1>3, <1>4, <2>3
  <2>4. CASE l \notin new /\ k \in new
    BY <1>1, <1>2, <1>3, <1>4, <2>4
  <2> QED BY <2>1, <2>2, <2>3, <2>4
<1>5. \A l \in new : V[l] \in Nat /\ V[l] > n
  BY <1>1, <1>2
<1>6. \A l \in ls \ new : V[l] = src[l]
  BY <1>1
<1> QED BY <1>4, <1>5, <1>6 DEF Marked, V

(* The same, for what m hands on from its ports; and the predecessors that *)
(* the new Systems have got.                                               *)
MarkedBy(V, ls, new, m, port, n) ==
  /\ \A l \in new : V[l] \in Nat /\ V[l] > n
  /\ \A l \in ls \ new : V[l] = port[m][l.out]
  /\ \A l, k \in ls : V[l] = V[k] => l = k
Begot(par, new, m, port, top) ==
  /\ 1..top \subseteq Systems
  /\ \A z \in 1..top : par[z] = parent[z] \/ \E l \in new : par[z] = port[m][l.out]

(* What a link has brought is held where the link ends.                    *)
LEMMA BroughtIsSole ==
  ASSUME LifeInv, NEW m \in present, NEW ls \in SUBSET net.links, NEW new \in SUBSET ls,
         NEW port, NEW n \in Nat,
         NEW P \in SUBSET present, NEW E \in SUBSET (present \cap net.groups),
         NEW in, NEW out, NEW in2, NEW out2, NEW V,
         Holds(in, present, 1..n), Holds(out, present, 1..n),
         Sound(m, ls, new, port, P, E, in, out, in2, out2, n),
         Handed(V, ls, in, out, in2, out2),
         MarkedBy(V, ls, new, m, port, n),
         NEW l \in ls
  PROVE  /\ V[l] # NULL
         /\ Sole(V[l], l.dst, l.in, ~IsOutOfGroup(l), IsOutOfGroup(l) \/ ~IsGroup(l.dst),
                 in2, out2, E)
<1> USE DEF MarkedBy
<1>1. NULL \notin Nat /\ \A j \in 1..n : j \in Nat /\ j <= n
  BY BoundAssumption
<1>2. V[l] \in Nat
  BY <1>1 DEF Sound
<1>3. ASSUME NEW k \in present, NEW t \in Streams, in[k][t] = V[l]
      PROVE  /\ l \in ls \ new /\ V[l] = port[m][l.out]
             /\ (k = m /\ t = l.out) \/ k \in net.groups \ E
  <2>1. in[k][t] \in 1..n
    BY <1>1, <1>2, <1>3 DEF Holds
  <2>2. l \in ls \ new
    BY <1>1, <1>3, <2>1
  <2> QED BY <1>3, <2>2 DEF Sound
<1>4. ASSUME NEW k \in present, NEW t \in Streams, out[k][t] = V[l]
      PROVE  /\ l \in ls \ new /\ V[l] = port[m][l.out]
             /\ k = m /\ t = l.out
  <2>1. out[k][t] \in 1..n
    BY <1>1, <1>2, <1>4 DEF Holds
  <2>2. l \in ls \ new
    BY <1>1, <1>4, <2>1
  <2> QED BY <1>4, <2>2 DEF Sound
<1>5. ASSUME NEW k \in present, NEW t \in Streams, in2[k][t] = V[l]
      PROVE  (~IsOutOfGroup(l) /\ k = l.dst /\ t = l.in) \/ k \in net.groups \ E
  <2>1. CASE \E j \in ls : k = j.dst /\ t = j.in /\ ~IsOutOfGroup(j) /\ in2[k][t] = V[j]
    BY <1>5, <2>1
  <2>2. CASE in2[k][t] \in {NULL, in[k][t]}
    <3>1. in[k][t] = V[l] /\ in2[k][t] # NULL
      BY <1>1, <1>2, <1>5, <2>2
    <3>2. l \in ls \ new /\ ((k = m /\ t = l.out) \/ k \in net.groups \ E)
      BY <1>3, <3>1
    <3> QED BY <3>1, <3>2 DEF Sound
  <2> QED BY <2>1, <2>2 DEF Handed
<1>6. ASSUME NEW k \in present, NEW t \in Streams, out2[k][t] = V[l]
      PROVE  (IsOutOfGroup(l) \/ ~IsGroup(l.dst)) /\ k = l.dst /\ t = l.in
  <2>1. CASE \E j \in ls : /\ k = j.dst /\ t = j.in /\ (IsOutOfGroup(j) \/ ~IsGroup(k))
                           /\ out2[k][t] = V[j]
    BY <1>6, <2>1
  <2>2. CASE out2[k][t] \in {NULL, out[k][t]}
    <3>1. out[k][t] = V[l] /\ out2[k][t] # NULL
      BY <1>1, <1>2, <1>6, <2>2
    <3>2. l \in ls \ new /\ V[l] = port[m][l.out] /\ k = m /\ t = l.out
      BY <1>4, <3>1
    <3> QED BY <3>1, <3>2 DEF Sound
  <2> QED BY <2>1, <2>2 DEF Handed
<1> QED BY <1>1, <1>2, <1>5, <1>6 DEF Sole

LEMMA UnsharedAfter ==
  ASSUME LifeInv, NEW m \in present, NEW ls \in SUBSET net.links, NEW new \in SUBSET ls,
         NEW port, NEW n \in Nat,
         NEW P \in SUBSET present, NEW E \in SUBSET (present \cap net.groups),
         NEW in, NEW out, NEW in2, NEW out2, NEW V,
         Holds(in, present, 1..n), Holds(out, present, 1..n),
         Sound(m, ls, new, port, P, E, in, out, in2, out2, n),
         Handed(V, ls, in, out, in2, out2),
         MarkedBy(V, ls, new, m, port, n),
         Unshared(P, E, in, out)
  PROVE  Unshared(P, E, in2, out2)
<1> USE DEF MarkedBy
<1>1. ASSUME NEW l \in ls
      PROVE  /\ V[l] # NULL
             /\ Sole(V[l], l.dst, l.in, ~IsOutOfGroup(l), IsOutOfGroup(l) \/ ~IsGroup(l.dst),
                     in2, out2, E)
  BY BroughtIsSole
<1>2. ASSUME NEW x \in 1..n, \A l \in ls : x # port[m][l.out]
      PROVE  /\ \A l \in ls : V[l] # x
             /\ \A k \in present, t \in Streams : in2[k][t] = x => in[k][t] = x
             /\ \A k \in present, t \in Streams : out2[k][t] = x => out[k][t] = x
  <2>1. x \in Nat /\ x <= n /\ x # NULL
    BY BoundAssumption
  <2>2. \A l \in ls : V[l] # x
    BY <1>2, <2>1
  <2> QED BY <2>1, <2>2 DEF Handed
<1>3. ASSUME NEW k \in P, NEW s \in Streams, Reads(k, P, E), in2[k][s] # NULL
      PROVE  SoleIn(k, s, in2, out2, E)
  <2>1. CASE \E l \in ls : k = l.dst /\ s = l.in /\ ~IsOutOfGroup(l) /\ in2[k][s] = V[l]
    <3>1. PICK l \in ls : k = l.dst /\ s = l.in /\ ~IsOutOfGroup(l) /\ in2[k][s] = V[l]
      BY <2>1
    <3> QED BY <1>1, <3>1 DEF SoleIn, Sole
  <2>2. CASE in2[k][s] = in[k][s]
    <3>1. in[k][s] \in 1..n
      BY <1>3, <2>2 DEF Holds
    <3>2. \A l \in ls : in[k][s] # port[m][l.out]
      BY <1>3, <2>2 DEF Sound
    <3>3. SoleIn(k, s, in, out, E)
      BY <1>3, <2>2 DEF Unshared
    <3> QED BY <1>2, <2>2, <3>1, <3>2, <3>3 DEF SoleIn, Sole
  <2> QED BY <1>3, <2>1, <2>2 DEF Handed
<1>4. ASSUME NEW k \in P, NEW s \in Streams, out2[k][s] # NULL
      PROVE  SoleOut(k, s, in2, out2, E)
  <2>1. CASE \E l \in ls : /\ k = l.dst /\ s = l.in /\ (IsOutOfGroup(l) \/ ~IsGroup(k))
                           /\ out2[k][s] = V[l]
    <3>1. PICK l \in ls : /\ k = l.dst /\ s = l.in /\ (IsOutOfGroup(l) \/ ~IsGroup(k))
                          /\ out2[k][s] = V[l]
      BY <2>1
    <3>2. IsOutOfGroup(l) => IsGroup(l.dst)
      <4>1. net.owner[l.src] \in net.groups \cup {Root} /\ Root \notin Modules /\ l.dst \in Modules
        BY LinksAre, Counts, BoundAssumption DEF IsNet
      <4> QED BY <4>1 DEF IsOutOfGroup, IsGroup
    <3> QED BY <1>1, <3>1, <3>2 DEF SoleOut, Sole
  <2>2. CASE out2[k][s] = out[k][s]
    <3>1. out[k][s] \in 1..n
      BY <1>4, <2>2 DEF Holds
    <3>2. \A l \in ls : out[k][s] # port[m][l.out]
      BY <1>4, <2>2 DEF Sound
    <3>3. SoleOut(k, s, in, out, E)
      BY <1>4, <2>2 DEF Unshared
    <3> QED BY <1>2, <2>2, <3>1, <3>2, <3>3 DEF SoleOut, Sole
  <2> QED BY <1>4, <2>1, <2>2 DEF Handed
<1> QED BY <1>3, <1>4 DEF Unshared

LEMMA LeavesAfter ==
  ASSUME LifeInv, NEW m \in present, NEW ls \in SUBSET net.links, NEW new \in SUBSET ls,
         NEW port, NEW n \in Nat, created <= n,
         NEW P \in SUBSET present, NEW E \in SUBSET (present \cap net.groups),
         NEW in, NEW out, NEW in2, NEW out2, NEW V,
         Holds(in, present, 1..n), Holds(out, present, 1..n),
         Sound(m, ls, new, port, P, E, in, out, in2, out2, n),
         Handed(V, ls, in, out, in2, out2),
         MarkedBy(V, ls, new, m, port, n),
         Leaves(P, E, in, out, parent, created),
         NEW par, NEW top \in Nat, Begot(par, new, m, port, top)
  PROVE  Leaves(P, E, in2, out2, par, top)
<1> USE DEF MarkedBy, Begot
<1>0. created \in Nat /\ \A j \in 1..n : j \in Nat /\ j <= n /\ j # 0
  BY Counts
<1>1. ASSUME NEW x \in Nat, x # 0, Childless(x, parent, created),
             \A l \in new : x # port[m][l.out]
      PROVE  Childless(x, par, top)
  <2> SUFFICES ASSUME NEW z \in 1..top, par[z] = x PROVE FALSE
    BY DEF Childless
  <2>1. parent[z] = x /\ z \in Systems
    BY <1>1
  <2>2. z <= created
    BY <1>0, <1>1, <2>1 DEF LifeInv, Grounded
  <2>3. z \in 1..created
    BY <1>0, <2>2
  <2> QED BY <1>1, <2>1, <2>3 DEF Childless
<1>2. ASSUME NEW l \in ls PROVE Childless(V[l], par, top)
  <2>1. CASE l \in new
    <3>1. V[l] \in Nat /\ V[l] > n
      BY <2>1
    <3>2. \A j \in new : V[l] # port[m][j.out]
      BY <1>0, <3>1 DEF Sound
    <3>3. Childless(V[l], parent, created)
      <4> SUFFICES ASSUME NEW z \in 1..created, parent[z] = V[l] PROVE FALSE
        BY DEF Childless
      <4>1. z \in Systems /\ z \in Nat /\ z <= created /\ parent[z] < z
        BY Counts DEF Family
      <4> QED BY <1>0, <3>1, <4>1
    <3>4. V[l] # 0
      BY <3>1
    <3> QED BY <1>1, <3>1, <3>2, <3>3, <3>4
  <2>2. CASE l \notin new
    <3>1. V[l] = port[m][l.out] /\ V[l] \in 1..n /\ Childless(V[l], parent, created)
      BY <2>2 DEF Sound
    <3>2. \A j \in new : V[l] # port[m][j.out]
      BY <2>2, <3>1 DEF Sound
    <3> QED BY <1>0, <1>1, <3>1, <3>2
  <2> QED BY <2>1, <2>2
<1>3. ASSUME NEW k \in P, NEW s \in Streams, Reads(k, P, E), in2[k][s] # NULL
      PROVE  Childless(in2[k][s], par, top)
  <2>1. CASE \E l \in ls : in2[k][s] = V[l]
    BY <1>2, <2>1
  <2>2. CASE in2[k][s] = in[k][s]
    <3>1. in[k][s] \in 1..n
      BY <1>3, <2>2 DEF Holds
    <3>2. \A l \in new : in[k][s] # port[m][l.out]
      BY <1>3, <2>2 DEF Sound
    <3>3. Childless(in[k][s], parent, created)
      BY <1>3, <2>2 DEF Leaves
    <3> QED BY <1>0, <1>1, <2>2, <3>1, <3>2, <3>3
  <2> QED BY <1>3, <2>1, <2>2 DEF Handed
<1>4. ASSUME NEW k \in P, NEW s \in Streams, out2[k][s] # NULL
      PROVE  Childless(out2[k][s], par, top)
  <2>1. CASE \E l \in ls : out2[k][s] = V[l]
    BY <1>2, <2>1
  <2>2. CASE out2[k][s] = out[k][s]
    <3>1. out[k][s] \in 1..n
      BY <1>4, <2>2 DEF Holds
    <3>2. \A l \in new : out[k][s] # port[m][l.out]
      BY <1>4, <2>2 DEF Sound
    <3>3. Childless(out[k][s], parent, created)
      BY <1>4, <2>2 DEF Leaves
    <3> QED BY <1>0, <1>1, <2>2, <3>1, <3>2, <3>3
  <2> QED BY <1>4, <2>1, <2>2 DEF Handed
<1> QED BY <1>3, <1>4 DEF Leaves

(* With fewer left, still.                                                 *)
LEMMA UnsharedLess ==
  ASSUME NEW P, NEW E, NEW P2 \in SUBSET P, NEW E2 \in SUBSET E, NEW in, NEW out,
         Unshared(P, E, in, out), Leaves(P, E, in, out, parent, created)
  PROVE  Unshared(P2, E2, in, out) /\ Leaves(P2, E2, in, out, parent, created)
<1>1. \A k \in P2 : Reads(k, P2, E2) => Reads(k, P, E)
  BY DEF Reads
<1>2. ASSUME NEW k \in P2, NEW s \in Streams
      PROVE  /\ SoleIn(k, s, in, out, E) => SoleIn(k, s, in, out, E2)
             /\ SoleOut(k, s, in, out, E) => SoleOut(k, s, in, out, E2)
  BY DEF SoleIn, SoleOut, Sole
<1>3. Unshared(P2, E2, in, out)
  BY <1>1, <1>2 DEF Unshared
<1>4. Leaves(P2, E2, in, out, parent, created)
  BY <1>1 DEF Leaves
<1> QED BY <1>3, <1>4

LEMMA ParentsIs ==
  ASSUME NEW new, NEW src, NEW n, NEW z \in Systems
  PROVE  Parents(new, src, n)[z] = parent[z] \/ \E l \in new : Parents(new, src, n)[z] = src[l]
<1> DEFINE as == {l \in new : Named(new, n)[l] = z}
<1>1. Parents(new, src, n)[z] = IF as = {} THEN parent[z] ELSE src[CHOOSE l \in as : TRUE]
  BY DEF Parents
<1>2. CASE as = {}
  BY <1>1, <1>2
<1>3. CASE as # {}
  <2>1. (CHOOSE l \in as : TRUE) \in as
    BY <1>3
  <2> HIDE DEF as
  <2>2. (CHOOSE l \in as : TRUE) \in new
    BY <2>1 DEF as
  <2> QED BY <1>1, <1>3, <2>2
<1> QED BY <1>2, <1>3

(* Only a branch that no other shares its System with takes it along.      *)
LEMMA DerivedIs ==
  ASSUME NEW m, NEW ls, IsFiniteSet(ls), NEW l \in ls, l \notin Derived(m, ls),
         NEW k \in ls, k.out = l.out
  PROVE  k = l
<1> DEFINE S == {j \in ls : j.out = l.out}
<1>1. IsFiniteSet(S) /\ S # {}
  BY FS_Subset
<1>2. Cardinality(S) \in Nat /\ ~(Cardinality(S) > 1)
  BY <1>1, FS_CardinalityType DEF Derived
<1>3. Cardinality(S) = 1
  BY <1>1, <1>2, FS_EmptySet
<1>4. \E x : S = {x}
  BY <1>1, <1>3, FS_Singleton
<1> QED BY <1>4

LEMMA FinishSound ==
  ASSUME LifeInv, LinkedNow, NEW m \in present, NEW out, IsPort(out), NEW n \in Nat,
         NEW P \in SUBSET present, NEW E \in SUBSET (present \cap net.groups), m \in P,
         Holds(out, present, 1..n),
         Unshared(P, E, inPort, out), Leaves(P, E, inPort, out, parent, created),
         NEW sin, NEW sout, IsPort(sin), IsPort(sout)
  PROVE  LET ls == BranchesOf(m, out)
             new == Derived(m, ls)
         IN Sound(m, ls, new, out, P \ {m}, E \ {m}, inPort, out,
                  IF KeepsInPorts(m) THEN sin ELSE Emptied(sin, m, Streams),
                  Emptied(sout, m, {l.out : l \in ls \ new}), n)
<1> DEFINE ls == BranchesOf(m, out)
           new == Derived(m, ls)
           gone == {l.out : l \in ls \ new}
           in2 == IF KeepsInPorts(m) THEN sin ELSE Emptied(sin, m, Streams)
           out2 == Emptied(sout, m, gone)
<1>0. m \in Modules
  BY Counts
<1>1. ASSUME NEW l \in ls
      PROVE  /\ l \in net.links /\ l.out \in Streams /\ l.out \in Outs(m) /\ out[m][l.out] # NULL
             /\ out[m][l.out] \in 1..n /\ Childless(out[m][l.out], parent, created)
             /\ SoleOut(m, l.out, inPort, out, E)
  <2>1. l \in net.links /\ l.src = m /\ ~IsIntoGroup(l) /\ out[m][l.out] # NULL
    BY DEF BranchesOf, Outgoing
  <2>2. l.out \in Streams /\ l.out \in Outs(m)
    BY <2>1, LinkedIs
  <2> QED BY <2>1, <2>2 DEF Holds, Leaves, Unshared
<1>2. IsFiniteSet(ls)
  <2>1. IsFiniteSet(net.links) /\ ls \subseteq net.links
    BY <1>1, Counts DEF IsNet
  <2> QED BY <2>1, FS_Subset
<1>3. ASSUME NEW l \in ls, NEW k \in present, NEW t \in Streams
      PROVE  /\ inPort[k][t] = out[m][l.out] =>
                  (k = m /\ t = l.out) \/ k \in net.groups \ (E \ {m})
             /\ out[k][t] = out[m][l.out] => k = m /\ t = l.out
  BY <1>1 DEF SoleOut, Sole
<1>4. ASSUME NEW l \in ls \ new
      PROVE  /\ in2[m][l.out] = NULL /\ out2[m][l.out] = NULL
             /\ \A k \in ls : out[m][k.out] = out[m][l.out] => k = l
  <2>1. ~KeepsInPorts(m)
    BY <1>1 DEF KeepsInPorts
  <2>2. in2[m][l.out] = NULL
    BY <1>0, <1>1, <2>1, EmptiedIs
  <2>3. l.out \in gone
    OBVIOUS
  <2> HIDE DEF gone, ls, new
  <2>4. out2[m][l.out] = NULL
    BY <1>0, <1>1, <2>3, EmptiedIs
  <2>5. ASSUME NEW k \in ls, out[m][k.out] = out[m][l.out] PROVE k = l
    <3>1. k.out = l.out
      BY <1>1, <1>3, <2>5
    <3> QED BY <1>2, <3>1, DerivedIs DEF new
  <2> QED BY <2>2, <2>4, <2>5
<1>5. ASSUME NEW k \in P \ {m}, NEW s \in Streams, NEW l \in ls
      PROVE  /\ (Reads(k, P \ {m}, E \ {m}) /\ inPort[k][s] # NULL) => inPort[k][s] # out[m][l.out]
             /\ out[k][s] # NULL => out[k][s] # out[m][l.out]
  <2>1. Reads(k, P \ {m}, E \ {m}) => Reads(k, P, E)
    BY DEF Reads
  <2>2. ASSUME Reads(k, P, E), inPort[k][s] # NULL, inPort[k][s] = out[m][l.out] PROVE FALSE
    <3>1. SoleIn(k, s, inPort, out, E)
      BY <2>2 DEF Unshared
    <3> QED BY <1>1, <2>2, <3>1 DEF SoleIn, Sole
  <2>3. ASSUME out[k][s] = out[m][l.out] PROVE FALSE
    BY <1>3, <2>3
  <2> QED BY <2>1, <2>2, <2>3
<1> HIDE DEF ls, new, in2, out2
<1>6. Sound(m, ls, new, out, P \ {m}, E \ {m}, inPort, out, in2, out2, n)
  BY <1>1, <1>3, <1>4, <1>5 DEF Sound
<1> QED BY <1>6 DEF ls, new, gone, in2, out2

LEMMA EmptiedKeeps ==
  ASSUME NEW port, IsPort(port), NEW m \in Modules, NEW which, NEW k \in Modules, NEW t \in Streams
  PROVE  /\ Emptied(port, m, which)[k][t] \in {NULL, port[k][t]}
         /\ k # m => Emptied(port, m, which)[k][t] = port[k][t]
  BY EmptiedIs

LEMMA ShiftedHanded ==
  ASSUME LifeInv, NEW ls, NEW V, NEW in, NEW out, NEW in2, NEW out2,
         LET sh == Shifted(ls, V, in, out)
         IN \A k \in present, t \in Streams :
              in2[k][t] \in {NULL, sh.in[k][t]} /\ out2[k][t] \in {NULL, sh.out[k][t]}
  PROVE  Handed(V, ls, in, out, in2, out2)
<1> DEFINE sh == Shifted(ls, V, in, out)
<1>1. \A k \in present : k \in Modules
  BY Counts
<1>2. ASSUME NEW k \in present, NEW t \in Streams
      PROVE  /\ \/ in2[k][t] \in {NULL, in[k][t]}
                \/ \E l \in ls : k = l.dst /\ t = l.in /\ ~IsOutOfGroup(l) /\ in2[k][t] = V[l]
             /\ \/ out2[k][t] \in {NULL, out[k][t]}
                \/ \E l \in ls : /\ k = l.dst /\ t = l.in /\ (IsOutOfGroup(l) \/ ~IsGroup(k))
                                 /\ out2[k][t] = V[l]
  <2>1. in2[k][t] \in {NULL, sh.in[k][t]} /\ out2[k][t] \in {NULL, sh.out[k][t]}
    OBVIOUS
  <2>2. /\ \/ sh.in[k][t] = in[k][t]
           \/ \E l \in ls : l.dst = k /\ l.in = t /\ ~IsOutOfGroup(l) /\ sh.in[k][t] = V[l]
        /\ \/ sh.out[k][t] = out[k][t]
           \/ \E l \in ls : /\ l.dst = k /\ l.in = t /\ (IsOutOfGroup(l) \/ ~IsGroup(k))
                            /\ sh.out[k][t] = V[l]
    BY <1>1, ShiftedIs
  <2> HIDE DEF sh
  <2> QED BY <2>1, <2>2
<1> QED BY <1>2 DEF Handed

(* The ports of the others, where links that were due have handed on what  *)
(* m had, and m has given up some.                                         *)
GivenUp(m, sh, in2, out2) ==
  \A k \in Modules, t \in Streams :
    /\ in2[k][t] \in {NULL, sh.in[k][t]} /\ out2[k][t] \in {NULL, sh.out[k][t]}
    /\ k # m => in2[k][t] = sh.in[k][t] /\ out2[k][t] = sh.out[k][t]

Follow(P, E, m, ls, sh, in2, out2) ==
  /\ \A k \in present, s \in Streams : in2[k][s] # NULL =>
       \E l \in net.links : l.dst = k /\ l.in = s /\ ~IsOutOfGroup(l) /\ ~Due(l, P, E)
  /\ Came(P \ {m}, in2, out2)
  /\ \A k \in present \ {m} : InPortsSet(k, inPort) => InPortsSet(k, in2)
  /\ \A k \in present :
       ~InPortsSet(k, inPort) /\ (\A l \in ls : ~IsOutOfGroup(l) => l.dst # k) =>
         ~InPortsSet(k, in2) /\ ~InPortsSet(k, sh.in)

LEMMA PortsAfter ==
  ASSUME LifeInv, LinkedNow,
         NEW P \in SUBSET present, NEW E \in SUBSET (present \cap net.groups), Fed(P, E),
         NEW P2 \in SUBSET P, NEW E2 \in SUBSET E, NEW ls \in SUBSET net.links, NEW V,
         \A l \in ls : Due(l, P, E) /\ ~Due(l, P2, E2) /\ V[l] # NULL,
         NEW m \in Modules, NEW out, NEW in2, NEW out2,
         GivenUp(m, Shifted(ls, V, inPort, out), in2, out2),
         Came(P2 \ {m}, inPort, out)
  PROVE  Follow(P2, E2, m, ls, Shifted(ls, V, inPort, out), in2, out2)
<1> DEFINE sh == Shifted(ls, V, inPort, out)
<1>0. present \in SUBSET Modules /\ \A k \in Modules : Ins(k) \subseteq Streams
  BY Counts, LinkedIs
<1>1. ASSUME NEW k \in Modules, NEW t \in Streams
      PROVE  /\ in2[k][t] \in {NULL, sh.in[k][t]} /\ out2[k][t] \in {NULL, sh.out[k][t]}
             /\ k # m => in2[k][t] = sh.in[k][t] /\ out2[k][t] = sh.out[k][t]
  BY DEF GivenUp
<1>2. ASSUME NEW k \in present, NEW t \in Streams
      PROVE  /\ \/ /\ sh.in[k][t] = inPort[k][t]
                   /\ \A l \in ls : ~(l.dst = k /\ l.in = t /\ ~IsOutOfGroup(l))
                \/ \E l \in ls : /\ l.dst = k /\ l.in = t /\ ~IsOutOfGroup(l)
                                 /\ sh.in[k][t] = V[l]
             /\ \/ sh.out[k][t] = out[k][t]
                \/ \E l \in ls : /\ l.dst = k /\ l.in = t
                                 /\ IsOutOfGroup(l) \/ (t \in Outs(k) /\ ~IsGroup(k))
                                 /\ sh.out[k][t] = V[l]
  BY <1>0, ShiftedIs
<1> HIDE DEF sh
<1>3. \A l \in net.links : Due(l, P2, E2) => Due(l, P, E)
  BY DEF Due
<1>4. ASSUME NEW k \in present, ~InPortsSet(k, inPort), \A l \in ls : ~IsOutOfGroup(l) => l.dst # k
      PROVE  ~InPortsSet(k, in2) /\ ~InPortsSet(k, sh.in)
  <2>1. PICK s \in Ins(k) : inPort[k][s] = NULL
    BY <1>4 DEF InPortsSet
  <2>2. s \in Streams /\ k \in Modules
    BY <1>0, <2>1
  <2>3. sh.in[k][s] = NULL
    BY <1>2, <1>4, <2>1, <2>2
  <2>4. in2[k][s] = NULL
    BY <1>1, <2>2, <2>3
  <2> QED BY <2>1, <2>3, <2>4 DEF InPortsSet
<1>5. ASSUME NEW k \in present \ {m}, InPortsSet(k, inPort)
      PROVE  InPortsSet(k, in2)
  <2> SUFFICES ASSUME NEW s \in Ins(k), inPort[k][s] # NULL PROVE in2[k][s] # NULL
    BY <1>5 DEF InPortsSet
  <2>1. s \in Streams /\ k \in Modules
    BY <1>0
  <2>2. sh.in[k][s] # NULL
    BY <1>2, <2>1
  <2> QED BY <1>1, <2>1, <2>2
<1>6. ASSUME NEW k \in present, NEW s \in Streams, in2[k][s] # NULL
      PROVE  \E l \in net.links : l.dst = k /\ l.in = s /\ ~IsOutOfGroup(l) /\ ~Due(l, P2, E2)
  <2>1. sh.in[k][s] # NULL
    BY <1>0, <1>1, <1>6
  <2>2. CASE sh.in[k][s] = inPort[k][s]
    <3>1. PICK l \in net.links : l.dst = k /\ l.in = s /\ ~IsOutOfGroup(l) /\ ~Due(l, P, E)
      BY <2>1, <2>2 DEF Fed
    <3> QED BY <1>3, <3>1
  <2>3. CASE \E l \in ls : l.dst = k /\ l.in = s /\ ~IsOutOfGroup(l) /\ sh.in[k][s] = V[l]
    BY <2>3
  <2> QED BY <1>2, <2>2, <2>3
<1>7. ASSUME NEW k \in P2 \ {m}, NEW s \in Streams, ~IsGroup(k), out2[k][s] # NULL
      PROVE  out2[k][s] = in2[k][s]
  <2>1. k \in present /\ k \in Modules /\ k # m
    BY <1>0
  <2>2. out2[k][s] = sh.out[k][s] /\ in2[k][s] = sh.in[k][s]
    BY <1>1, <2>1
  <2>3. CASE \E l \in ls : /\ l.dst = k /\ l.in = s
                           /\ IsOutOfGroup(l) \/ (s \in Outs(k) /\ ~IsGroup(k))
                           /\ sh.out[k][s] = V[l]
    <3>1. PICK l \in ls : l.dst = k /\ l.in = s /\ sh.out[k][s] = V[l]
      BY <2>3
    <3>2. ~IsOutOfGroup(l)
      BY <1>7, <3>1, LinkedIs
    <3>3. PICK j \in ls : j.dst = k /\ j.in = s /\ ~IsOutOfGroup(j) /\ sh.in[k][s] = V[j]
      BY <1>2, <2>1, <3>1, <3>2
    <3>4. j = l
      BY <3>1, <3>2, <3>3, LinkedIs
    <3> QED BY <2>2, <3>1, <3>3, <3>4
  <2>4. CASE sh.out[k][s] = out[k][s]
    <3>1. inPort[k][s] = out[k][s] /\ inPort[k][s] # NULL
      BY <1>7, <2>2, <2>4 DEF Came
    <3>2. PICK l \in net.links : l.dst = k /\ l.in = s /\ ~IsOutOfGroup(l) /\ ~Due(l, P, E)
      BY <2>1, <3>1 DEF Fed
    <3>3. ASSUME NEW j \in ls, j.dst = k, j.in = s, ~IsOutOfGroup(j) PROVE FALSE
      <4>1. j = l
        BY <3>2, <3>3, LinkedIs
      <4> QED BY <3>2, <4>1
    <3>4. sh.in[k][s] = inPort[k][s]
      BY <1>2, <2>1, <3>3
    <3> QED BY <2>2, <2>4, <3>1, <3>4
  <2> QED BY <1>2, <2>1, <2>3, <2>4
<1>8. Came(P2 \ {m}, in2, out2)
  BY <1>7 DEF Came
<1> QED BY <1>4, <1>5, <1>6, <1>8 DEF Follow, sh

(* shiftModuleOutput of m, when what m leaves on its ports is its own.     *)
LEMMA ShiftUntouched ==
  ASSUME LifeInv, LinkedNow,
         NEW P \in SUBSET present, NEW E \in SUBSET (present \cap net.groups),
         Awaited(P, E), Fed(P, E), NEW m \in ready, IsGroup(m) => m \notin armed,
         NEW out, NEW fromNew \in Nat, NEW used, IsPort(out),
         Holds(out, Modules, 1..(created + fromNew)),
         Unshared(P, E, inPort, out), Leaves(P, E, inPort, out, parent, created),
         Came(P \ {m}, inPort, out),
         ShiftModuleOutput(m, out, fromNew, used), UNCHANGED <<net, present, armed>>
  PROVE  Untouched(P \ {m}, E \ {m})'
<1> DEFINE n   == created + fromNew
           ls  == BranchesOf(m, out)
           new == Derived(m, ls)
           src == Sources(ls, m, out)
           V   == Carried(ls, new, src, n)
           sh  == Shifted(ls, V, inPort, out)
           P2  == P \ {m}
           E2  == E \ {m}
<1>0. m \in present /\ m \in Modules /\ m \in P /\ InPortsSet(m, inPort) /\ created \in Nat
      /\ n \in Nat /\ created <= n /\ present \in SUBSET Modules
      /\ P2 \in SUBSET present /\ E2 \in SUBSET (present \cap net.groups)
      /\ P2 \in SUBSET P /\ E2 \in SUBSET E /\ m \notin P2 /\ m \notin E2
  BY Counts DEF Awaited
<1>1. /\ Change(new, src, fromNew, used, {})
      /\ outPort' = Emptied(sh.out, m, {l.out : l \in ls \ new})
      /\ inPort' = (IF KeepsInPorts(m) THEN sh.in ELSE Emptied(sh.in, m, Streams))
      /\ ready' = (ready \ {m}) \cup {l.dst : l \in {k \in ls : InPortsSet(k.dst, sh.in)}}
  BY DEF ShiftModuleOutput, BranchesOf, Sources, Carried, Queue
<1>2. IsPort(sh.in) /\ IsPort(sh.out)
  BY ShiftedIsPort
<1>3. Unshared(P2, E2, inPort, out) /\ Leaves(P2, E2, inPort, out, parent, created)
  <2> HIDE DEF P2, E2
  <2> QED BY <1>0, UnsharedLess
<1>4. Holds(inPort, present, 1..n) /\ Holds(out, present, 1..n)
  <2>1. Holds(inPort, Modules, 1..created) /\ 1..created \subseteq 1..n
    BY <1>0 DEF LifeInv, Grounded
  <2> DEFINE Y == 1..n
  <2>2. 1..created \subseteq Y /\ Holds(out, Modules, Y)
    BY <2>1
  <2> HIDE DEF Y, n
  <2>3. Holds(inPort, present, Y) /\ Holds(out, present, Y)
    BY <1>0, <2>1, <2>2, HoldsMore, HoldsFewer
  <2> QED BY <2>3 DEF Y
<1>5. Sound(m, ls, new, out, P2, E2, inPort, out, inPort', outPort', n)
  <2> HIDE DEF n, sh
  <2>1. Sound(m, ls, new, out, P \ {m}, E \ {m}, inPort, out,
              IF KeepsInPorts(m) THEN sh.in ELSE Emptied(sh.in, m, Streams),
              Emptied(sh.out, m, {l.out : l \in ls \ new}), n)
    BY <1>0, <1>2, <1>4, FinishSound
  <2> HIDE DEF ls, new
  <2> QED BY <1>1, <2>1
<1>6. ASSUME NEW k \in Modules, NEW t \in Streams
      PROVE  /\ inPort'[k][t] \in {NULL, sh.in[k][t]} /\ outPort'[k][t] \in {NULL, sh.out[k][t]}
             /\ k # m => inPort'[k][t] = sh.in[k][t] /\ outPort'[k][t] = sh.out[k][t]
  <2> HIDE DEF sh, ls, new
  <2> QED BY <1>0, <1>1, <1>2, EmptiedKeeps
<1>7. Handed(V, ls, inPort, out, inPort', outPort')
  <2> HIDE DEF V, ls
  <2> QED BY <1>0, <1>6, ShiftedHanded
<1>8. /\ ls \subseteq net.links /\ new \subseteq ls /\ \A l \in ls : src[l] \in 1..n /\ src[l] = out[m][l.out]
      /\ \A l \in ls : l.src = m /\ ~IsIntoGroup(l)
  <2>1. \A l \in ls : l.src = m /\ ~IsIntoGroup(l)
    BY DEF BranchesOf, Outgoing
  <2>2. \A l \in ls : src[l] = out[m][l.out]
    BY DEF Sources
  <2>3. ls \subseteq net.links /\ new \subseteq ls /\ \A l \in ls : src[l] \in 1..n
    <3> HIDE DEF n
    <3> QED BY <1>0, BranchesAre DEF n
  <2> QED BY <2>1, <2>2, <2>3
<1>9. /\ created' \in Nat /\ 1..created' \subseteq Systems
      /\ Named(new, n) \in [new -> (n + 1)..created']
      /\ \A l, k \in new : Named(new, n)[l] = Named(new, n)[k] => l = k
      /\ parent' = Parents(new, src, n)
  <2> HIDE DEF ls, new, src
  <2>1. Called(new, src, fromNew, 1..n)
    BY <1>8 DEF Called
  <2>2. /\ created' \in 0..MaxSystems
        /\ Named(new, created + fromNew) \in [new -> (created + fromNew + 1)..created']
        /\ parent' = Parents(new, src, created + fromNew)
    BY <1>1, <2>1, ChangeTyped
  <2>3. IsFiniteSet(net.links) /\ new \subseteq net.links
    BY <1>8, Counts DEF IsNet
  <2>4. IsFiniteSet(new)
    BY <2>3, FS_Subset
  <2> HIDE DEF n
  <2>5. \A l, k \in new : Named(new, n)[l] = Named(new, n)[k] => l = k
    BY <1>0, <2>4, NamedIs
  <2>6. created' \in Nat /\ 1..created' \subseteq Systems
    BY <2>2, BoundAssumption DEF Systems
  <2> QED BY <2>2, <2>5, <2>6 DEF n
<1> HIDE DEF n
<1>10. MarkedBy(V, ls, new, m, out, n)
  <2> HIDE DEF ls, new
  <2>1. Apart(ls, new, src, n)
    <3>1. /\ \A l \in ls : src[l] \in 1..n
          /\ \A l \in ls \ new, k \in ls : src[k] = src[l] => k = l
      BY <1>5, <1>8 DEF Sound
    <3> HIDE DEF src
    <3> QED BY <3>1 DEF Apart
  <2>2. new \in SUBSET ls /\ n \in Nat /\ V = Carried(ls, new, src, n)
    BY <1>0, <1>8
  <2>3. \A l, k \in new : Named(new, n)[l] = Named(new, n)[k] => l = k
    BY <1>9
  <2>4. \A l \in new : Named(new, n)[l] \in Nat /\ Named(new, n)[l] > n
    <3>1. \A l \in new : Named(new, n)[l] \in (n + 1)..created'
      BY <1>9
    <3> QED BY <1>0, <3>1
  <2>5. NamesBeyond(new, n)
    BY <2>3, <2>4 DEF NamesBeyond
  <2> HIDE DEF V, src
  <2>6. Marked(V, ls, new, src, n)
    BY <2>1, <2>2, <2>5, CarriedDiffer
  <2> QED BY <1>8, <2>6 DEF Marked, MarkedBy
<1> HIDE DEF ls, new, src, V, sh, P2, E2
<1>11. Unshared(P2, E2, inPort', outPort')
  BY <1>0, <1>3, <1>4, <1>5, <1>7, <1>8, <1>10, UnsharedAfter, SMTT(60)
<1>12. Leaves(P2, E2, inPort', outPort', parent', created')
  <2>1. \A z \in 1..created' : parent'[z] = parent[z] \/ \E l \in new : parent'[z] = out[m][l.out]
    BY <1>8, <1>9, ParentsIs
  <2>2. created' \in Nat /\ Begot(parent', new, m, out, created')
    BY <1>9, <2>1 DEF Begot
  <2> QED BY <1>0, <1>3, <1>4, <1>5, <1>7, <1>8, <1>10, <2>2, LeavesAfter, SMTT(60)
<1>13. ASSUME NEW l \in ls
       PROVE  /\ l.dst # m /\ V[l] # NULL
              /\ IF IsOutOfGroup(l) THEN l.dst \in P \/ ~InPortsSet(l.dst, inPort)
                 ELSE l.dst \in P /\ (IsGroup(l.dst) => l.dst \in E)
  <2>1. Due(l, P, E)
    BY <1>0, <1>8 DEF Due
  <2>2. l.dst # m
    <3>1. CASE ~IsOutOfGroup(l)
      BY <1>8, <2>1, <3>1, ReadyIs
    <3>2. CASE IsOutOfGroup(l)
      <4>1. net.owner[m] = m => FALSE
        BY <1>0 DEF LinkedNow, Linked
      <4> QED BY <1>8, <3>2, <4>1 DEF IsOutOfGroup
    <3> QED BY <3>1, <3>2
  <2>3. V[l] # NULL
    <3>1. V[l] \in Nat
      <4>1. l \notin new => V[l] \in 1..n
        BY <1>10, <1>5 DEF Sound, MarkedBy
      <4> QED BY <1>0, <1>10, <4>1 DEF MarkedBy
    <3> QED BY <3>1, BoundAssumption
  <2> QED BY <1>8, <2>1, <2>2, <2>3 DEF Awaited
<1>14. /\ \A k \in present, s \in Streams : inPort'[k][s] # NULL =>
              \E l \in net.links : l.dst = k /\ l.in = s /\ ~IsOutOfGroup(l) /\ ~Due(l, P2, E2)
       /\ Came(P2, inPort', outPort')
       /\ \A k \in present \ {m} : InPortsSet(k, inPort) => InPortsSet(k, inPort')
       /\ \A k \in present :
            ~InPortsSet(k, inPort) /\ (\A l \in ls : ~IsOutOfGroup(l) => l.dst # k) =>
              ~InPortsSet(k, inPort') /\ ~InPortsSet(k, sh.in)
  <2>1. \A l \in ls : Due(l, P, E) /\ ~Due(l, P2, E2) /\ V[l] # NULL
    BY <1>0, <1>8, <1>13 DEF Due
  <2>2. Came(P2 \ {m}, inPort, out) /\ P2 \ {m} = P2
    BY <1>0 DEF P2
  <2>3. GivenUp(m, Shifted(ls, V, inPort, out), inPort', outPort')
    BY <1>6 DEF GivenUp, sh
  <2>4. Follow(P2, E2, m, ls, Shifted(ls, V, inPort, out), inPort', outPort')
    BY <1>0, <1>8, <2>1, <2>2, <2>3, PortsAfter
  <2> QED BY <2>2, <2>4 DEF Follow, sh
<1>15. \A l \in net.links : Due(l, P2, E2) => Due(l, P, E)
  BY <1>0 DEF Due
<1>16. ASSUME NEW k \in present, k \notin P, ~InPortsSet(k, inPort)
       PROVE  ~InPortsSet(k, inPort') /\ ~InPortsSet(k, sh.in)
  BY <1>13, <1>14, <1>16
<1>18. ASSUME NEW k \in ready'
       PROVE  k \in P2 /\ InPortsSet(k, inPort')
  <2>1. CASE k \in ready \ {m}
    <3>1. k \in P /\ k \in present /\ InPortsSet(k, inPort)
      BY <2>1, Counts DEF Awaited
    <3> QED BY <1>14, <2>1, <3>1 DEF P2
  <2>2. CASE k \notin ready \ {m}
    <3>1. PICK l \in ls : k = l.dst /\ InPortsSet(k, sh.in)
      BY <1>1, <2>2
    <3>2. k \in present /\ k # m
      BY <1>8, <1>13, <3>1, LinkedIs
    <3>3. k \in P
      BY <1>13, <1>16, <3>1, <3>2
    <3>4. \A s \in Ins(k) : inPort'[k][s] = sh.in[k][s]
      BY <1>0, <1>6, <3>2, LinkedIs
    <3> QED BY <3>1, <3>2, <3>3, <3>4 DEF P2, InPortsSet
  <2> QED BY <2>1, <2>2
<1>19. \A g \in present \cap net.groups : g \in armed => g \in E2
  BY DEF Awaited, E2, IsGroup
<1>20. ASSUME NEW k \in present, net.owner[k] \in E2
       PROVE  k \in P2 /\ (IsGroup(k) => k \in E2)
  <2>1. k # m /\ net.owner[k] \in E
    BY <1>20, ReadyIs DEF E2
  <2> QED BY <2>1 DEF Awaited, P2, E2
<1>21. ASSUME NEW l \in net.links, Due(l, P2, E2)
       PROVE  IF IsOutOfGroup(l) THEN l.dst \in P2 \/ ~InPortsSet(l.dst, inPort')
              ELSE l.dst \in P2 /\ (IsGroup(l.dst) => l.dst \in E2)
  <2>1. Due(l, P, E) /\ l.dst \in present
    BY <1>15, <1>21, LinkedIs
  <2>2. CASE ~IsOutOfGroup(l)
    <3>1. l.dst # m
      BY <2>1, <2>2, ReadyIs
    <3> QED BY <2>1, <2>2, <3>1 DEF Awaited, P2, E2
  <2>3. CASE IsOutOfGroup(l) /\ l.dst = m
    <3>1. IsGroup(m) /\ l.in \in Outs(m) /\ Ins(m) # {} /\ Ins(m) \subseteq Streams
      BY <1>0, <2>3, LinkedIs
    <3>2. ~KeepsInPorts(m)
      BY <3>1 DEF KeepsInPorts
    <3>3. \A s \in Streams : inPort'[m][s] = NULL
      BY <1>0, <1>1, <1>2, <3>2, EmptiedIs
    <3> QED BY <2>3, <3>1, <3>3 DEF InPortsSet
  <2>4. CASE IsOutOfGroup(l) /\ l.dst # m
    <3>1. l.dst \in P \/ ~InPortsSet(l.dst, inPort)
      BY <2>1, <2>4 DEF Awaited
    <3> QED BY <1>16, <2>1, <2>4, <3>1 DEF P2
  <2> QED BY <2>2, <2>3, <2>4
<1>24. Awaited(P2, E2)'
  BY <1>18, <1>19, <1>20, <1>21 DEF Awaited, Due, IsIntoGroup, IsOutOfGroup, IsGroup, InPortsSet, Ins
<1>25. Fed(P2, E2)'
  BY <1>14 DEF Fed, Due, IsIntoGroup, IsOutOfGroup
<1>26. Came(P2, inPort, outPort)'
  BY <1>14 DEF Came, IsGroup
<1>27. Unshared(P2, E2, inPort, outPort)'
  BY <1>11 DEF Unshared, Reads, IsGroup, SoleIn, SoleOut, Sole
<1>28. Leaves(P2, E2, inPort, outPort, parent, created)'
  BY <1>12 DEF Leaves, Reads, IsGroup
<1> QED BY <1>24, <1>25, <1>26, <1>27, <1>28 DEF Untouched, P2, E2

(* What getData leaves on the out-ports of m.                              *)
LEMMA AfterGetDataIs ==
  ASSUME LifeInv, NEW m \in Modules, NEW used \in SUBSET Streams,
         NEW k \in Modules, NEW s \in Streams
  PROVE  /\ k # m => AfterGetData(m, used)[k][s] = outPort[k][s]
         /\ \/ /\ s \in Created(m, used)
               /\ AfterGetData(m, used)[m][s] = Named(Created(m, used), created)[s]
            \/ AfterGetData(m, used)[m][s] \in {inPort[m][s], outPort[m][s]}
<1> DEFINE made == Created(m, used)
           name == Named(made, created)
           row == [t \in Streams |->
                     IF t \in made THEN name[t]
                     ELSE IF t \in used \cap Outs(m) /\ inPort[m][t] # NULL THEN inPort[m][t]
                     ELSE outPort[m][t]]
           new == [outPort EXCEPT ![m] = row]
<1>1. AfterGetData(m, used) = new
  BY DEF AfterGetData
<1>2. IsPort(outPort)
  BY DEF LifeInv, Grounded
<1> HIDE DEF made, name
<1>3. new[k] = IF k = m THEN row ELSE outPort[k]
  BY <1>2 DEF IsPort
<1>4. new[m] = row
  BY <1>2 DEF IsPort
<1>5. \/ s \in made /\ row[s] = name[s]
      \/ row[s] \in {inPort[m][s], outPort[m][s]}
  OBVIOUS
<1> HIDE DEF row, new
<1> QED BY <1>1, <1>3, <1>4, <1>5 DEF name, made

LEMMA GetDataUntouched ==
  ASSUME LifeInv, NEW P \in SUBSET present, NEW E \in SUBSET (present \cap net.groups),
         Untouched(P, E), NEW m \in P, ~IsGroup(m), NEW used \in SUBSET Streams
  PROVE  LET out == AfterGetData(m, used)
         IN /\ Unshared(P, E, inPort, out) /\ Leaves(P, E, inPort, out, parent, created)
            /\ Came(P \ {m}, inPort, out)
            /\ \A y \in Found(m, used) : Sucessors(y) = {}
<1> DEFINE out == AfterGetData(m, used)
           made == Created(m, used)
           name == Named(made, created)
<1>0. /\ m \in Modules /\ m \in present /\ present \in SUBSET Modules /\ created \in Nat
      /\ NULL \notin Nat
      /\ Unshared(P, E, inPort, outPort) /\ Leaves(P, E, inPort, outPort, parent, created)
      /\ Came(P, inPort, outPort)
  BY Counts, BoundAssumption DEF Untouched
<1>1. /\ \A s \in made : name[s] \in Nat /\ name[s] > created
      /\ \A s, t \in made : name[s] = name[t] => s = t
  <2>1. made \subseteq Streams
    BY DEF Created
  <2>2. IsFiniteSet(made)
    BY <2>1, FiniteAssumption, FS_Subset
  <2> HIDE DEF made
  <2>3. /\ name \in [made -> (created + 1)..(created + Cardinality(made))]
        /\ \A s, t \in made : name[s] = name[t] => s = t
        /\ Cardinality(made) \in Nat
    BY <1>0, <2>2, NamedIs
  <2> HIDE DEF name
  <2>4. \A s \in made : name[s] \in (created + 1)..(created + Cardinality(made))
    BY <2>3
  <2> QED BY <1>0, <2>3, <2>4
<1>2. ASSUME NEW k \in present, NEW t \in Streams
      PROVE  /\ inPort[k][t] # NULL => inPort[k][t] \in Nat /\ inPort[k][t] <= created
             /\ outPort[k][t] # NULL => outPort[k][t] \in Nat /\ outPort[k][t] <= created
  <2>1. inPort[k][t] \in 1..created \cup {NULL} /\ outPort[k][t] \in 1..created \cup {NULL}
    BY <1>0 DEF LifeInv, Grounded, Holds
  <2> QED BY <1>0, <2>1
<1>3. ASSUME NEW k \in present, NEW s \in Streams, k # m
      PROVE  out[k][s] = outPort[k][s]
  BY <1>0, <1>3, AfterGetDataIs
<1>4. ASSUME NEW s \in Streams
      PROVE  (s \in made /\ out[m][s] = name[s]) \/ out[m][s] \in {NULL, inPort[m][s]}
  <2>1. outPort[m][s] \in {NULL, inPort[m][s]}
    BY <1>0 DEF Came
  <2>2. (s \in made /\ out[m][s] = name[s]) \/ out[m][s] \in {inPort[m][s], outPort[m][s]}
    BY <1>0, AfterGetDataIs
  <2> QED BY <2>1, <2>2
<1> HIDE DEF out, name, made
<1>5. ASSUME NEW k \in P, NEW s \in Streams, Reads(k, P, E), inPort[k][s] # NULL
      PROVE  SoleIn(k, s, inPort, out, E)
  <2>1. SoleIn(k, s, inPort, outPort, E) /\ k \in present
    BY <1>0, <1>5 DEF Unshared
  <2>2. ASSUME NEW n \in present, NEW t \in Streams, out[n][t] = inPort[k][s]
        PROVE  ~IsGroup(k) /\ n = k /\ t = s
    <3>1. CASE n # m
      BY <1>3, <2>1, <2>2, <3>1 DEF SoleIn, Sole
    <3>2. CASE n = m
      <4>1. inPort[m][t] = inPort[k][s]
        BY <1>0, <1>1, <1>2, <1>4, <1>5, <2>1, <2>2, <3>2
      <4>2. m = k /\ t = s
        BY <1>0, <2>1, <4>1 DEF SoleIn, Sole, IsGroup
      <4> QED BY <3>2, <4>2
    <3> QED BY <3>1, <3>2
  <2> QED BY <2>1, <2>2 DEF SoleIn, Sole
<1>6. ASSUME NEW k \in P, NEW s \in Streams, k # m, out[k][s] # NULL
      PROVE  SoleOut(k, s, inPort, out, E) /\ Childless(out[k][s], parent, created)
  <2>1. out[k][s] = outPort[k][s] /\ k \in present
    BY <1>3, <1>6
  <2>2. SoleOut(k, s, inPort, outPort, E) /\ Childless(outPort[k][s], parent, created)
    BY <1>0, <1>6, <2>1 DEF Unshared, Leaves
  <2>3. ASSUME NEW n \in present, NEW t \in Streams, out[n][t] = outPort[k][s]
        PROVE  n = k /\ t = s
    <3>1. CASE n # m
      BY <1>3, <2>2, <2>3, <3>1 DEF SoleOut, Sole
    <3>2. CASE n = m
      <4>1. inPort[m][t] = outPort[k][s]
        BY <1>0, <1>1, <1>2, <1>4, <1>6, <2>1, <2>3, <3>2
      <4> QED BY <1>0, <1>6, <2>2, <4>1 DEF SoleOut, Sole, IsGroup
    <3> QED BY <3>1, <3>2
  <2> QED BY <2>1, <2>2, <2>3 DEF SoleOut, Sole
<1>7. ASSUME NEW s \in Streams, out[m][s] # NULL
      PROVE  SoleOut(m, s, inPort, out, E) /\ Childless(out[m][s], parent, created)
  <2>1. CASE s \in made /\ out[m][s] = name[s]
    <3>1. name[s] \in Nat /\ name[s] > created
      BY <1>1, <2>1
    <3>2. \A n \in present, t \in Streams : inPort[n][t] # name[s]
      BY <1>0, <1>2, <3>1
    <3>3. ASSUME NEW n \in present, NEW t \in Streams, out[n][t] = name[s]
          PROVE  n = m /\ t = s
      <4>1. n = m
        BY <1>0, <1>2, <1>3, <3>1, <3>3
      <4>2. t \in made /\ out[m][t] = name[t]
        BY <1>0, <1>4, <3>1, <3>2, <3>3, <4>1
      <4> QED BY <1>1, <2>1, <3>3, <4>1, <4>2
    <3>4. Childless(name[s], parent, created)
      <4> SUFFICES ASSUME NEW z \in 1..created, parent[z] = name[s] PROVE FALSE
        BY DEF Childless
      <4>1. z \in Systems /\ z \in Nat /\ z <= created /\ parent[z] < z
        BY Counts DEF Family
      <4> QED BY <1>0, <3>1, <4>1
    <3> QED BY <2>1, <3>2, <3>3, <3>4 DEF SoleOut, Sole
  <2>2. CASE out[m][s] = inPort[m][s]
    <3>1. Reads(m, P, E)
      BY DEF Reads
    <3>2. SoleIn(m, s, inPort, out, E)
      BY <1>5, <1>7, <2>2, <3>1
    <3>3. Childless(inPort[m][s], parent, created)
      BY <1>0, <1>7, <2>2, <3>1 DEF Leaves
    <3> QED BY <2>2, <3>2, <3>3 DEF SoleIn, SoleOut, Sole
  <2> QED BY <1>4, <1>7, <2>1, <2>2
<1>8. Unshared(P, E, inPort, out)
  BY <1>5, <1>6, <1>7 DEF Unshared
<1>9. Leaves(P, E, inPort, out, parent, created)
  BY <1>0, <1>6, <1>7 DEF Leaves
<1>10. Came(P \ {m}, inPort, out)
  <2> SUFFICES ASSUME NEW k \in P \ {m}, NEW s \in Streams, ~IsGroup(k), out[k][s] # NULL
               PROVE  out[k][s] = inPort[k][s]
    BY DEF Came
  <2>1. out[k][s] = outPort[k][s]
    BY <1>3
  <2> QED BY <1>0, <2>1 DEF Came
<1>11. ASSUME NEW y \in Found(m, used) PROVE Sucessors(y) = {}
  <2>1. PICK s \in used : /\ s \notin Created(m, used)
                          /\ y = IF inPort[m][s] # NULL THEN inPort[m][s] ELSE outPort[m][s]
    BY DEF Found
  <2>2. inPort[m][s] # NULL \/ outPort[m][s] # NULL
    BY <2>1 DEF Created
  <2>3. y = inPort[m][s] /\ inPort[m][s] # NULL
    BY <1>0, <2>1, <2>2 DEF Came
  <2>4. Childless(y, parent, created)
    BY <1>0, <2>3 DEF Leaves, Reads
  <2> QED BY <2>4 DEF Childless, Sucessors
<1> QED BY <1>8, <1>9, <1>10, <1>11 DEF out

LEMMA FinishModuleFresh ==
  ASSUME LifeInv, LinkedNow, FreshInv,
         NEW m \in ready, NEW used \in SUBSET Streams, FinishModule(m, used)
  PROVE  FreshInv'
<1>1. /\ ShiftModuleOutput(m, AfterGetData(m, used), Cardinality(Created(m, used)), Found(m, used))
      /\ UNCHANGED <<net, present, exposed, armed, running, fresh, runs, edits>>
      /\ running /\ ~IsGroup(m)
      /\ spoiled' = spoiled \cup {y \in Found(m, used \cap Outs(m)) : Sucessors(y) # {}}
  BY DEF FinishModule, Uses
<1>2. SUFFICES ASSUME fresh, ~FansOutUnsplit
               PROVE  /\ spoiled' = {}
                      /\ \E P \in SUBSET present : \E E \in SUBSET (present \cap net.groups) :
                           Untouched(P, E)'
  <2>1. FansOutUnsplit' <=> FansOutUnsplit
    BY <1>1 DEF FansOutUnsplit, Ins, IntoGroup, IsIntoGroup
  <2> QED BY <1>1, <2>1 DEF FreshInv
<1>3. PICK P \in SUBSET present, E \in SUBSET (present \cap net.groups) : Untouched(P, E)
  BY <1>1, <1>2 DEF FreshInv
<1>4. m \in P /\ m \in Modules /\ Awaited(P, E) /\ Fed(P, E) /\ Came(P, inPort, outPort) /\ spoiled = {}
  BY <1>1, <1>2, <1>3, Counts DEF Untouched, Awaited, FreshInv
<1>5. spoiled' = {}
  <2>1. \A y \in Found(m, used \cap Outs(m)) : Sucessors(y) = {}
    BY <1>1, <1>3, <1>4, GetDataUntouched
  <2> QED BY <1>1, <1>4, <2>1
<1> DEFINE out == AfterGetData(m, used)
           k == Cardinality(Created(m, used))
<1>6. Unshared(P, E, inPort, out) /\ Leaves(P, E, inPort, out, parent, created)
      /\ Came(P \ {m}, inPort, out)
  BY <1>1, <1>3, <1>4, GetDataUntouched
<1>7. k \in Nat /\ IsPort(out) /\ Holds(out, Modules, 1..(created + k))
  <2>1. k \in Nat /\ created \in Nat
    BY CreatedIs, Counts
  <2> DEFINE Y == 1..(created + k)
  <2>2. 1..created \subseteq Y /\ (created + 1)..(created + k) \subseteq Y
    BY <2>1
  <2>3. Holds(inPort, Modules, 1..created) /\ Holds(outPort, Modules, 1..created)
    BY DEF LifeInv, Grounded
  <2> HIDE DEF Y
  <2>4. Holds(inPort, Modules, Y) /\ Holds(outPort, Modules, Y)
    BY <2>2, <2>3, HoldsMore
  <2>5. IsPort(out) /\ Holds(out, Modules, Y)
    BY <1>4, <2>2, <2>4, AfterGetDataHolds
  <2> QED BY <2>1, <2>5 DEF Y
<1> HIDE DEF out, k
<1>8. Untouched(P \ {m}, E \ {m})'
  <2>1. ShiftModuleOutput(m, out, k, Found(m, used))
    BY <1>1 DEF out, k
  <2> QED BY <1>1, <1>4, <1>6, <1>7, <2>1, ShiftUntouched
<1> QED BY <1>5, <1>8

LEMMA FinishGroupFresh ==
  ASSUME LifeInv, LinkedNow, FreshInv, NEW g \in ready, FinishGroup(g)
  PROVE  FreshInv'
<1>1. /\ ShiftModuleOutput(g, outPort, 0, {})
      /\ UNCHANGED <<net, present, exposed, armed, running, fresh, spoiled, runs, edits>>
      /\ running /\ g \notin armed
  BY DEF FinishGroup
<1>2. SUFFICES ASSUME fresh, ~FansOutUnsplit
               PROVE  /\ spoiled' = {}
                      /\ \E P \in SUBSET present : \E E \in SUBSET (present \cap net.groups) :
                           Untouched(P, E)'
  <2>1. FansOutUnsplit' <=> FansOutUnsplit
    BY <1>1 DEF FansOutUnsplit, Ins, IntoGroup, IsIntoGroup
  <2> QED BY <1>1, <2>1 DEF FreshInv
<1>3. PICK P \in SUBSET present, E \in SUBSET (present \cap net.groups) : Untouched(P, E)
  BY <1>1, <1>2 DEF FreshInv
<1>4. spoiled' = {}
  BY <1>1, <1>2 DEF FreshInv
<1>5. /\ Awaited(P, E) /\ Fed(P, E) /\ Came(P \ {g}, inPort, outPort)
      /\ Unshared(P, E, inPort, outPort) /\ Leaves(P, E, inPort, outPort, parent, created)
  BY <1>3 DEF Untouched, Came
<1>6. IsPort(outPort) /\ Holds(outPort, Modules, 1..(created + 0)) /\ 0 \in Nat
  <2>1. created + 0 = created
    BY Counts
  <2> QED BY <2>1 DEF LifeInv, Grounded
<1>7. Untouched(P \ {g}, E \ {g})'
  BY <1>1, <1>5, <1>6, ShiftUntouched
<1> QED BY <1>4, <1>7

(* At the start nobody holds anything, and all are still to run.           *)
LEMMA StartRunFresh ==
  ASSUME LifeInv, LinkedNow, StartRun
  PROVE  FreshInv'
<1>1. /\ UNCHANGED <<net, present, inPort, outPort, created, parent>>
      /\ ready' = {m \in present : InPortsSet(m, inPort)}
      /\ fresh' = (Held(inPort, outPort) = {}) /\ spoiled' = {}
  BY DEF StartRun, data
<1> DEFINE P == present
           E == present \cap net.groups
<1>2. SUFFICES ASSUME Held(inPort, outPort) = {} PROVE Untouched(P, E)'
  BY <1>1 DEF FreshInv
<1>3. \A m \in present, s \in Streams : inPort[m][s] = NULL /\ outPort[m][s] = NULL
  <2>1. Held(inPort, outPort) \subseteq {}
    BY <1>2
  <2>2. Holds(inPort, present, {}) /\ Holds(outPort, present, {})
    BY ONLY <2>1, HeldIs
  <2> QED BY <2>2 DEF Holds
<1>4. Awaited(P, E)'
  <2>1. \A m \in ready' : InPortsSet(m, inPort)'
    BY <1>1 DEF InPortsSet, Ins
  <2>2. \A l \in net.links : l.dst \in present
    BY LinksAre
  <2> QED BY <1>1, <2>1, <2>2 DEF Awaited, IsGroup
<1>5. Fed(P, E)' /\ Came(P, inPort, outPort)' /\ Unshared(P, E, inPort, outPort)'
      /\ Leaves(P, E, inPort, outPort, parent, created)'
  BY <1>1, <1>3 DEF Fed, Came, Unshared, Leaves
<1> QED BY <1>4, <1>5 DEF Untouched

(* What a group hands to its members when it is entered, and no longer     *)
(* reads itself.                                                           *)
LEMMA EnterSound ==
  ASSUME LifeInv, LinkedNow, ~FansOutUnsplit, NEW g \in present, IsGroup(g),
         NEW P \in SUBSET present, NEW E \in SUBSET (present \cap net.groups), g \in E,
         Unshared(P, E, inPort, outPort), Leaves(P, E, inPort, outPort, parent, created), g \in P,
         NEW in2, NEW out2
  PROVE  Sound(g, EnteredBy(g), NewFor(g), inPort, P, E \ {g}, inPort, Cleared(g), in2, out2, created)
<1> DEFINE ls  == EnteredBy(g)
           new == NewFor(g)
           out == Cleared(g)
<1>0. g \in Modules /\ present \in SUBSET Modules /\ g \in net.groups /\ NULL \notin 1..created
  BY Counts, BoundAssumption DEF IsGroup
<1>1. ASSUME NEW l \in ls
      PROVE  /\ l \in IntoGroup(g) /\ l.out \in Ins(g) /\ l.out \in Streams
             /\ inPort[g][l.out] # NULL /\ inPort[g][l.out] \in 1..created
             /\ Childless(inPort[g][l.out], parent, created)
             /\ SoleIn(g, l.out, inPort, outPort, E)
  <2>1. l \in net.links /\ l.src = g /\ IsIntoGroup(l) /\ inPort[g][l.out] # NULL
    BY DEF EnteredBy, IntoGroup
  <2>2. l.out \in Ins(g) /\ l.out \in Streams
    BY <2>1, LinkedIs
  <2>3. inPort[g][l.out] \in 1..created
    BY <1>0, <2>1, <2>2 DEF LifeInv, Grounded, Holds
  <2>4. Reads(g, P, E)
    BY DEF Reads
  <2> QED BY <2>1, <2>2, <2>3, <2>4 DEF EnteredBy, Leaves, Unshared
<1>2. ASSUME NEW k \in present, NEW t \in Streams
      PROVE  out[k][t] \in {NULL, outPort[k][t]}
  BY <1>0 DEF Cleared, NoPorts
<1>3. ASSUME NEW l \in ls, NEW k \in present, NEW t \in Streams
      PROVE  /\ inPort[k][t] = inPort[g][l.out] => (k = g /\ t = l.out) \/ k \in net.groups \ E
             /\ out[k][t] # inPort[g][l.out]
  <2> HIDE DEF ls, out
  <2>1. SoleIn(g, l.out, inPort, outPort, E) /\ inPort[g][l.out] # NULL
    BY <1>1
  <2> QED BY <1>2, <2>1 DEF SoleIn, Sole
<1>4. ASSUME NEW l \in ls \ new, NEW k \in ls PROVE k = l
  <2>1. ~(Cardinality(Ins(g)) > 1)
    BY DEF NewFor
  <2>2. IsFiniteSet(Ins(g)) /\ Ins(g) # {}
    BY <1>0, <1>1, LinkedIs, FiniteAssumption, FS_Subset
  <2>3. Cardinality(Ins(g)) = 1
    <3>1. Cardinality(Ins(g)) \in Nat /\ Cardinality(Ins(g)) # 0
      BY <2>2, FS_CardinalityType, FS_EmptySet
    <3> QED BY <2>1, <3>1
  <2>4. ~(Cardinality(IntoGroup(g)) > 1)
    BY <1>0, <2>3 DEF FansOutUnsplit
  <2>5. IsFiniteSet(IntoGroup(g))
    <3>1. IntoGroup(g) \subseteq net.links /\ IsFiniteSet(net.links)
      BY Counts DEF IntoGroup, IsNet
    <3> QED BY <3>1, FS_Subset
  <2>6. l \in IntoGroup(g) /\ k \in IntoGroup(g)
    BY <1>1
  <2>7. Cardinality(IntoGroup(g)) = 1
    <3>1. Cardinality(IntoGroup(g)) \in Nat /\ Cardinality(IntoGroup(g)) # 0
      BY <2>5, <2>6, FS_CardinalityType, FS_EmptySet
    <3> QED BY <2>4, <3>1
  <2>8. \E x : IntoGroup(g) = {x}
    BY <2>5, <2>7, FS_Singleton
  <2> QED BY <2>6, <2>8
<1>5. ASSUME NEW l \in ls, NEW k \in P, NEW s \in Streams
      PROVE  /\ Reads(k, P, E \ {g}) => inPort[k][s] # inPort[g][l.out]
             /\ out[k][s] # inPort[g][l.out]
  <2> HIDE DEF ls, out
  <2>1. k \in present
    OBVIOUS
  <2> QED BY <1>0, <1>3, <2>1 DEF Reads, IsGroup
<1>6. ASSUME NEW l \in ls \ new
      PROVE  g \in net.groups \ (E \ {g}) /\ l.out \in Streams /\ out[g][l.out] # inPort[g][l.out]
  <2> HIDE DEF ls, new, out
  <2>1. l.out \in Streams
    BY <1>1
  <2> QED BY <1>0, <1>3, <2>1
<1> HIDE DEF ls, new, out
<1>7. Sound(g, ls, new, inPort, P, E \ {g}, inPort, out, in2, out2, created)
  BY <1>1, <1>3, <1>4, <1>5, <1>6 DEF Sound
<1> QED BY <1>7 DEF ls, new, out

LEMMA EnterGroupUntouched ==
  ASSUME LifeInv, LinkedNow, ~FansOutUnsplit,
         NEW P \in SUBSET present, NEW E \in SUBSET (present \cap net.groups), Untouched(P, E),
         NEW g \in ready, EnterGroup(g)
  PROVE  Untouched(P, E \ {g})'
<1> DEFINE ls  == EnteredBy(g)
           new == NewFor(g)
           src == Sources(ls, g, inPort)
           V   == Carried(ls, new, src, created)
           out == Cleared(g)
           sh  == Shifted(ls, V, inPort, out)
           in  == Emptied(sh.in, g, Unlinked(g))
           E2  == E \ {g}
<1>1. /\ UNCHANGED <<net, present>>
      /\ armed' = (armed \ {g}) \cup (Members(g) \cap net.groups)
      /\ Change(new, src, 0, {}, Gone(g))
      /\ inPort' = in /\ outPort' = sh.out
      /\ Queue(ls, in, ready \ {g})
  BY EnterGroupIs
<1>2. IsGroup(g) /\ g \in armed
  BY DEF EnterGroup
<1>0. /\ g \in present /\ g \in Modules /\ g \in P /\ g \in E /\ created \in Nat
      /\ present \in SUBSET Modules /\ P \in SUBSET P
      /\ E2 \in SUBSET (present \cap net.groups) /\ E2 \in SUBSET E
      /\ Awaited(P, E) /\ Fed(P, E) /\ Came(P, inPort, outPort)
      /\ Unshared(P, E, inPort, outPort) /\ Leaves(P, E, inPort, outPort, parent, created)
      /\ net.owner[g] # g
  BY <1>2, Counts DEF Untouched, Awaited, IsGroup, LinkedNow, Linked
<1>3. ASSUME NEW k \in present, NEW t \in Streams
      PROVE  out[k][t] \in {NULL, outPort[k][t]}
  BY <1>0 DEF Cleared, NoPorts
<1>4. Holds(inPort, present, 1..created) /\ Holds(out, present, 1..created)
  <2>1. Holds(inPort, Modules, 1..created) /\ Holds(outPort, Modules, 1..created) /\ IsPort(outPort)
    BY DEF LifeInv, Grounded
  <2>2. Holds(inPort, present, 1..created) /\ Holds(outPort, present, 1..created)
    BY <1>0, <2>1, HoldsFewer
  <2> QED BY <1>0, <2>1, <2>2, ClearedIs
<1>5. Sound(g, ls, new, inPort, P, E2, inPort, out, inPort', outPort', created)
  <2>1. Sound(g, EnteredBy(g), NewFor(g), inPort, P, E \ {g}, inPort, Cleared(g),
              inPort', outPort', created)
    BY <1>0, <1>2, EnterSound
  <2> QED BY <2>1
<1>6. /\ ls \subseteq net.links /\ new \subseteq ls
      /\ \A l \in ls : src[l] \in 1..created /\ src[l] = inPort[g][l.out]
      /\ \A l \in ls : l.src = g /\ IsIntoGroup(l) /\ net.owner[l.dst] = g
  <2>1. ls \subseteq net.links /\ new \subseteq ls
        /\ \A l \in ls : l.src = g /\ IsIntoGroup(l)
    BY DEF EnteredBy, IntoGroup, NewFor
  <2>2. \A l \in ls : src[l] = inPort[g][l.out]
    BY DEF Sources
  <2>3. \A l \in ls : inPort[g][l.out] \in 1..created
    BY <1>5 DEF Sound
  <2> QED BY <2>1, <2>2, <2>3 DEF IsIntoGroup
<1>7. Unshared(P, E2, inPort, out) /\ Leaves(P, E2, inPort, out, parent, created)
  <2>1. Unshared(P, E2, inPort, outPort) /\ Leaves(P, E2, inPort, outPort, parent, created)
    <3> HIDE DEF E2
    <3> QED BY <1>0, UnsharedLess
  <2> HIDE DEF out, E2
  <2>2. \A k \in present, t \in Streams : out[k][t] # NULL => out[k][t] = outPort[k][t]
    BY <1>3
  <2>3. Leaves(P, E2, inPort, out, parent, created)
    BY <2>1, <2>2 DEF Leaves
  <2>4. ASSUME NEW y, y # NULL, NEW m, NEW s, NEW i, NEW o, Sole(y, m, s, i, o, inPort, outPort, E2)
        PROVE  Sole(y, m, s, i, o, inPort, out, E2)
    BY <2>2, <2>4 DEF Sole
  <2>5. Unshared(P, E2, inPort, out)
    <3>1. ASSUME NEW k \in P, NEW s \in Streams, Reads(k, P, E2), inPort[k][s] # NULL
          PROVE  SoleIn(k, s, inPort, out, E2)
      BY <2>1, <2>4, <3>1 DEF Unshared, SoleIn
    <3>2. ASSUME NEW k \in P, NEW s \in Streams, out[k][s] # NULL
          PROVE  SoleOut(k, s, inPort, out, E2)
      <4>1. out[k][s] = outPort[k][s] /\ SoleOut(k, s, inPort, outPort, E2)
        BY <2>1, <2>2, <3>2 DEF Unshared
      <4> QED BY <2>4, <3>2, <4>1 DEF SoleOut
    <3> QED BY <3>1, <3>2 DEF Unshared
  <2> QED BY <2>3, <2>5
<1>8. GivenUp(g, sh, inPort', outPort')
  <2>1. IsPort(sh.in) /\ IsPort(sh.out)
    BY ShiftedIsPort
  <2> HIDE DEF sh
  <2>2. ASSUME NEW k \in Modules, NEW t \in Streams
        PROVE  /\ inPort'[k][t] \in {NULL, sh.in[k][t]} /\ outPort'[k][t] \in {NULL, sh.out[k][t]}
               /\ k # g => inPort'[k][t] = sh.in[k][t] /\ outPort'[k][t] = sh.out[k][t]
    BY <1>0, <1>1, <2>1, EmptiedKeeps
  <2> QED BY <2>2 DEF GivenUp
<1>9. Handed(V, ls, inPort, out, inPort', outPort')
  <2>1. \A k \in present, t \in Streams :
          inPort'[k][t] \in {NULL, sh.in[k][t]} /\ outPort'[k][t] \in {NULL, sh.out[k][t]}
    <3> HIDE DEF sh
    <3> QED BY <1>0, <1>8 DEF GivenUp
  <2> HIDE DEF V, ls, out
  <2> QED BY <2>1, ShiftedHanded
<1>10. /\ created' \in Nat /\ 1..created' \subseteq Systems
       /\ Named(new, created) \in [new -> (created + 1)..created']
       /\ \A l, k \in new : Named(new, created)[l] = Named(new, created)[k] => l = k
       /\ parent' = Parents(new, src, created)
  <2> HIDE DEF ls, new, src
  <2>0. created + 0 = created
    BY <1>0
  <2>1. Called(new, src, 0, 1..(created + 0))
    BY <1>6, <2>0 DEF Called
  <2>2. /\ created' \in 0..MaxSystems
        /\ Named(new, created + 0) \in [new -> (created + 0 + 1)..created']
        /\ parent' = Parents(new, src, created + 0)
    BY <1>1, <2>1, ChangeTyped
  <2>3. IsFiniteSet(net.links) /\ new \subseteq net.links
    BY <1>6, Counts DEF IsNet
  <2>4. IsFiniteSet(new)
    BY <2>3, FS_Subset
  <2>5. \A l, k \in new : Named(new, created)[l] = Named(new, created)[k] => l = k
    BY <1>0, <2>4, NamedIs
  <2>6. created' \in Nat /\ 1..created' \subseteq Systems
    BY <2>2, BoundAssumption DEF Systems
  <2> QED BY <2>0, <2>2, <2>5, <2>6
<1>11. MarkedBy(V, ls, new, g, inPort, created)
  <2> HIDE DEF ls, new
  <2>1. Apart(ls, new, src, created)
    <3>1. /\ \A l \in ls : src[l] \in 1..created
          /\ \A l \in ls \ new, k \in ls : src[k] = src[l] => k = l
      BY <1>5, <1>6 DEF Sound
    <3> HIDE DEF src
    <3> QED BY <3>1 DEF Apart
  <2>2. \A l \in new : Named(new, created)[l] \in Nat /\ Named(new, created)[l] > created
    <3>1. \A l \in new : Named(new, created)[l] \in (created + 1)..created'
      BY <1>10
    <3> QED BY <1>0, <3>1
  <2>3. NamesBeyond(new, created)
    BY <1>10, <2>2 DEF NamesBeyond
  <2>4. new \in SUBSET ls /\ V = Carried(ls, new, src, created)
    BY <1>6
  <2> HIDE DEF V, src
  <2>5. Marked(V, ls, new, src, created)
    BY <1>0, <2>1, <2>3, <2>4, CarriedDiffer
  <2> QED BY <1>6, <2>5 DEF Marked, MarkedBy
<1> HIDE DEF ls, new, src, V, out, sh, in, E2
<1>12. Unshared(P, E2, inPort', outPort')
  BY <1>0, <1>4, <1>5, <1>6, <1>7, <1>9, <1>11, UnsharedAfter, SMTT(60)
<1>13. Leaves(P, E2, inPort', outPort', parent', created')
  <2>1. \A z \in 1..created' : parent'[z] = parent[z] \/ \E l \in new : parent'[z] = inPort[g][l.out]
    BY <1>6, <1>10, ParentsIs
  <2>2. created' \in Nat /\ Begot(parent', new, g, inPort, created') /\ created <= created
    BY <1>0, <1>10, <2>1 DEF Begot
  <2> QED BY <1>0, <1>4, <1>5, <1>6, <1>7, <1>9, <1>11, <2>2, LeavesAfter, SMTT(60)
<1>14. ASSUME NEW l \in ls
       PROVE  /\ l.dst \in P /\ l.dst \in present /\ l.dst # g
              /\ Due(l, P, E) /\ ~Due(l, P, E2) /\ V[l] # NULL
  <2>1. l.dst \in present /\ l.dst # g
    BY <1>0, <1>6, LinkedIs
  <2>2. l.dst \in P
    BY <1>0, <1>6, <2>1 DEF Awaited
  <2>3. V[l] \in Nat
    <3>1. l \notin new => V[l] \in 1..created
      BY <1>11, <1>5 DEF Sound, MarkedBy
    <3> QED BY <1>0, <1>11, <3>1 DEF MarkedBy
  <2> QED BY <1>0, <1>6, <2>1, <2>2, <2>3, BoundAssumption DEF Due, E2
<1>15. /\ \A k \in present, s \in Streams : inPort'[k][s] # NULL =>
              \E l \in net.links : l.dst = k /\ l.in = s /\ ~IsOutOfGroup(l) /\ ~Due(l, P, E2)
       /\ Came(P \ {g}, inPort', outPort')
       /\ \A k \in present \ {g} : InPortsSet(k, inPort) => InPortsSet(k, inPort')
       /\ \A k \in present :
            ~InPortsSet(k, inPort) /\ (\A l \in ls : ~IsOutOfGroup(l) => l.dst # k) =>
              ~InPortsSet(k, inPort') /\ ~InPortsSet(k, sh.in)
  <2>1. Came(P \ {g}, inPort, out)
    <3> SUFFICES ASSUME NEW k \in P \ {g}, NEW s \in Streams, ~IsGroup(k), out[k][s] # NULL
                 PROVE  out[k][s] = inPort[k][s]
      BY DEF Came
    <3>1. out[k][s] = outPort[k][s]
      BY <1>3
    <3> QED BY <1>0, <3>1 DEF Came
  <2>2. GivenUp(g, Shifted(ls, V, inPort, out), inPort', outPort')
    BY <1>8 DEF sh
  <2>3. Follow(P, E2, g, ls, Shifted(ls, V, inPort, out), inPort', outPort')
    BY <1>0, <1>6, <1>14, <2>1, <2>2, PortsAfter
  <2> QED BY <2>3 DEF Follow, sh
<1>16. Came(P, inPort', outPort')
  BY <1>2, <1>15 DEF Came
<1>17. \A l \in net.links : Due(l, P, E2) => Due(l, P, E)
  BY <1>0 DEF Due
<1>18. ASSUME NEW k \in ready'
       PROVE  k \in P /\ InPortsSet(k, inPort')
  <2>1. CASE k \in ready \ {g}
    <3>1. k \in P /\ k \in present /\ InPortsSet(k, inPort)
      BY <1>0, <2>1, Counts DEF Awaited
    <3> QED BY <1>15, <2>1, <3>1
  <2>2. CASE k \notin ready \ {g}
    <3>1. PICK l \in ls : k = l.dst /\ InPortsSet(k, in)
      BY <1>1, <2>2 DEF Queue
    <3>2. k \in P /\ k \in present /\ k # g
      BY <1>14, <3>1
    <3> QED BY <1>1, <3>1, <3>2 DEF InPortsSet
  <2> QED BY <2>1, <2>2
<1>19. ASSUME NEW k \in present \cap net.groups, k \in armed'
       PROVE  k \in E2
  <2>1. CASE k \in armed \ {g}
    BY <1>0, <2>1 DEF Awaited, E2
  <2>2. CASE k \in Members(g)
    <3>1. net.owner[k] = g
      BY <2>2 DEF Members
    <3> QED BY <1>0, <3>1 DEF Awaited, E2, IsGroup
  <2> QED BY <1>1, <1>19, <2>1, <2>2
<1>20. ASSUME NEW k \in present, net.owner[k] \in E2
       PROVE  k \in P /\ (IsGroup(k) => k \in E2)
  <2>1. net.owner[k] \in E /\ k # g
    BY <1>0, <1>20, ReadyIs DEF E2
  <2> QED BY <1>0, <2>1 DEF Awaited, E2
<1>21. ASSUME NEW l \in net.links, Due(l, P, E2)
       PROVE  IF IsOutOfGroup(l) THEN l.dst \in P \/ ~InPortsSet(l.dst, inPort')
              ELSE l.dst \in P /\ (IsGroup(l.dst) => l.dst \in E2)
  <2>1. Due(l, P, E) /\ l.dst \in present
    BY <1>17, <1>21, LinkedIs
  <2>2. CASE ~IsOutOfGroup(l)
    <3>1. l.dst # g
      BY <1>0, <2>1, <2>2, ReadyIs
    <3> QED BY <1>0, <2>1, <2>2, <3>1 DEF Awaited, E2
  <2>3. CASE IsOutOfGroup(l)
    <3>1. l.dst \in P \/ ~InPortsSet(l.dst, inPort)
      BY <1>0, <2>1, <2>3 DEF Awaited
    <3> QED BY <1>14, <1>15, <2>1, <2>3, <3>1
  <2> QED BY <2>2, <2>3
<1>22. Awaited(P, E2)'
  BY <1>1, <1>18, <1>19, <1>20, <1>21
     DEF Awaited, Due, IsIntoGroup, IsOutOfGroup, IsGroup, InPortsSet, Ins
<1>23. Fed(P, E2)'
  BY <1>1, <1>15 DEF Fed, Due, IsIntoGroup, IsOutOfGroup
<1>24. Came(P, inPort, outPort)'
  BY <1>1, <1>16 DEF Came, IsGroup
<1>25. Unshared(P, E2, inPort, outPort)'
  BY <1>1, <1>12 DEF Unshared, Reads, IsGroup, SoleIn, SoleOut, Sole
<1>26. Leaves(P, E2, inPort, outPort, parent, created)'
  BY <1>1, <1>13 DEF Leaves, Reads, IsGroup
<1> QED BY <1>22, <1>23, <1>24, <1>25, <1>26 DEF Untouched, E2

LEMMA EnterGroupFresh ==
  ASSUME LifeInv, LinkedNow, FreshInv, NEW g \in ready, EnterGroup(g)
  PROVE  FreshInv'
<1>1. running /\ UNCHANGED <<net, present, running, fresh, spoiled, runs, edits>>
  BY EnterGroupIs
<1>2. SUFFICES ASSUME fresh, ~FansOutUnsplit
               PROVE  /\ spoiled' = {}
                      /\ \E P \in SUBSET present : \E E \in SUBSET (present \cap net.groups) :
                           Untouched(P, E)'
  <2>1. FansOutUnsplit' <=> FansOutUnsplit
    BY <1>1 DEF FansOutUnsplit, Ins, IntoGroup, IsIntoGroup
  <2> QED BY <1>1, <2>1 DEF FreshInv
<1>3. PICK P \in SUBSET present, E \in SUBSET (present \cap net.groups) : Untouched(P, E)
  BY <1>1, <1>2 DEF FreshInv
<1>4. spoiled' = {}
  BY <1>1, <1>2 DEF FreshInv
<1>5. Untouched(P, E \ {g})'
  BY <1>2, <1>3, EnterGroupUntouched
<1> QED BY <1>4, <1>5

(* Removals keep a network linked: they only take links and modules away,  *)
(* and the links of a module go with it.                                   *)
LEMMA LinkedNext ==
  ASSUME LifeInv, LinkedNow, [Next]_vars
  PROVE  LinkedNow'
<1>1. CASE UNCHANGED <<net, present>>
  BY <1>1 DEF LinkedNow, Linked
<1>2. ASSUME NEW L, net' = [net EXCEPT !.links = net.links \ L]
      PROVE  net'.links = net.links \ L /\ Linked(net')
  <2>1. /\ net'.links = net.links \ L
        /\ net'.owner = net.owner /\ net'.views = net.views /\ net'.groups = net.groups
    BY <1>2
  <2>2. Linked(net) /\ net'.links \subseteq net.links
    BY <2>1 DEF LinkedNow
  <2> QED BY <2>1, <2>2 DEF Linked
<1>3. ASSUME NEW m \in Modules, RemoveModule(m)
      PROVE  LinkedNow'
  <2>1. net' = [net EXCEPT !.links = net.links \ LinksOf(m)] /\ present' = present \ {m}
    BY <1>3 DEF RemoveModule
  <2>2. net'.links = net.links \ LinksOf(m) /\ Linked(net')
    BY <1>2, <2>1
  <2>3. \A l \in net'.links : l.src \in present'
    BY <2>1, <2>2 DEF LinksOf, LinkedNow
  <2> QED BY <2>2, <2>3 DEF LinkedNow
<1>4. ASSUME NEW l \in net.links, RemoveLink(l)
      PROVE  LinkedNow'
  <2>1. net' = [net EXCEPT !.links = net.links \ {l}] /\ present' = present
    BY <1>4 DEF RemoveLink
  <2>2. net'.links = net.links \ {l} /\ Linked(net')
    BY <1>2, <2>1
  <2>3. \A k \in net'.links : k.src \in present'
    BY <2>1, <2>2 DEF LinkedNow
  <2> QED BY <2>2, <2>3 DEF LinkedNow
<1>5. Next => \/ UNCHANGED <<net, present>>
              \/ \E m \in Modules : RemoveModule(m)
              \/ \E l \in net.links : RemoveLink(l)
  BY DEF Next, RunStep, StartRun, Reset, FinishModule, FailModule, EnterGroup, FinishGroup, EndRun
<1> QED BY <1>1, <1>3, <1>4, <1>5 DEF vars

LEMMA FreshNext ==
  ASSUME LifeInv, LinkedNow, FreshInv, [Next]_vars
  PROVE  FreshInv'
<1>1. CASE StartRun
  BY <1>1, StartRunFresh
<1>2. ASSUME NEW m \in ready, NEW used \in SUBSET Streams, FinishModule(m, used)
      PROVE  FreshInv'
  BY <1>2, FinishModuleFresh
<1>3. ASSUME NEW g \in ready, EnterGroup(g)
      PROVE  FreshInv'
  BY <1>3, EnterGroupFresh
<1>4. ASSUME NEW g \in ready, FinishGroup(g)
      PROVE  FreshInv'
  BY <1>4, FinishGroupFresh
<1>5. CASE running' = FALSE
  BY <1>5 DEF FreshInv
<1>6. ASSUME NEW m \in ready, NEW used \in SUBSET Streams, FailModule(m, used)
      PROVE  running' = FALSE
  BY <1>6 DEF FailModule
<1>7. ASSUME NEW m \in Modules, RemoveModule(m)
      PROVE  running' = FALSE
  BY <1>7, Counts DEF RemoveModule, control
<1>8. ASSUME NEW l \in net.links, RemoveLink(l)
      PROVE  running' = FALSE
  BY <1>8, Counts DEF RemoveLink, control
<1>9. EndRun \/ Reset => running' = FALSE
  BY DEF EndRun, Reset
<1>10. CASE UNCHANGED vars
  <2>1. /\ UNCHANGED <<net, present, inPort, outPort, created, parent>>
        /\ UNCHANGED <<armed, running, ready, fresh, spoiled>>
    BY <1>10 DEF vars, data, control
  <2>2. FansOutUnsplit' <=> FansOutUnsplit
    BY <2>1 DEF FansOutUnsplit, Ins, IntoGroup, IsIntoGroup
  <2>3. ASSUME NEW P, NEW E, Untouched(P, E)
        PROVE  Untouched(P, E)'
    <3>1. Awaited(P, E)'
      BY <2>1, <2>3 DEF Untouched, Awaited, Due, IsIntoGroup, IsOutOfGroup, IsGroup, InPortsSet, Ins
    <3>2. Fed(P, E)' /\ Came(P, inPort, outPort)'
      BY <2>1, <2>3 DEF Untouched, Fed, Due, Came, IsIntoGroup, IsOutOfGroup, IsGroup
    <3>3. Unshared(P, E, inPort, outPort)'
      BY <2>1, <2>3 DEF Untouched, Unshared, Reads, IsGroup, SoleIn, SoleOut, Sole
    <3>4. Leaves(P, E, inPort, outPort, parent, created)'
      BY <2>1, <2>3 DEF Untouched, Leaves, Reads, IsGroup
    <3> QED BY <3>1, <3>2, <3>3, <3>4 DEF Untouched
  <2> QED BY <2>1, <2>2, <2>3 DEF FreshInv
<1> QED BY <1>1, <1>2, <1>3, <1>4, <1>5, <1>6, <1>7, <1>8, <1>9, <1>10 DEF Next, RunStep

-----------------------------------------------------------------------------
(* The theorems *)

(* The invariant holds through runs that finish, fail and are canceled,    *)
(* through resets and removals, of every network.                          *)
THEOREM SpecLifeInv == Spec => []LifeInv
<1>1. Init => LifeInv
  BY InitLife
<1>2. LifeInv /\ [Next]_vars => LifeInv'
  BY NextLife
<1> QED BY <1>1, <1>2, PTL DEF Spec

(* The state keeps its type: ports hold Systems that were made, every      *)
(* System is younger than its predecessor, and what waits for its turn is  *)
(* a module that is there.                                                 *)
THEOREM SpecTypeOK == Spec => []TypeOK
<1>1. LifeInv => TypeOK
  BY DEF LifeInv
<1> QED BY <1>1, SpecLifeInv, PTL

(* No order of runs, failures, cancels, resets and removals uses a deleted *)
(* System, deletes one twice or leaves a port or a list of successors      *)
(* pointing to one, unless a removal, or a group without a link inwards,   *)
(* deletes what others still refer to.                                     *)
THEOREM SpecMemorySafe == Spec => []MemorySafe
<1>1. LifeInv => MemorySafe
  <2> SUFFICES ASSUME LifeInv, ~exposed
               PROVE  /\ ~undefined
                      /\ Held(inPort, outPort) \subseteq alive
                      /\ \A y \in alive : Sucessors(y) \subseteq alive
    BY DEF MemorySafe
  <2>1. Safe
    BY DEF LifeInv
  <2>2. Held(inPort, outPort) \subseteq alive
    BY <2>1, HeldIs DEF Safe
  <2>3. \A y \in alive : Sucessors(y) \subseteq alive
    BY <2>1, Counts DEF Safe, Sucessors
  <2> QED BY <2>1, <2>2, <2>3 DEF Safe
<1> QED BY <1>1, SpecLifeInv, PTL

(* Where links are what linking yields: a run that starts without data, in *)
(* whatever order its modules come up, never writes to a System that has   *)
(* been copied for others, unless a group hands one System to several.     *)
THEOREM SpecWritesLeavesOnly ==
  ASSUME \A n \in Nets : Linked(n)
  PROVE  Spec => []WritesLeavesOnly
<1> DEFINE Inv == LifeInv /\ LinkedNow /\ FreshInv
<1>1. Init => Inv
  <2> SUFFICES ASSUME Init PROVE Inv
    OBVIOUS
  <2>1. LifeInv /\ FreshInv
    BY InitLife DEF Init, FreshInv
  <2>2. LinkedNow
    BY <2>1, LinksAre DEF Init, LinkedNow
  <2> QED BY <2>1, <2>2
<1>2. Inv /\ [Next]_vars => Inv'
  BY NextLife, LinkedNext, FreshNext
<1>3. Inv => WritesLeavesOnly
  BY DEF FreshInv, WritesLeavesOnly
<1> QED BY <1>1, <1>2, <1>3, PTL DEF Spec
=============================================================================
