------------------------ MODULE SimulationRunProofs ------------------------
(***************************************************************************)
(* Simulation::run for every network of modules and links: what is known   *)
(* of the worklist, the ports and the progress at any moment of a run, who *)
(* shares a System with whom, and what it holds.                           *)
(* New Systems get identities nobody holds, which takes that there are     *)
(* infinitely many: the theorems assume it, TLC runs with a dozen.         *)
(***************************************************************************)
EXTENDS SimulationRun, Lineage, FiniteSetTheorems, SequenceTheorems

Port == [Streams -> Systems \cup {NULL}]
Ports == [Modules -> Port]

-----------------------------------------------------------------------------
(* Identities: as many of the least free ones as there are new Systems. *)

Below(F, y) == {x \in F : x < y}
Low(F, n) == {y \in F : Cardinality(Below(F, y)) < n}

LEMMA BelowFinite ==
  ASSUME NEW F \in SUBSET Nat, NEW y \in Nat
  PROVE  IsFiniteSet(Below(F, y)) /\ Cardinality(Below(F, y)) \in Nat
<1>1. Below(F, y) \in SUBSET Nat /\ \A x \in Below(F, y) : x <= y
  <2>1. Below(F, y) \in SUBSET Nat
    BY DEF Below
  <2>2. \A x \in Below(F, y) : x <= y
    BY DEF Below
  <2> QED BY <2>1, <2>2
<1>2. IsFiniteSet(Below(F, y))
  BY <1>1, FS_BoundedSetOfNaturals
<1> QED BY <1>2, FS_CardinalityType

LEMMA LowCounted ==
  ASSUME NEW F \in SUBSET Nat, ~ IsFiniteSet(F), NEW n \in Nat
  PROVE  IsFiniteSet(Low(F, n)) /\ Cardinality(Low(F, n)) = n
<1> DEFINE Good(k) == IsFiniteSet(Low(F, k)) /\ Cardinality(Low(F, k)) = k
           Bad == {k \in Nat : ~ Good(k)}
<1>n. \A y \in F : y \in Nat
  OBVIOUS
<1>b. \A y \in F : Cardinality(Below(F, y)) \in Nat /\ IsFiniteSet(Below(F, y))
  BY <1>n, BelowFinite
<1>1. Good(0)
  <2>1. Low(F, 0) = {}
    <3>1. \A y \in F : ~ (Cardinality(Below(F, y)) < 0)
      BY <1>b
    <3> QED BY <3>1 DEF Low
  <2> QED BY <2>1, FS_EmptySet
<1>2. ASSUME NEW k \in Nat, Good(k) PROVE Good(k + 1)
  <2> DEFINE L == Low(F, k)
             B(y) == Below(F, y)
  <2>1. IsFiniteSet(L) /\ Cardinality(L) = k
    BY <1>2
  <2>2. L \subseteq F /\ \A y \in F : y \in L <=> Cardinality(B(y)) < k
    BY DEF Low
  <2>3. \A y \in F : y \in Low(F, k + 1) <=> Cardinality(B(y)) < k + 1
    BY DEF Low
  <2>4. Low(F, k + 1) \subseteq F
    BY DEF Low
  <2>5. \A x, y \in F : x \in B(y) <=> x < y
    BY DEF Below
  <2>6. \A y \in F : B(y) \subseteq F
    BY DEF Below
  <2>b. \A y \in F : Cardinality(B(y)) \in Nat /\ IsFiniteSet(B(y))
    BY <1>b
  <2> HIDE DEF L, B
  <2>7. F \ L # {}
    <3>1. F # L
      BY <2>1
    <3> QED BY <2>2, <3>1
  <2>8. PICK z \in F \ L : \A y \in F \ L : z <= y
    <3>1. F \ L \in SUBSET Nat
      BY <1>n
    <3> QED BY <2>7, <3>1, LeastExists
  <2>9. B(z) = L
    <3>1. ASSUME NEW x \in B(z) PROVE x \in L
      <4>1. x \in F /\ x < z /\ x \in Nat /\ z \in Nat
        BY <1>n, <2>5, <2>6, <2>8, <3>1
      <4>2. ~ (z <= x)
        BY <4>1
      <4> QED BY <2>8, <4>1, <4>2
    <3>2. ASSUME NEW y \in L PROVE y \in B(z)
      <4>1. y \in F /\ y \in Nat /\ z \in F /\ z \in Nat /\ y # z
        BY <1>n, <2>2, <2>8
      <4>2. SUFFICES ASSUME z < y PROVE FALSE
        <5>1. y < z \/ z < y
          BY <4>1
        <5> QED BY <2>5, <4>1, <5>1
      <4>3. \A x \in B(z) : x \in B(y)
        <5> TAKE x \in B(z)
        <5>1. x \in F /\ x < z /\ x \in Nat
          BY <1>n, <2>5, <2>6, <4>1
        <5>2. x < y
          BY <4>1, <4>2, <5>1
        <5> QED BY <2>5, <4>1, <5>1, <5>2
      <4>4. B(z) \in SUBSET B(y)
        BY <4>3
      <4>5. Cardinality(B(z)) <= Cardinality(B(y))
        BY <2>b, <4>1, <4>4, FS_Subset
      <4>6. Cardinality(B(y)) < k /\ ~ (Cardinality(B(z)) < k)
        BY <2>2, <2>8, <4>1
      <4>7. Cardinality(B(y)) \in Nat /\ Cardinality(B(z)) \in Nat
        BY <2>b, <4>1
      <4> QED BY <4>5, <4>6, <4>7
    <3> QED BY <3>1, <3>2
  <2>10. Low(F, k + 1) = L \cup {z}
    <3>1. z \in Low(F, k + 1)
      <4>1. Cardinality(B(z)) < k + 1
        BY <2>1, <2>9
      <4> QED BY <2>3, <2>8, <4>1
    <3>2. ASSUME NEW y \in L PROVE y \in Low(F, k + 1)
      <4>1. y \in F /\ Cardinality(B(y)) < k /\ Cardinality(B(y)) \in Nat
        BY <2>2, <2>b
      <4>2. Cardinality(B(y)) < k + 1
        BY <4>1
      <4> QED BY <2>3, <4>1, <4>2
    <3>3. ASSUME NEW y \in Low(F, k + 1), y \notin L, y # z PROVE FALSE
      <4>1. y \in F /\ y \in Nat /\ z \in F /\ z \in Nat /\ z <= y
        BY <1>n, <2>4, <2>8, <3>3
      <4>2. z < y
        BY <3>3, <4>1
      <4>3. \A x \in L \cup {z} : x \in B(y)
        <5> TAKE x \in L \cup {z}
        <5>1. x \in F /\ x \in Nat /\ x <= z
          <6>1. CASE x = z
            BY <4>1, <6>1
          <6>2. CASE x # z
            <7>1. x \in F /\ x < z /\ x \in Nat
              BY <1>n, <2>2, <2>5, <2>9, <4>1, <6>2
            <7> QED BY <4>1, <7>1
          <6> QED BY <6>1, <6>2
        <5>2. x < y
          BY <4>1, <4>2, <5>1
        <5> QED BY <2>5, <4>1, <5>1, <5>2
      <4>4. L \cup {z} \in SUBSET B(y)
        BY <4>3
      <4>5. Cardinality(L \cup {z}) = k + 1
        BY <2>1, <2>8, FS_AddElement
      <4>6. Cardinality(L \cup {z}) <= Cardinality(B(y))
        BY <2>b, <4>1, <4>4, FS_Subset
      <4>7. Cardinality(B(y)) \in Nat /\ Cardinality(B(y)) < k + 1
        BY <2>3, <2>b, <4>1, <3>3
      <4> QED BY <4>5, <4>6, <4>7
    <3> QED BY <3>1, <3>2, <3>3
  <2>11. IsFiniteSet(L \cup {z}) /\ Cardinality(L \cup {z}) = k + 1
    BY <2>1, <2>8, FS_AddElement
  <2> QED BY <2>10, <2>11
<1>3. ASSUME Bad # {} PROVE FALSE
  <2> HIDE DEF Good
  <2>1. PICK k \in Bad : \A j \in Bad : k <= j
    BY <1>3, LeastExists
  <2>2. k # 0
    BY <1>1
  <2>3. k - 1 \in Nat /\ Good(k - 1)
    BY <2>1, <2>2
  <2>4. Good((k - 1) + 1)
    BY <1>2, <2>3
  <2> QED BY <2>1, <2>4
<1> QED BY <1>3

LEMMA NamedIs ==
  ASSUME ~ IsFiniteSet(Systems), NEW new, IsFiniteSet(new), NEW in, NEW out,
         IsFiniteSet(Held(in, out))
  PROVE  /\ Named(new, in, out) \in [new -> Systems \ Held(in, out)]
         /\ IsInjective(Named(new, in, out))
<1> DEFINE free == Systems \ Held(in, out)
           low == Low(free, Cardinality(new))
<1>1. free \in SUBSET Nat /\ ~ IsFiniteSet(free)
  <2>1. IsFiniteSet(free) => IsFiniteSet(free \cup Held(in, out))
    BY FS_Union
  <2>2. Systems \subseteq free \cup Held(in, out)
    OBVIOUS
  <2> HIDE DEF free
  <2>3. IsFiniteSet(free) => IsFiniteSet(Systems)
    BY <2>1, <2>2, FS_Subset
  <2> QED BY <2>3, RunAssumption DEF free
<1>2. Cardinality(new) \in Nat
  BY FS_CardinalityType
<1>3. IsFiniteSet(low) /\ Cardinality(low) = Cardinality(new) /\ low \subseteq free
  <2> HIDE DEF free
  <2> QED BY <1>1, <1>2, LowCounted DEF Low
<1>4. PICK f : f \in Bijection(new, low)
  <2> HIDE DEF low
  <2>1. ExistsBijection(new, low)
    BY <1>3, FS_SameCardinalityBij
  <2> QED BY <2>1 DEF ExistsBijection
<1>5. f \in [new -> low] /\ IsInjective(f)
  BY <1>4 DEF Bijection, Injection
<1>6. Named(new, in, out) = CHOOSE g \in [new -> low] : IsInjective(g)
  BY DEF Named, Low, Below
<1>7. Named(new, in, out) \in [new -> low] /\ IsInjective(Named(new, in, out))
  <2> HIDE DEF low
  <2> QED BY <1>5, <1>6
<1> QED BY <1>3, <1>7

LEMMA HeldFinite ==
  ASSUME NEW in \in Ports, NEW out \in Ports
  PROVE  IsFiniteSet(Held(in, out)) /\ Held(in, out) \subseteq Systems
<1> DEFINE D == Modules \X Streams
           f(p) == [x \in D |-> p[x[1]][x[2]]]
           H(p) == {p[x[1]][x[2]] : x \in D}
<1>1. IsFiniteSet(D)
  BY RunAssumption, FS_Product
<1>2. ASSUME NEW p PROVE IsFiniteSet(H(p))
  <2>1. f(p) \in Surjection(D, H(p))
    <3>1. f(p) \in [D -> H(p)]
      OBVIOUS
    <3>2. \A t \in H(p) : \E x \in D : f(p)[x] = t
      OBVIOUS
    <3> QED BY <3>1, <3>2 DEF Surjection
  <2> HIDE DEF D, H, f
  <2> QED BY <1>1, <2>1, FS_Surjection
<1>3. Held(in, out) \subseteq H(in) \cup H(out)
  <2> SUFFICES ASSUME NEW y \in Held(in, out) PROVE y \in H(in) \cup H(out)
    OBVIOUS
  <2>1. PICK m \in Modules, s \in Streams : y \in {in[m][s], out[m][s]}
    BY DEF Held
  <2>2. <<m, s>> \in D /\ <<m, s>>[1] = m /\ <<m, s>>[2] = s
    OBVIOUS
  <2> HIDE DEF D
  <2> QED BY <2>1, <2>2
<1>4. Held(in, out) \subseteq Systems
  <2>1. \A m \in Modules, s \in Streams :
          in[m][s] \in Systems \cup {NULL} /\ out[m][s] \in Systems \cup {NULL}
    BY DEF Ports, Port
  <2>2. ASSUME NEW y \in Held(in, out) PROVE y \in Systems
    <3>1. y # NULL
      BY DEF Held
    <3>2. PICK m \in Modules, s \in Streams : y \in {in[m][s], out[m][s]}
      BY DEF Held
    <3> QED BY <2>1, <3>1, <3>2
  <2> QED BY <2>2
<1>5. IsFiniteSet(H(in) \cup H(out))
  <2> HIDE DEF H
  <2> QED BY <1>2, FS_Union
<1> HIDE DEF H
<1>6. IsFiniteSet(Held(in, out))
  BY <1>3, <1>5, FS_Subset
<1> QED BY <1>4, <1>6

LEMMA LinksFinite == IsFiniteSet(Link)
<1> DEFINE D == (Modules \X Streams) \X (Modules \X Streams)
           f == [x \in D |-> [src |-> x[1][1], out |-> x[1][2], dst |-> x[2][1], in |-> x[2][2]]]
<1>1. IsFiniteSet(D)
  <2>1. IsFiniteSet(Modules \X Streams)
    BY RunAssumption, FS_Product
  <2> QED BY <2>1, FS_Product
<1>2. f \in [D -> Link]
  BY DEF Link
<1>3. ASSUME NEW l \in Link PROVE \E x \in D : f[x] = l
  <2> DEFINE x == <<<<l.src, l.out>>, <<l.dst, l.in>>>>
  <2>1. x \in D
    BY DEF Link
  <2>2. f[x] = [src |-> l.src, out |-> l.out, dst |-> l.dst, in |-> l.in]
    BY <2>1
  <2>3. l = [src |-> l.src, out |-> l.out, dst |-> l.dst, in |-> l.in]
    BY DEF Link
  <2> HIDE DEF f, D
  <2> QED BY <2>1, <2>2, <2>3
<1> HIDE DEF f, D
<1>4. f \in Surjection(D, Link)
  BY <1>2, <1>3 DEF Surjection
<1> QED BY <1>1, <1>4, FS_Surjection

-----------------------------------------------------------------------------
(* The worklist as a sequence without repetitions. *)

LEMMA EnumerationIs ==
  ASSUME NEW S \in SUBSET Modules, NEW s \in SetToSeqs(S)
  PROVE  s \in Seq(Modules) /\ IsInjective(s) /\ ToSet(s) = S
<1>1. IsFiniteSet(S) /\ Cardinality(S) \in Nat
  BY RunAssumption, FS_Subset, FS_CardinalityType
<1>2. s \in [1..Cardinality(S) -> S] /\ \A i, j \in 1..Cardinality(S) : i # j => s[i] # s[j]
  BY DEF SetToSeqs
<1>3. s \in Seq(Modules)
  BY <1>1, <1>2
<1>4. IsInjective(s)
  BY <1>2 DEF IsInjective
<1>5. s \in Surjection(1..Cardinality(S), S)
  <2>1. s \in Injection(1..Cardinality(S), S)
    BY <1>2 DEF Injection, IsInjective
  <2>2. IsFiniteSet(1..Cardinality(S)) /\ Cardinality(1..Cardinality(S)) = Cardinality(S)
    BY <1>1, FS_Interval
  <2> QED BY <1>1, <2>1, <2>2, FS_Injection
<1>6. ToSet(s) = S
  BY <1>2, <1>5 DEF ToSet, Surjection
<1> QED BY <1>3, <1>4, <1>6

LEMMA UniqueInsertIs ==
  ASSUME NEW w \in Seq(Modules), IsInjective(w), NEW S \in SUBSET Modules,
         NEW v \in UniqueInsert(w, S)
  PROVE  v \in Seq(Modules) /\ IsInjective(v) /\ ToSet(v) = ToSet(w) \cup S
<1>1. PICK s \in SetToSeqs(S \ ToSet(w)) : v = w \o s
  BY DEF UniqueInsert
<1>2. s \in Seq(Modules) /\ IsInjective(s) /\ ToSet(s) = S \ ToSet(w)
  <2>1. S \ ToSet(w) \in SUBSET Modules
    OBVIOUS
  <2> QED BY <2>1, EnumerationIs
<1>3. v \in Seq(Modules) /\ Len(v) = Len(w) + Len(s)
  BY <1>1, <1>2
<1>4. \A i \in 1..Len(v) : v[i] = IF i <= Len(w) THEN w[i] ELSE s[i - Len(w)]
  BY <1>1, <1>2, <1>3, ConcatProperties
<1>5. Len(w) \in Nat /\ Len(s) \in Nat /\ DOMAIN w = 1..Len(w) /\ DOMAIN s = 1..Len(s)
      /\ DOMAIN v = 1..Len(v)
  BY <1>2, <1>3
<1>6. \A i \in 1..Len(v) : IF i <= Len(w) THEN i \in DOMAIN w ELSE i - Len(w) \in DOMAIN s
  BY <1>3, <1>5
<1>7. \A i \in 1..Len(v) : IF i <= Len(w) THEN v[i] \in ToSet(w) ELSE v[i] \in ToSet(s)
  BY <1>4, <1>6 DEF ToSet
<1>8. ToSet(v) \subseteq ToSet(w) \cup S
  <2>1. \A i \in 1..Len(v) : v[i] \in ToSet(w) \cup S
    BY <1>2, <1>7
  <2> QED BY <1>5, <2>1 DEF ToSet
<1>9. ASSUME NEW i \in 1..Len(v), NEW j \in 1..Len(v), v[i] = v[j] PROVE i = j
  <2>1. CASE i <= Len(w) /\ j <= Len(w)
    BY <1>4, <1>6, <1>9, <2>1 DEF IsInjective
  <2>2. CASE ~ (i <= Len(w)) /\ ~ (j <= Len(w))
    <3>1. i - Len(w) = j - Len(w)
      BY <1>2, <1>4, <1>6, <1>9, <2>2 DEF IsInjective
    <3> QED BY <1>5, <3>1
  <2>3. CASE (i <= Len(w)) # (j <= Len(w))
    BY <1>2, <1>7, <1>9, <2>3
  <2> QED BY <2>1, <2>2, <2>3
<1>10. IsInjective(v)
  BY <1>5, <1>9 DEF IsInjective
<1>11. ToSet(w) \subseteq ToSet(v)
  <2>1. \A i \in DOMAIN w : i \in DOMAIN v /\ v[i] = w[i]
    BY <1>2, <1>3, <1>4, <1>5
  <2> QED BY <2>1 DEF ToSet
<1>12. ToSet(s) \subseteq ToSet(v)
  <2>1. ASSUME NEW i \in DOMAIN s PROVE s[i] \in ToSet(v)
    <3>1. Len(w) + i \in 1..Len(v) /\ ~ (Len(w) + i <= Len(w)) /\ (Len(w) + i) - Len(w) = i
      BY <1>3, <1>5
    <3>2. v[Len(w) + i] = s[i]
      BY <1>4, <3>1
    <3> QED BY <1>5, <3>1, <3>2 DEF ToSet
  <2> QED BY <2>1 DEF ToSet
<1> QED BY <1>2, <1>3, <1>8, <1>10, <1>11, <1>12

LEMMA HeadLeaves ==
  ASSUME NEW w \in Seq(Modules), IsInjective(w), w # <<>>
  PROVE  /\ Head(w) \in Modules /\ Tail(w) \in Seq(Modules) /\ IsInjective(Tail(w))
         /\ ToSet(w) = {Head(w)} \cup ToSet(Tail(w))
         /\ Head(w) \notin ToSet(Tail(w))
<1>1. Head(w) = w[1] /\ Len(w) \in Nat /\ Len(w) >= 1 /\ w[1] \in Modules
  OBVIOUS
<1>2. Tail(w) \in Seq(Modules) /\ Len(Tail(w)) = Len(w) - 1
  OBVIOUS
<1>3. \A i \in 1..Len(w) - 1 : Tail(w)[i] = w[i + 1]
  OBVIOUS
<1>4. DOMAIN w = 1..Len(w) /\ DOMAIN Tail(w) = 1..Len(w) - 1
  BY <1>2
<1>5. \A i \in 1..Len(w) - 1 : i + 1 \in DOMAIN w /\ i + 1 # 1
  BY <1>1, <1>4
<1>6. 1 \in DOMAIN w
  BY <1>1, <1>4
<1>7. \A i \in DOMAIN w : i = 1 \/ (i - 1 \in 1..Len(w) - 1 /\ w[i] = Tail(w)[i - 1])
  <2> TAKE i \in DOMAIN w
  <2>1. CASE i # 1
    <3>1. i - 1 \in 1..Len(w) - 1 /\ (i - 1) + 1 = i
      BY <1>1, <1>4, <2>1
    <3> QED BY <1>3, <3>1
  <2> QED BY <2>1
<1>8. IsInjective(Tail(w))
  <2>1. \A i, j \in 1..Len(w) - 1 : Tail(w)[i] = Tail(w)[j] => i + 1 = j + 1
    BY <1>3, <1>5 DEF IsInjective
  <2>2. \A i, j \in 1..Len(w) - 1 : i + 1 = j + 1 => i = j
    OBVIOUS
  <2> QED BY <1>4, <2>1, <2>2 DEF IsInjective
<1>9. Head(w) \notin ToSet(Tail(w))
  BY <1>1, <1>3, <1>4, <1>5, <1>6 DEF IsInjective, ToSet
<1>10. ToSet(w) = {Head(w)} \cup ToSet(Tail(w))
  <2>1. \A i \in DOMAIN w : w[i] \in {Head(w)} \cup ToSet(Tail(w))
    BY <1>1, <1>4, <1>7 DEF ToSet
  <2>2. \A i \in DOMAIN Tail(w) : Tail(w)[i] \in ToSet(w)
    BY <1>3, <1>4, <1>5 DEF ToSet
  <2>3. Head(w) \in ToSet(w)
    BY <1>1, <1>6 DEF ToSet
  <2> QED BY <2>1, <2>2, <2>3 DEF ToSet
<1> QED BY <1>1, <1>2, <1>8, <1>9, <1>10

-----------------------------------------------------------------------------
(* What shifting does to the ports: types are kept, and no port that holds *)
(* a System is left without one.                                           *)

Shiftable(ls, new, src, in, out, written) ==
  /\ in \in Ports /\ out \in Ports
  /\ ls \in SUBSET net.links /\ new \in SUBSET ls /\ src \in [ls -> Systems]
  /\ written \in [Systems -> SUBSET Modules]

(* Data arrives along a link that does not lead out of a group.            *)
Comes(ls, m, s, before, after) ==
  after[m][s] # NULL =>
    \/ before[m][s] # NULL
    \/ \E l \in ls : l.dst = m /\ l.in = s /\ ~IsOutOfGroup(l)

(* The data of a link is where the link leads. *)
Lands(l, in, out) ==
  IF IsOutOfGroup(l) THEN out[l.dst][l.in] # NULL ELSE in[l.dst][l.in] # NULL

LEMMA ShiftedIs ==
  ASSUME ~ IsFiniteSet(Systems), net \in Nets,
         NEW in, NEW out, NEW ls, NEW new, NEW src, NEW written,
         Shiftable(ls, new, src, in, out, written)
  PROVE  LET sh == Shifted(ls, new, src, in, out, written)
         IN /\ sh.in \in Ports /\ sh.out \in Ports
            /\ sh.content \in [Systems -> SUBSET Modules]
            /\ \A m \in Modules, s \in Streams : in[m][s] # NULL => sh.in[m][s] # NULL
            /\ \A m \in Modules, s \in Streams : Comes(ls, m, s, in, sh.in)
            /\ \A m \in Modules, s \in Streams : out[m][s] # NULL => sh.out[m][s] # NULL
            /\ \A l \in ls : Lands(l, sh.in, sh.out)
<1> DEFINE name == Named(new, in, out)
           data == [l \in ls |-> IF l \in new THEN name[l] ELSE src[l]]
           Into(m, s) == {l \in ls : l.dst = m /\ l.in = s /\ ~IsOutOfGroup(l)}
           Upon(m, s) == {l \in ls : l.dst = m /\ l.in = s /\
                            (IsOutOfGroup(l) \/ (s \in Outs(m) /\ ~IsGroup(m)))}
           Put(port, m, s, from) ==
             IF from = {} THEN port[m][s] ELSE data[CHOOSE l \in from : TRUE]
           sh == Shifted(ls, new, src, in, out, written)
<1>0. /\ in \in Ports /\ out \in Ports
      /\ ls \in SUBSET net.links /\ new \in SUBSET ls /\ src \in [ls -> Systems]
      /\ written \in [Systems -> SUBSET Modules]
  BY DEF Shiftable
<1> USE <1>0
<1>1. NULL \notin Systems
  BY RunAssumption
<1>2. IsFiniteSet(new)
  <2>1. new \in SUBSET Link
    BY NetAssumption DEF IsNet
  <2> QED BY <2>1, LinksFinite, FS_Subset
<1>3. name \in [new -> Systems]
  BY <1>2, HeldFinite, NamedIs
<1>4. data \in [ls -> Systems]
  <2> HIDE DEF name
  <2> QED BY <1>3
<1>5. /\ sh.in = [m \in Modules |-> [s \in Streams |-> Put(in, m, s, Into(m, s))]]
      /\ sh.out = [m \in Modules |-> [s \in Streams |-> Put(out, m, s, Upon(m, s))]]
      /\ sh.content = [y \in Systems |->
           LET as == {l \in new : name[l] = y}
           IN IF as = {} THEN written[y] ELSE written[src[CHOOSE l \in as : TRUE]]]
  BY DEF Shifted
<1> HIDE DEF data, sh, name
<1>6. ASSUME NEW port \in Ports, NEW m \in Modules, NEW s \in Streams, NEW from \in SUBSET ls
      PROVE  /\ Put(port, m, s, from) \in Systems \cup {NULL}
             /\ port[m][s] # NULL \/ from # {} => Put(port, m, s, from) # NULL
  <2>1. port[m][s] \in Systems \cup {NULL}
    BY DEF Ports, Port
  <2>2. CASE from = {}
    BY <2>1, <2>2
  <2>3. CASE from # {}
    <3>1. (CHOOSE l \in from : TRUE) \in ls
      BY <2>3
    <3> QED BY <1>1, <1>4, <2>3, <3>1
  <2> QED BY <2>2, <2>3
<1>7. \A m \in Modules, s \in Streams : Into(m, s) \in SUBSET ls /\ Upon(m, s) \in SUBSET ls
  OBVIOUS
<1>c. \A m \in Modules, s \in Streams : Comes(ls, m, s, in, sh.in)
  <2> TAKE m \in Modules, s \in Streams
  <2>1. sh.in[m][s] = Put(in, m, s, Into(m, s))
    BY <1>5
  <2>2. CASE Into(m, s) = {}
    BY <2>1, <2>2 DEF Comes
  <2>3. CASE Into(m, s) # {}
    BY <2>3 DEF Comes
  <2> QED BY <2>2, <2>3
<1> HIDE DEF Put, Into, Upon
<1>8. sh.in \in Ports
  <2>1. \A m \in Modules, s \in Streams : Put(in, m, s, Into(m, s)) \in Systems \cup {NULL}
    BY <1>6, <1>7
  <2> QED BY <1>5, <2>1 DEF Ports, Port
<1>9. sh.out \in Ports
  <2>1. \A m \in Modules, s \in Streams : Put(out, m, s, Upon(m, s)) \in Systems \cup {NULL}
    BY <1>6, <1>7
  <2> QED BY <1>5, <2>1 DEF Ports, Port
<1>10. \A m \in Modules, s \in Streams : in[m][s] # NULL => sh.in[m][s] # NULL
  BY <1>5, <1>6, <1>7
<1>o. \A m \in Modules, s \in Streams : out[m][s] # NULL => sh.out[m][s] # NULL
  BY <1>5, <1>6, <1>7
<1>d. \A l \in ls : Lands(l, sh.in, sh.out)
  <2> TAKE l \in ls
  <2>1. l.dst \in Modules /\ l.in \in Streams
    BY NetAssumption DEF IsNet, Link
  <2>2. IF IsOutOfGroup(l) THEN l \in Upon(l.dst, l.in) ELSE l \in Into(l.dst, l.in)
    BY DEF Upon, Into
  <2>3. CASE IsOutOfGroup(l)
    <3>1. Put(out, l.dst, l.in, Upon(l.dst, l.in)) # NULL
      BY <1>6, <1>7, <2>1, <2>2, <2>3
    <3> QED BY <1>5, <2>1, <2>3, <3>1 DEF Lands
  <2>4. CASE ~IsOutOfGroup(l)
    <3>1. Put(in, l.dst, l.in, Into(l.dst, l.in)) # NULL
      BY <1>6, <1>7, <2>1, <2>2, <2>4
    <3> QED BY <1>5, <2>1, <2>4, <3>1 DEF Lands
  <2> QED BY <2>3, <2>4
<1>11. sh.content \in [Systems -> SUBSET Modules]
  <2>1. ASSUME NEW y \in Systems
        PROVE  LET as == {l \in new : name[l] = y}
               IN (IF as = {} THEN written[y] ELSE written[src[CHOOSE l \in as : TRUE]])
                  \in SUBSET Modules
    <3> DEFINE as == {l \in new : name[l] = y}
    <3>1. CASE as = {}
      BY <3>1
    <3>2. CASE as # {}
      <4>1. (CHOOSE l \in as : TRUE) \in ls
        BY <3>2
      <4> QED BY <3>2, <4>1
    <3> QED BY <3>1, <3>2
  <2> QED BY <1>5, <2>1
<1> QED BY <1>8, <1>9, <1>10, <1>11, <1>c, <1>o, <1>d DEF sh

LEMMA EmptiedIs ==
  ASSUME NEW data \in Ports, NEW m \in Modules, NEW which
  PROVE  /\ Emptied(data, m, which) \in Ports
         /\ \A n \in Modules : n # m => Emptied(data, m, which)[n] = data[n]
         /\ \A s \in Streams : Emptied(data, m, which)[m][s] = IF s \in which THEN NULL ELSE data[m][s]
<1>1. ASSUME NEW s \in Streams
      PROVE  (IF s \in which THEN NULL ELSE data[m][s]) \in Systems \cup {NULL}
  BY DEF Ports, Port
<1>2. [s \in Streams |-> IF s \in which THEN NULL ELSE data[m][s]] \in Port
  BY <1>1 DEF Port
<1> QED BY <1>2 DEF Emptied, Ports

LEMMA InsAre ==
  ASSUME net \in Nets, NEW m \in Modules
  PROVE  Ins(m) \in SUBSET Streams /\ Outs(m) \in SUBSET Streams
<1>1. net.views[m] \in SUBSET (Streams \X Access)
  BY NetAssumption DEF IsNet
<1> QED BY <1>1 DEF Ins, Outs, PortsBut

(* unique_insert of the destinations whose in-ports are set. *)
LEMMA QueueIs ==
  ASSUME net \in Nets, NEW ls \in SUBSET net.links, NEW in, NEW rest \in Seq(Modules),
         IsInjective(rest), Queue(ls, in, rest)
  PROVE  /\ worklist' \in Seq(Modules) /\ IsInjective(worklist')
         /\ \A n \in ToSet(worklist') :
              n \in ToSet(rest) \/ (\E l \in ls : l.dst = n /\ InPortsSet(n, in))
         /\ ToSet(rest) \subseteq ToSet(worklist')
         /\ \A l \in ls : InPortsSet(l.dst, in) => l.dst \in ToSet(worklist')
<1> DEFINE S == {l.dst : l \in {k \in ls : InPortsSet(k.dst, in)}}
<1>1. S \in SUBSET Modules
  BY NetAssumption DEF IsNet, Link
<1>2. worklist' \in UniqueInsert(rest, S)
  BY DEF Queue
<1>3. /\ \A n \in S : \E l \in ls : l.dst = n /\ InPortsSet(n, in)
      /\ \A l \in ls : InPortsSet(l.dst, in) => l.dst \in S
  OBVIOUS
<1> HIDE DEF S
<1>4. /\ worklist' \in Seq(Modules) /\ IsInjective(worklist')
      /\ ToSet(worklist') = ToSet(rest) \cup S
  BY <1>1, <1>2, UniqueInsertIs
<1> QED BY <1>3, <1>4

LEMMA ShiftModuleOutputIs ==
  ASSUME ~ IsFiniteSet(Systems), net \in Nets, NEW m \in Modules,
         inPort \in Ports, NEW out \in Ports, NEW written \in [Systems -> SUBSET Modules],
         NEW rest \in Seq(Modules), IsInjective(rest), m \notin ToSet(rest),
         ToSet(rest) \subseteq ToSet(net.list),
         \A n \in ToSet(rest) : InPortsSet(n, inPort),
         ShiftModuleOutput(m, out, written, rest)
  PROVE  /\ outPort' \in Ports /\ inPort' \in Ports /\ content' \in [Systems -> SUBSET Modules]
         /\ worklist' \in Seq(Modules) /\ IsInjective(worklist')
         /\ ToSet(worklist') \subseteq ToSet(net.list)
         /\ \A n \in ToSet(worklist') : InPortsSet(n, inPort')
         /\ \A n \in ToSet(worklist') : n \in ToSet(rest) \/ (\E l \in Outgoing(m) : l.dst = n)
         /\ \A n \in Modules, s \in Streams : Comes(Outgoing(m), n, s, inPort, inPort')
         /\ \A s \in Streams : KeepsInPorts(m) \/ inPort'[m][s] = NULL
<1> DEFINE branches == {l \in Outgoing(m) : out[m][l.out] # NULL}
           new == Derived(branches, m)
           src == [l \in branches |-> out[m][l.out]]
           sh == Shifted(branches, new, src, inPort, out, written)
<1>b. branches \in SUBSET Outgoing(m)
  OBVIOUS
<1>1. branches \in SUBSET net.links /\ new \in SUBSET branches
  BY DEF Outgoing, Derived
<1>l. net.links \in SUBSET Link
      /\ \A l \in net.links : l.src # l.dst /\ l.dst \in ToSet(net.list)
  BY NetAssumption DEF IsNet, IsLinkingValid
<1>2. src \in [branches -> Systems]
  <2>1. ASSUME NEW l \in branches PROVE out[m][l.out] \in Systems
    <3>1. l.out \in Streams /\ out[m][l.out] # NULL
      BY <1>1, <1>l DEF Link
    <3> QED BY <3>1 DEF Ports, Port
  <2> HIDE DEF branches
  <2> QED BY <2>1
<1>3. \A l \in branches : l.dst # m /\ l.dst \in ToSet(net.list)
  BY <1>1, <1>l DEF Outgoing
<1>4. /\ outPort' = Emptied(sh.out, m, {l.out : l \in branches \ new})
      /\ inPort' = IF KeepsInPorts(m) THEN sh.in ELSE Emptied(sh.in, m, Streams)
      /\ content' = sh.content
      /\ Queue(branches, sh.in, rest)
  BY DEF ShiftModuleOutput
<1> HIDE DEF branches, new, src
<1>5. /\ sh.in \in Ports /\ sh.out \in Ports /\ sh.content \in [Systems -> SUBSET Modules]
      /\ \A n \in Modules, s \in Streams : inPort[n][s] # NULL => sh.in[n][s] # NULL
      /\ \A n \in Modules, s \in Streams : Comes(branches, n, s, inPort, sh.in)
  <2>1. Shiftable(branches, new, src, inPort, out, written)
    BY <1>1, <1>2 DEF Shiftable
  <2> QED BY <2>1, ShiftedIs
<1> HIDE DEF sh
<1>6. outPort' \in Ports /\ inPort' \in Ports /\ content' \in [Systems -> SUBSET Modules]
  BY <1>4, <1>5, EmptiedIs
<1>7. \A n \in Modules : n # m => inPort'[n] = sh.in[n]
  BY <1>4, <1>5, EmptiedIs
<1>8. /\ worklist' \in Seq(Modules) /\ IsInjective(worklist')
      /\ \A n \in ToSet(worklist') :
           n \in ToSet(rest) \/ (\E l \in branches : l.dst = n /\ InPortsSet(n, sh.in))
  BY <1>1, <1>4, QueueIs
<1>9. ToSet(worklist') \subseteq ToSet(net.list)
  BY <1>3, <1>8
<1>10. ASSUME NEW n \in ToSet(worklist') PROVE InPortsSet(n, inPort')
  <2>1. n \in Modules
    BY <1>8 DEF ToSet
  <2>2. n # m
    BY <1>3, <1>8
  <2>3. InPortsSet(n, sh.in)
    <3>1. CASE n \in ToSet(rest)
      <4>1. Ins(n) \subseteq Streams /\ InPortsSet(n, inPort)
        BY <2>1, <3>1, InsAre
      <4> QED BY <1>5, <2>1, <4>1 DEF InPortsSet
    <3>2. CASE n \notin ToSet(rest)
      BY <1>8, <3>2
    <3> QED BY <3>1, <3>2
  <2> QED BY <1>7, <2>1, <2>2, <2>3 DEF InPortsSet
<1>11. \A n \in Modules, s \in Streams : inPort'[n][s] # NULL => sh.in[n][s] # NULL
  BY <1>4, <1>5, EmptiedIs
<1>12. \A n \in Modules, s \in Streams : Comes(Outgoing(m), n, s, inPort, inPort')
  BY <1>b, <1>5, <1>11 DEF Comes
<1>13. \A s \in Streams : KeepsInPorts(m) \/ inPort'[m][s] = NULL
  BY <1>4, <1>5, EmptiedIs
<1>14. \A n \in ToSet(worklist') : n \in ToSet(rest) \/ (\E l \in Outgoing(m) : l.dst = n)
  BY <1>b, <1>8
<1> QED BY <1>6, <1>8, <1>9, <1>10, <1>12, <1>13, <1>14

LEMMA ShiftGroupInputIs ==
  ASSUME ~ IsFiniteSet(Systems), net \in Nets, NEW g \in Modules,
         inPort \in Ports, NEW out \in Ports, content \in [Systems -> SUBSET Modules],
         NEW rest \in Seq(Modules), IsInjective(rest), g \notin ToSet(rest),
         ToSet(rest) \subseteq ToSet(net.list),
         \A n \in ToSet(rest) : InPortsSet(n, inPort),
         ShiftGroupInput(g, out, rest)
  PROVE  /\ outPort' \in Ports /\ inPort' \in Ports /\ content' \in [Systems -> SUBSET Modules]
         /\ worklist' \in Seq(Modules) /\ IsInjective(worklist')
         /\ ToSet(worklist') \subseteq ToSet(net.list)
         /\ \A n \in ToSet(worklist') : InPortsSet(n, inPort')
         /\ \A n \in ToSet(worklist') : n \in ToSet(rest) \/ (\E l \in IntoGroup(g) : l.dst = n)
         /\ \A n \in Modules, s \in Streams : Comes(IntoGroup(g), n, s, inPort, inPort')
<1> DEFINE ls == {l \in IntoGroup(g) : inPort[g][l.out] # NULL}
           new == IF Cardinality(Ins(g)) > 1 THEN ls ELSE {}
           src == [l \in ls |-> inPort[g][l.out]]
           sh == Shifted(ls, new, src, inPort, out, content)
<1>b. ls \in SUBSET IntoGroup(g)
  OBVIOUS
<1>1. ls \in SUBSET net.links /\ new \in SUBSET ls
  BY DEF IntoGroup
<1>l. net.links \in SUBSET Link
      /\ \A l \in net.links : l.src # l.dst /\ l.dst \in ToSet(net.list)
  BY NetAssumption DEF IsNet, IsLinkingValid
<1>2. src \in [ls -> Systems]
  <2>1. ASSUME NEW l \in ls PROVE inPort[g][l.out] \in Systems
    <3>1. l.out \in Streams /\ inPort[g][l.out] # NULL
      BY <1>1, <1>l DEF Link
    <3> QED BY <3>1 DEF Ports, Port
  <2> HIDE DEF ls
  <2> QED BY <2>1
<1>3. \A l \in ls : l.dst # g /\ l.dst \in ToSet(net.list)
  BY <1>1, <1>l DEF IntoGroup
<1>4. /\ outPort' = sh.out
      /\ inPort' = Emptied(sh.in, g, Ins(g) \ {l.out : l \in ls})
      /\ content' = sh.content
      /\ Queue(ls, sh.in, rest)
  BY DEF ShiftGroupInput
<1> HIDE DEF ls, new, src
<1>5. /\ sh.in \in Ports /\ sh.out \in Ports /\ sh.content \in [Systems -> SUBSET Modules]
      /\ \A n \in Modules, s \in Streams : inPort[n][s] # NULL => sh.in[n][s] # NULL
      /\ \A n \in Modules, s \in Streams : Comes(ls, n, s, inPort, sh.in)
  <2>1. Shiftable(ls, new, src, inPort, out, content)
    BY <1>1, <1>2 DEF Shiftable
  <2> QED BY <2>1, ShiftedIs
<1> HIDE DEF sh
<1>6. outPort' \in Ports /\ inPort' \in Ports /\ content' \in [Systems -> SUBSET Modules]
  BY <1>4, <1>5, EmptiedIs
<1>7. \A n \in Modules : n # g => inPort'[n] = sh.in[n]
  BY <1>4, <1>5, EmptiedIs
<1>8. /\ worklist' \in Seq(Modules) /\ IsInjective(worklist')
      /\ \A n \in ToSet(worklist') :
           n \in ToSet(rest) \/ (\E l \in ls : l.dst = n /\ InPortsSet(n, sh.in))
  BY <1>1, <1>4, QueueIs
<1>9. ToSet(worklist') \subseteq ToSet(net.list)
  BY <1>3, <1>8
<1>10. ASSUME NEW n \in ToSet(worklist') PROVE InPortsSet(n, inPort')
  <2>1. n \in Modules
    BY <1>8 DEF ToSet
  <2>2. n # g
    BY <1>3, <1>8
  <2>3. InPortsSet(n, sh.in)
    <3>1. CASE n \in ToSet(rest)
      <4>1. Ins(n) \subseteq Streams /\ InPortsSet(n, inPort)
        BY <2>1, <3>1, InsAre
      <4> QED BY <1>5, <2>1, <4>1 DEF InPortsSet
    <3>2. CASE n \notin ToSet(rest)
      BY <1>8, <3>2
    <3> QED BY <3>1, <3>2
  <2> QED BY <1>7, <2>1, <2>2, <2>3 DEF InPortsSet
<1>11. \A n \in Modules, s \in Streams : inPort'[n][s] # NULL => sh.in[n][s] # NULL
  BY <1>4, <1>5, EmptiedIs
<1>12. \A n \in Modules, s \in Streams : Comes(IntoGroup(g), n, s, inPort, inPort')
  BY <1>b, <1>5, <1>11 DEF Comes
<1>13. \A n \in ToSet(worklist') : n \in ToSet(rest) \/ (\E l \in IntoGroup(g) : l.dst = n)
  BY <1>b, <1>8
<1> QED BY <1>6, <1>8, <1>9, <1>10, <1>12, <1>13

(* What a module hands on arrives, what the other modules and groups hold  *)
(* stays, and who becomes ready is queued.                                 *)
LEMMA ShiftModuleOutputHands ==
  ASSUME ~ IsFiniteSet(Systems), net \in Nets, NEW m \in Modules,
         inPort \in Ports, NEW out \in Ports, NEW written \in [Systems -> SUBSET Modules],
         NEW rest \in Seq(Modules), IsInjective(rest),
         ShiftModuleOutput(m, out, written, rest)
  PROVE  /\ \A n \in Modules \ {m}, s \in Streams :
              /\ inPort[n][s] # NULL => inPort'[n][s] # NULL
              /\ out[n][s] # NULL => outPort'[n][s] # NULL
         /\ \A l \in Outgoing(m) : out[m][l.out] # NULL => Lands(l, inPort', outPort')
         /\ ToSet(rest) \subseteq ToSet(worklist')
         /\ \A l \in Outgoing(m) : out[m][l.out] # NULL /\ InPortsSet(l.dst, inPort')
              => l.dst \in ToSet(worklist')
         /\ \A n \in Modules : InPortsSet(n, inPort')
              => InPortsSet(n, inPort) \/ n \in ToSet(worklist')
<1> DEFINE branches == {l \in Outgoing(m) : out[m][l.out] # NULL}
           new == Derived(branches, m)
           src == [l \in branches |-> out[m][l.out]]
           sh == Shifted(branches, new, src, inPort, out, written)
<1>b. branches = {l \in Outgoing(m) : out[m][l.out] # NULL}
  OBVIOUS
<1>1. branches \in SUBSET net.links /\ new \in SUBSET branches
  BY DEF Outgoing, Derived
<1>l. net.links \in SUBSET Link /\ \A l \in net.links : l.src # l.dst
  BY NetAssumption DEF IsNet, IsLinkingValid
<1>2. src \in [branches -> Systems]
  <2>1. ASSUME NEW l \in branches PROVE out[m][l.out] \in Systems
    <3>1. l.out \in Streams /\ out[m][l.out] # NULL
      BY <1>1, <1>l DEF Link
    <3> QED BY <3>1 DEF Ports, Port
  <2> HIDE DEF branches
  <2> QED BY <2>1
<1>3. \A l \in branches : l.dst # m /\ l.dst \in Modules /\ l.in \in Streams
  BY <1>1, <1>l DEF Outgoing, Link
<1>4. /\ outPort' = Emptied(sh.out, m, {l.out : l \in branches \ new})
      /\ inPort' = IF KeepsInPorts(m) THEN sh.in ELSE Emptied(sh.in, m, Streams)
      /\ Queue(branches, sh.in, rest)
  BY DEF ShiftModuleOutput
<1> HIDE DEF branches, new, src
<1>5. /\ sh.in \in Ports /\ sh.out \in Ports
      /\ \A n \in Modules, s \in Streams : inPort[n][s] # NULL => sh.in[n][s] # NULL
      /\ \A n \in Modules, s \in Streams : Comes(branches, n, s, inPort, sh.in)
      /\ \A n \in Modules, s \in Streams : out[n][s] # NULL => sh.out[n][s] # NULL
      /\ \A l \in branches : Lands(l, sh.in, sh.out)
  <2>1. Shiftable(branches, new, src, inPort, out, written)
    BY <1>1, <1>2 DEF Shiftable
  <2> QED BY <2>1, ShiftedIs
<1> HIDE DEF sh
<1>7. \A n \in Modules : n # m => inPort'[n] = sh.in[n] /\ outPort'[n] = sh.out[n]
  BY <1>4, <1>5, EmptiedIs
<1>8. /\ ToSet(rest) \subseteq ToSet(worklist')
      /\ \A l \in branches : InPortsSet(l.dst, sh.in) => l.dst \in ToSet(worklist')
  BY <1>1, <1>4, QueueIs
<1>9. \A n \in Modules \ {m}, s \in Streams :
              /\ inPort[n][s] # NULL => inPort'[n][s] # NULL
              /\ out[n][s] # NULL => outPort'[n][s] # NULL
  BY <1>5, <1>7
<1>10. \A l \in branches : Lands(l, inPort', outPort')
  BY <1>3, <1>5, <1>7 DEF Lands
<1>11. \A n \in Modules, s \in Streams : inPort'[n][s] # NULL => sh.in[n][s] # NULL
  BY <1>4, <1>5, EmptiedIs
<1>12. \A n \in Modules : InPortsSet(n, inPort') => InPortsSet(n, sh.in)
  <2>1. \A n \in Modules : Ins(n) \subseteq Streams
    BY InsAre
  <2> QED BY <1>11, <2>1 DEF InPortsSet
<1>13. ASSUME NEW n \in Modules, InPortsSet(n, inPort'), ~InPortsSet(n, inPort)
       PROVE  n \in ToSet(worklist')
  <2>1. PICK s \in Ins(n) : inPort[n][s] = NULL
    BY <1>13 DEF InPortsSet
  <2>2. s \in Streams /\ sh.in[n][s] # NULL
    BY <1>12, <1>13, <2>1, InsAre DEF InPortsSet
  <2>3. PICK l \in branches : l.dst = n
    BY <1>5, <2>1, <2>2 DEF Comes
  <2> QED BY <1>8, <1>12, <1>13, <2>3
<1>14. \A l \in branches : InPortsSet(l.dst, inPort') => l.dst \in ToSet(worklist')
  BY <1>3, <1>8, <1>12
<1> QED BY <1>b, <1>8, <1>9, <1>10, <1>13, <1>14

LEMMA ShiftGroupInputHands ==
  ASSUME ~ IsFiniteSet(Systems), net \in Nets, NEW g \in Modules,
         inPort \in Ports, NEW out \in Ports, content \in [Systems -> SUBSET Modules],
         NEW rest \in Seq(Modules), IsInjective(rest),
         ShiftGroupInput(g, out, rest)
  PROVE  /\ \A n \in Modules, s \in Streams :
              /\ inPort[n][s] # NULL /\ (n = g => \E l \in IntoGroup(g) : l.out = s)
                   => inPort'[n][s] # NULL
              /\ out[n][s] # NULL => outPort'[n][s] # NULL
         /\ \A l \in IntoGroup(g) : inPort[g][l.out] # NULL => Lands(l, inPort', outPort')
         /\ ToSet(rest) \subseteq ToSet(worklist')
         /\ \A n \in Modules : InPortsSet(n, inPort')
              => InPortsSet(n, inPort) \/ n \in ToSet(worklist')
<1> DEFINE ls == {l \in IntoGroup(g) : inPort[g][l.out] # NULL}
           new == IF Cardinality(Ins(g)) > 1 THEN ls ELSE {}
           src == [l \in ls |-> inPort[g][l.out]]
           sh == Shifted(ls, new, src, inPort, out, content)
<1>b. ls = {l \in IntoGroup(g) : inPort[g][l.out] # NULL}
  OBVIOUS
<1>1. ls \in SUBSET net.links /\ new \in SUBSET ls
  BY DEF IntoGroup
<1>l. net.links \in SUBSET Link /\ \A l \in net.links : l.src # l.dst
  BY NetAssumption DEF IsNet, IsLinkingValid
<1>2. src \in [ls -> Systems]
  <2>1. ASSUME NEW l \in ls PROVE inPort[g][l.out] \in Systems
    <3>1. l.out \in Streams /\ inPort[g][l.out] # NULL
      BY <1>1, <1>l DEF Link
    <3> QED BY <3>1 DEF Ports, Port
  <2> HIDE DEF ls
  <2> QED BY <2>1
<1>3. \A l \in ls : l.dst # g /\ l.dst \in Modules /\ l.in \in Streams
  BY <1>1, <1>l DEF IntoGroup, Link
<1> DEFINE erased == Ins(g) \ {l.out : l \in ls}
<1>4. /\ outPort' = sh.out
      /\ inPort' = Emptied(sh.in, g, erased)
      /\ Queue(ls, sh.in, rest)
  BY DEF ShiftGroupInput
<1>e. \A s \in Streams : inPort[g][s] # NULL /\ (\E l \in IntoGroup(g) : l.out = s)
        => s \notin erased
  OBVIOUS
<1> HIDE DEF ls, new, src, erased
<1>5. /\ sh.in \in Ports /\ sh.out \in Ports
      /\ \A n \in Modules, s \in Streams : inPort[n][s] # NULL => sh.in[n][s] # NULL
      /\ \A n \in Modules, s \in Streams : Comes(ls, n, s, inPort, sh.in)
      /\ \A n \in Modules, s \in Streams : out[n][s] # NULL => sh.out[n][s] # NULL
      /\ \A l \in ls : Lands(l, sh.in, sh.out)
  <2>1. Shiftable(ls, new, src, inPort, out, content)
    BY <1>1, <1>2 DEF Shiftable
  <2> QED BY <2>1, ShiftedIs
<1> HIDE DEF sh
<1>7. /\ \A n \in Modules : n # g => inPort'[n] = sh.in[n]
      /\ \A s \in Streams : inPort'[g][s] = IF s \in erased THEN NULL ELSE sh.in[g][s]
  BY <1>4, <1>5, EmptiedIs
<1>8. /\ ToSet(rest) \subseteq ToSet(worklist')
      /\ \A l \in ls : InPortsSet(l.dst, sh.in) => l.dst \in ToSet(worklist')
  BY <1>1, <1>4, QueueIs
<1>9. \A n \in Modules, s \in Streams :
              /\ inPort[n][s] # NULL /\ (n = g => \E l \in IntoGroup(g) : l.out = s)
                   => inPort'[n][s] # NULL
              /\ out[n][s] # NULL => outPort'[n][s] # NULL
  BY <1>4, <1>5, <1>7, <1>e
<1>10. \A l \in ls : Lands(l, inPort', outPort')
  BY <1>3, <1>4, <1>5, <1>7 DEF Lands
<1>11. \A n \in Modules, s \in Streams : inPort'[n][s] # NULL => sh.in[n][s] # NULL
  BY <1>7
<1>12. \A n \in Modules : InPortsSet(n, inPort') => InPortsSet(n, sh.in)
  <2>1. \A n \in Modules : Ins(n) \subseteq Streams
    BY InsAre
  <2> QED BY <1>11, <2>1 DEF InPortsSet
<1>13. ASSUME NEW n \in Modules, InPortsSet(n, inPort'), ~InPortsSet(n, inPort)
       PROVE  n \in ToSet(worklist')
  <2>1. PICK s \in Ins(n) : inPort[n][s] = NULL
    BY <1>13 DEF InPortsSet
  <2>2. s \in Streams /\ sh.in[n][s] # NULL
    BY <1>12, <1>13, <2>1, InsAre DEF InPortsSet
  <2>3. PICK l \in ls : l.dst = n
    BY <1>5, <2>1, <2>2 DEF Comes
  <2> QED BY <1>8, <1>12, <1>13, <2>3
<1> QED BY <1>b, <1>8, <1>9, <1>10, <1>13

(* getData: a port of the module, or a new System; types are kept. *)
LEMMA AfterGetDataIs ==
  ASSUME ~ IsFiniteSet(Systems), inPort \in Ports, outPort \in Ports,
         content \in [Systems -> SUBSET Modules], NEW m \in Modules,
         NEW used \in SUBSET Streams
  PROVE  /\ AfterGetData(m, used).out \in Ports
         /\ AfterGetData(m, used).content \in [Systems -> SUBSET Modules]
         /\ \A s \in used \cap Outs(m) : AfterGetData(m, used).out[m][s] # NULL
         /\ \A n \in Modules \ {m} : AfterGetData(m, used).out[n] = outPort[n]
<1> DEFINE created == {s \in used : inPort[m][s] = NULL /\ outPort[m][s] = NULL}
           name == Named(created, inPort, outPort)
           got == Obtained(m, used)
           write == used \cap Outs(m)
<1>1. name \in [created -> Systems]
  <2>1. IsFiniteSet(created)
    BY RunAssumption, FS_Subset
  <2> HIDE DEF created
  <2> QED BY <2>1, HeldFinite, NamedIs
<1>2. got \in [used -> Systems]
  <2> HIDE DEF name
  <2>1. got = [s \in used |-> IF inPort[m][s] # NULL THEN inPort[m][s]
                              ELSE IF outPort[m][s] # NULL THEN outPort[m][s]
                              ELSE name[s]]
    BY DEF Obtained, name
  <2>2. \A s \in used : inPort[m][s] \in Systems \cup {NULL} /\ outPort[m][s] \in Systems \cup {NULL}
    BY DEF Ports, Port
  <2> QED BY <1>1, <2>1, <2>2
<1> HIDE DEF got
<1>3. AfterGetData(m, used).out =
        [outPort EXCEPT ![m] = [s \in Streams |-> IF s \in write THEN got[s] ELSE @[s]]]
  BY DEF AfterGetData, got
<1>4. AfterGetData(m, used).content =
        [y \in Systems |->
          (IF \E s \in used : got[s] = y /\ inPort[m][s] = NULL /\ outPort[m][s] = NULL
           THEN {} ELSE content[y])
          \cup (IF \E s \in write : got[s] = y THEN {m} ELSE {})]
  BY DEF AfterGetData, got
<1>5. [s \in Streams |-> IF s \in write THEN got[s] ELSE outPort[m][s]] \in Port
  BY <1>2 DEF Ports, Port
<1>6. AfterGetData(m, used).out \in Ports
  BY <1>3, <1>5 DEF Ports
<1>7. AfterGetData(m, used).content \in [Systems -> SUBSET Modules]
  BY <1>4
<1>8. \A n \in Modules \ {m} : AfterGetData(m, used).out[n] = outPort[n]
  BY <1>3 DEF Ports
<1>9. \A s \in write : AfterGetData(m, used).out[m][s] # NULL
  <2>1. NULL \notin Systems /\ outPort \in [Modules -> Port]
    BY RunAssumption DEF Ports
  <2>2. AfterGetData(m, used).out[m] = [s \in Streams |-> IF s \in write THEN got[s] ELSE outPort[m][s]]
    BY <1>3, <2>1
  <2> QED BY <1>2, <2>1, <2>2
<1> QED BY <1>6, <1>7, <1>8, <1>9

-----------------------------------------------------------------------------
(* The inductive invariant.  A module executes only while it is current,   *)
(* and what waits is in the module list; the executions that are not the   *)
(* first of their module have been added to the number to finish.          *)
Executed == {m \in ToSet(net.list) \ net.groups : status[m] \in {"ok", "executing"}}

Phased ==
  /\ ToSet(worklist) \subseteq ToSet(net.list)
  /\ pc = "exec" => /\ current \in ToSet(net.list) \ net.groups
                    /\ current \notin ToSet(worklist)
                    /\ status[current] = "executing"
  /\ pc # "exec" => current = Root
  /\ pc = "idle" => worklist = <<>>
  /\ \A m \in Modules \ net.groups : status[m] = "executing" => pc = "exec" /\ m = current
Counted ==
  /\ pc = "idle" => finished = 0
  /\ pc = "loop" => finished + Len(net.list) <= toFinish + Cardinality(Executed)
  /\ pc = "exec" => finished + 1 + Len(net.list) <= toFinish + Cardinality(Executed)
RunInv == TypeOK /\ WorklistReady /\ Phased /\ Counted

LEMMA NetIs ==
  ASSUME net \in Nets
  PROVE  /\ net.list \in Seq(Modules) /\ Len(net.list) \in Nat
         /\ ToSet(net.list) \subseteq Modules /\ net.groups \subseteq Modules
         /\ net.owner \in [Modules -> Modules \cup {Root}]
<1>1. IsNet(net)
  BY NetAssumption
<1>2. net.list \in Seq(Modules) /\ net.groups \subseteq ToSet(net.list)
  BY <1>1 DEF IsNet
<1>3. Len(net.list) \in Nat /\ ToSet(net.list) \subseteq Modules
  BY <1>2 DEF ToSet
<1>4. net.owner \in [Modules -> net.groups \cup {Root}]
  BY <1>1 DEF IsNet
<1>5. net.groups \subseteq Modules
  BY <1>2, <1>3
<1>6. net.owner \in [Modules -> Modules \cup {Root}]
  BY <1>4, <1>5
<1> QED BY <1>2, <1>3, <1>5, <1>6

LEMMA ListCounted ==
  ASSUME net \in Nets, NEW S \in SUBSET ToSet(net.list)
  PROVE  IsFiniteSet(S) /\ Cardinality(S) \in Nat /\ Cardinality(S) <= Len(net.list)
<1>1. net.list \in Seq(Modules) /\ Len(net.list) \in Nat
  BY NetIs
<1>2. net.list \in Surjection(1..Len(net.list), ToSet(net.list))
  <2>1. net.list \in [1..Len(net.list) -> ToSet(net.list)]
    BY <1>1 DEF ToSet
  <2>2. \A x \in ToSet(net.list) : \E i \in 1..Len(net.list) : net.list[i] = x
    BY <1>1 DEF ToSet
  <2> QED BY <2>1, <2>2 DEF Surjection
<1>3. ExistsSurjection(1..Len(net.list), ToSet(net.list))
  BY <1>2 DEF ExistsSurjection
<1>4. Cardinality(ToSet(net.list)) <= Len(net.list)
  BY <1>1, <1>3, FS_SurjCardinalityBound
<1>5. IsFiniteSet(ToSet(net.list))
  BY <1>1, <1>3, FS_NatSurjection
<1>6. IsFiniteSet(S) /\ Cardinality(S) <= Cardinality(ToSet(net.list))
  BY <1>5, FS_Subset
<1>7. Cardinality(S) \in Nat /\ Cardinality(ToSet(net.list)) \in Nat
  BY <1>5, <1>6, FS_CardinalityType
<1> QED BY <1>1, <1>4, <1>6, <1>7

(* The invariant, flattened. *)
LEMMA Known ==
  ASSUME RunInv
  PROVE  /\ net \in Nets
         /\ status \in [Modules -> {"untouched", "checked", "executing", "ok", "error"}]
         /\ armed \in [Modules -> BOOLEAN]
         /\ inPort \in Ports /\ outPort \in Ports /\ content \in [Systems -> SUBSET Modules]
         /\ worklist \in Seq(Modules) /\ IsInjective(worklist)
         /\ finished \in Nat /\ toFinish \in Nat
         /\ \A m \in ToSet(worklist) : InPortsSet(m, inPort)
         /\ ToSet(worklist) \subseteq ToSet(net.list)
<1>1. \A m \in ToSet(worklist) : m # Root
  <2>1. ToSet(worklist) \subseteq Modules
    BY DEF RunInv, TypeOK, ToSet
  <2> QED BY <2>1, RunAssumption
<1>2. \A m \in ToSet(worklist) : InPortsSet(m, inPort)
  BY <1>1 DEF RunInv, WorklistReady
<1>3. worklist \in Seq(Modules) /\ IsInjective(worklist)
  BY DEF RunInv, TypeOK, WorklistReady
<1>4. ToSet(worklist) \subseteq ToSet(net.list)
  BY DEF RunInv, Phased
<1>5. inPort \in Ports /\ outPort \in Ports
  BY DEF RunInv, TypeOK, Ports, Port
<1> QED BY <1>2, <1>3, <1>4, <1>5 DEF RunInv, TypeOK

(* A module that leaves the worklist takes no other's place. *)
LEMMA Taken ==
  ASSUME RunInv, NEW m \in Modules, Takes(m)
  PROVE  /\ Tail(worklist) \in Seq(Modules) /\ IsInjective(Tail(worklist))
         /\ m \notin ToSet(Tail(worklist)) /\ m \in ToSet(net.list)
         /\ ToSet(Tail(worklist)) \subseteq ToSet(worklist)
         /\ ToSet(Tail(worklist)) \subseteq ToSet(net.list)
         /\ InPortsSet(m, inPort)
         /\ \A n \in ToSet(Tail(worklist)) : InPortsSet(n, inPort)
<1>1. /\ worklist \in Seq(Modules) /\ IsInjective(worklist)
      /\ \A n \in ToSet(worklist) : InPortsSet(n, inPort)
      /\ ToSet(worklist) \subseteq ToSet(net.list)
  BY Known
<1>2. m = Head(worklist) /\ worklist # <<>>
  BY DEF Takes
<1>3. /\ Tail(worklist) \in Seq(Modules) /\ IsInjective(Tail(worklist))
      /\ ToSet(worklist) = {Head(worklist)} \cup ToSet(Tail(worklist))
      /\ Head(worklist) \notin ToSet(Tail(worklist))
  BY <1>1, <1>2, HeadLeaves
<1> QED BY <1>1, <1>2, <1>3

LEMMA CheckedIs ==
  ASSUME NEW st \in [Modules -> {"untouched", "checked", "executing", "ok", "error"}]
  PROVE  /\ Checked(st) \in [Modules -> {"untouched", "checked", "executing", "ok", "error"}]
         /\ \A m \in Modules : Checked(st)[m] = "executing" => st[m] = "executing"
  BY DEF Checked

LEMMA RearmedIs ==
  ASSUME armed \in [Modules -> BOOLEAN]
  PROVE  [m \in Modules |-> Rearmed(m)] \in [Modules -> BOOLEAN]
<1>1. \A m \in Modules : Rearmed(m) \in BOOLEAN
  BY DEF Rearmed, Visited
<1> QED BY <1>1

LEMMA InitRun == Init => RunInv
<1> SUFFICES ASSUME Init PROVE RunInv
  OBVIOUS
<1>1. TypeOK
  <2>1. inPort \in Ports /\ outPort \in Ports
    BY DEF Init, NoData, Ports, Port
  <2>2. content \in [Systems -> SUBSET Modules]
    BY DEF Init
  <2>3. runs \in 0..MaxRuns
    BY RunAssumption DEF Init
  <2>4. /\ net \in Nets
        /\ status \in [Modules -> {"untouched", "checked", "executing", "ok", "error"}]
        /\ armed \in [Modules -> BOOLEAN]
        /\ worklist \in Seq(Modules) /\ current \in Modules \cup {Root}
        /\ currentGroupDomain \in Modules \cup {Root}
        /\ simStatus \in {"ok", "failed"} /\ pc \in {"idle", "loop", "exec"}
    BY DEF Init
  <2>5. /\ canceled \in BOOLEAN /\ clean \in BOOLEAN /\ fresh \in BOOLEAN
        /\ finished \in Nat /\ toFinish \in Nat
        /\ done \subseteq Modules /\ wrote \subseteq Modules \X Streams
    BY DEF Init
  <2> QED BY <2>1, <2>2, <2>3, <2>4, <2>5 DEF TypeOK, Ports, Port
<1>2. ToSet(worklist) = {} /\ IsInjective(worklist)
  BY DEF Init, ToSet, IsInjective
<1>3. WorklistReady
  BY <1>2 DEF Init, WorklistReady
<1>4. Phased
  BY <1>2 DEF Init, Phased
<1>5. Counted
  BY DEF Init, Counted
<1> QED BY <1>1, <1>3, <1>4, <1>5 DEF RunInv

LEMMA StartRunKeeps == RunInv /\ StartRun => RunInv'
<1> SUFFICES ASSUME RunInv, StartRun PROVE RunInv'
  OBVIOUS
<1> DEFINE ready == {m \in ToSet(net.list) : InPortsSet(m, inPort)}
<1>1. /\ net \in Nets /\ armed \in [Modules -> BOOLEAN]
      /\ status \in [Modules -> {"untouched", "checked", "executing", "ok", "error"}]
      /\ inPort \in Ports /\ outPort \in Ports
  BY Known
<1>2. /\ net.list \in Seq(Modules) /\ Len(net.list) \in Nat
      /\ ToSet(net.list) \subseteq Modules
  BY <1>1, NetIs
<1>3. /\ net' = net /\ inPort' = inPort /\ outPort' = outPort /\ content' = content
      /\ current' = current /\ simStatus' = simStatus
      /\ pc = "idle" /\ pc' = "loop" /\ worklist' \in SetToSeqs(ready)
      /\ status' = Checked(status) /\ armed' = [m \in Modules |-> Rearmed(m)]
      /\ finished' = 0 /\ toFinish' = Len(net.list)
  BY DEF StartRun, ports
<1>4. /\ worklist' \in Seq(Modules) /\ IsInjective(worklist') /\ ToSet(worklist') \subseteq ready
  <2>1. ready \in SUBSET Modules
    BY <1>2
  <2> HIDE DEF ready
  <2> QED BY <1>3, <2>1, EnumerationIs
<1>5. current = Root
  BY <1>3 DEF RunInv, Phased
<1>6. /\ status' \in [Modules -> {"untouched", "checked", "executing", "ok", "error"}]
      /\ \A m \in Modules : status'[m] = "executing" => status[m] = "executing"
  BY <1>1, <1>3, CheckedIs
<1>7. armed' \in [Modules -> BOOLEAN]
  BY <1>1, <1>3, RearmedIs
<1>8. TypeOK'
  <2>1. runs' \in 0..MaxRuns /\ clean' \in BOOLEAN /\ fresh' \in BOOLEAN /\ canceled' \in BOOLEAN
        /\ done' = {} /\ wrote' = {} /\ currentGroupDomain' = Root
    <3>1. runs \in 0..MaxRuns /\ runs < MaxRuns /\ runs' = runs + 1
      BY DEF StartRun, RunInv, TypeOK
    <3>2. runs' \in 0..MaxRuns
      BY <3>1, RunAssumption
    <3>3. clean' \in BOOLEAN
      BY DEF StartRun
    <3> QED BY <3>2, <3>3 DEF StartRun
  <2> QED BY <1>1, <1>2, <1>3, <1>4, <1>6, <1>7, <2>1 DEF RunInv, TypeOK
<1>9. WorklistReady'
  <2>1. \A m \in ToSet(worklist') : InPortsSet(m, inPort)
    BY <1>4
  <2>2. \A m : InPortsSet(m, inPort)' <=> InPortsSet(m, inPort)
    BY <1>3 DEF InPortsSet, Ins
  <2> QED BY <1>3, <1>4, <1>5, <2>1, <2>2 DEF WorklistReady
<1>10. Phased'
  <2>1. \A m \in Modules \ net.groups : status[m] # "executing"
    BY <1>3 DEF RunInv, Phased
  <2> QED BY <1>3, <1>4, <1>5, <1>6, <2>1 DEF Phased
<1>11. Counted'
  <2> DEFINE E == {m \in ToSet(net.list) \ net.groups : status'[m] \in {"ok", "executing"}}
  <2>1. Executed' = E
    BY <1>3 DEF Executed
  <2>2. E \in SUBSET ToSet(net.list)
    OBVIOUS
  <2> HIDE DEF E
  <2>3. Cardinality(E) \in Nat
    BY <1>1, <2>2, ListCounted
  <2>4. finished' + Len(net.list) <= toFinish' + Cardinality(E)
    BY <1>2, <1>3, <2>3
  <2> QED BY <1>3, <2>1, <2>4 DEF Counted
<1> QED BY <1>8, <1>9, <1>10, <1>11 DEF RunInv

LEMMA PostponeKeeps ==
  ASSUME RunInv, NEW m \in Modules, Postpone(m)
  PROVE  RunInv'
<1>1. /\ Tail(worklist) \in Seq(Modules) /\ IsInjective(Tail(worklist))
      /\ m \in ToSet(net.list)
      /\ ToSet(Tail(worklist)) \subseteq ToSet(net.list)
      /\ InPortsSet(m, inPort)
      /\ \A n \in ToSet(Tail(worklist)) : InPortsSet(n, inPort)
  BY Taken DEF Postpone
<1>2. /\ net' = net /\ inPort' = inPort /\ status' = status /\ current' = current
      /\ finished' = finished /\ toFinish' = toFinish /\ pc' = pc /\ pc = "loop"
      /\ worklist' \in UniqueInsert(Tail(worklist), {m})
  BY DEF Postpone, Takes, ports
<1>3. /\ worklist' \in Seq(Modules) /\ IsInjective(worklist')
      /\ ToSet(worklist') \subseteq ToSet(Tail(worklist)) \cup {m}
  <2> DEFINE S == {m}
  <2>1. S \in SUBSET Modules
    OBVIOUS
  <2> HIDE DEF S
  <2>2. worklist' \in UniqueInsert(Tail(worklist), S)
    BY <1>2 DEF S
  <2> QED BY <1>1, <2>1, <2>2, UniqueInsertIs DEF S
<1>4. current = Root
  BY <1>2 DEF RunInv, Phased
<1>5. TypeOK'
  BY <1>2, <1>3 DEF RunInv, TypeOK, Postpone, ports, history
<1>6. WorklistReady'
  <2>1. \A n : InPortsSet(n, inPort)' <=> InPortsSet(n, inPort)
    BY <1>2 DEF InPortsSet, Ins
  <2> QED BY <1>1, <1>2, <1>3, <1>4, <2>1 DEF WorklistReady
<1>7. Phased'
  BY <1>1, <1>2, <1>3 DEF RunInv, Phased
<1>8. Counted'
  BY <1>2 DEF RunInv, Counted, Executed
<1> QED BY <1>5, <1>6, <1>7, <1>8 DEF RunInv

LEMMA StartModuleKeeps ==
  ASSUME RunInv, NEW m \in Modules, StartModule(m)
  PROVE  RunInv'
<1>0. /\ net \in Nets /\ finished \in Nat /\ toFinish \in Nat
      /\ status \in [Modules -> {"untouched", "checked", "executing", "ok", "error"}]
  BY Known
<1>1. /\ Tail(worklist) \in Seq(Modules) /\ IsInjective(Tail(worklist))
      /\ m \notin ToSet(Tail(worklist)) /\ m \in ToSet(net.list)
      /\ ToSet(Tail(worklist)) \subseteq ToSet(net.list)
      /\ InPortsSet(m, inPort)
      /\ \A n \in ToSet(Tail(worklist)) : InPortsSet(n, inPort)
  BY Taken DEF StartModule
<1>2. /\ net' = net /\ inPort' = inPort /\ finished' = finished
      /\ pc = "loop" /\ pc' = "exec" /\ current' = m /\ worklist' = Tail(worklist)
      /\ toFinish' = toFinish + IF status[m] = "ok" THEN 1 ELSE 0
      /\ status' = [status EXCEPT ![m] = "executing"]
      /\ m \notin net.groups
  BY DEF StartModule, Takes, ports, CountedAgain, IsGroup
<1>3. TypeOK'
  <2>1. toFinish' \in Nat
    BY <1>0, <1>2
  <2> QED BY <1>1, <1>2, <2>1 DEF RunInv, TypeOK, StartModule, ports, history
<1>4. WorklistReady'
  <2>1. \A n : InPortsSet(n, inPort)' <=> InPortsSet(n, inPort)
    BY <1>2 DEF InPortsSet, Ins
  <2> QED BY <1>1, <1>2, <2>1 DEF WorklistReady
<1>5. Phased'
  <2>1. \A n \in Modules \ net.groups : status[n] # "executing"
    BY <1>2 DEF RunInv, Phased
  <2>2. status'[m] = "executing" /\ \A n \in Modules : n # m => status'[n] = status[n]
    BY <1>0, <1>2
  <2> QED BY <1>1, <1>2, <2>1, <2>2 DEF Phased
<1>6. Counted'
  <2> DEFINE E == Executed
  <2>1. status[m] # "executing"
    BY <1>2 DEF RunInv, Phased
  <2>2. Executed' = E \cup {m}
    BY <1>0, <1>1, <1>2 DEF Executed
  <2>3. m \in E <=> status[m] = "ok"
    BY <1>1, <1>2, <2>1 DEF Executed
  <2>4. E \in SUBSET ToSet(net.list)
    BY DEF Executed
  <2>5. finished + Len(net.list) <= toFinish + Cardinality(E)
    BY <1>2 DEF RunInv, Counted
  <2> HIDE DEF E
  <2>6. IsFiniteSet(E) /\ Cardinality(E) \in Nat
    BY <1>0, <2>4, ListCounted
  <2>7. Cardinality(E \cup {m}) = IF m \in E THEN Cardinality(E) ELSE Cardinality(E) + 1
    BY <2>6, FS_AddElement
  <2>8. Len(net.list) \in Nat
    BY <1>0, NetIs
  <2>9. finished + 1 + Len(net.list) <= toFinish' + Cardinality(E \cup {m})
    BY <1>0, <1>2, <2>3, <2>5, <2>6, <2>7, <2>8
  <2> QED BY <1>2, <2>2, <2>9 DEF Counted
<1> QED BY <1>3, <1>4, <1>5, <1>6 DEF RunInv

LEMMA FinishModuleKeeps ==
  ASSUME ~ IsFiniteSet(Systems), RunInv, NEW m \in Modules, NEW used \in SUBSET Streams,
         FinishModule(m, used)
  PROVE  RunInv'
<1> DEFINE got == AfterGetData(m, used)
<1>0. /\ net \in Nets /\ finished \in Nat /\ toFinish \in Nat
      /\ status \in [Modules -> {"untouched", "checked", "executing", "ok", "error"}]
      /\ inPort \in Ports /\ outPort \in Ports /\ content \in [Systems -> SUBSET Modules]
      /\ worklist \in Seq(Modules) /\ IsInjective(worklist)
      /\ \A n \in ToSet(worklist) : InPortsSet(n, inPort)
      /\ ToSet(worklist) \subseteq ToSet(net.list)
  BY Known
<1>1. got.out \in Ports /\ got.content \in [Systems -> SUBSET Modules]
  BY <1>0, AfterGetDataIs
<1> HIDE DEF got
<1>2. /\ net' = net /\ toFinish' = toFinish
      /\ pc = "exec" /\ pc' = "loop" /\ m = current /\ current' = Root
      /\ finished' = finished + 1
      /\ status' = [status EXCEPT ![m] = "ok"]
      /\ ShiftModuleOutput(m, got.out, got.content, worklist)
  BY DEF FinishModule, got
<1>3. m \in ToSet(net.list) \ net.groups /\ m \notin ToSet(worklist) /\ status[m] = "executing"
  BY <1>2 DEF RunInv, Phased
<1>4. /\ outPort' \in Ports /\ inPort' \in Ports /\ content' \in [Systems -> SUBSET Modules]
      /\ worklist' \in Seq(Modules) /\ IsInjective(worklist')
      /\ ToSet(worklist') \subseteq ToSet(net.list)
      /\ \A n \in ToSet(worklist') : InPortsSet(n, inPort')
  BY <1>0, <1>1, <1>2, <1>3, ShiftModuleOutputIs
<1>5. TypeOK'
  <2>1. finished' \in Nat
    BY <1>0, <1>2
  <2>2. done' \subseteq Modules /\ wrote' \subseteq Modules \X Streams
    BY DEF FinishModule, RunInv, TypeOK
  <2>3. status' \in [Modules -> {"untouched", "checked", "executing", "ok", "error"}]
    BY <1>0, <1>2
  <2>4. UNCHANGED <<armed, simStatus, canceled, currentGroupDomain, runs, clean, fresh>>
    BY DEF FinishModule
  <2> QED BY <1>2, <1>4, <2>1, <2>2, <2>3, <2>4 DEF RunInv, TypeOK, Ports, Port
<1>6. WorklistReady'
  <2>1. \A n : InPortsSet(n, inPort)' <=> InPortsSet(n, inPort')
    BY <1>2 DEF InPortsSet, Ins
  <2> QED BY <1>2, <1>4, <2>1 DEF WorklistReady
<1>7. Phased'
  <2>1. \A n \in Modules \ net.groups : status[n] = "executing" => n = m
    BY <1>2 DEF RunInv, Phased
  <2>2. status'[m] = "ok" /\ \A n \in Modules : n # m => status'[n] = status[n]
    BY <1>0, <1>2
  <2> QED BY <1>2, <1>4, <2>1, <2>2 DEF Phased
<1>8. Counted'
  <2>1. Executed' = Executed
    BY <1>0, <1>2, <1>3 DEF Executed
  <2>2. finished + 1 + Len(net.list) <= toFinish + Cardinality(Executed)
    BY <1>2 DEF RunInv, Counted
  <2> QED BY <1>2, <2>1, <2>2 DEF Counted
<1> QED BY <1>5, <1>6, <1>7, <1>8 DEF RunInv

LEMMA FailModuleKeeps ==
  ASSUME ~ IsFiniteSet(Systems), RunInv, NEW m \in Modules, NEW used \in SUBSET Streams,
         FailModule(m, used)
  PROVE  RunInv'
<1> DEFINE got == AfterGetData(m, used)
<1>0. /\ net \in Nets
      /\ status \in [Modules -> {"untouched", "checked", "executing", "ok", "error"}]
      /\ inPort \in Ports /\ outPort \in Ports /\ content \in [Systems -> SUBSET Modules]
  BY Known
<1>1. got.out \in Ports /\ got.content \in [Systems -> SUBSET Modules]
  BY <1>0, AfterGetDataIs
<1> HIDE DEF got
<1>2. /\ net' = net /\ inPort' = inPort
      /\ pc = "exec" /\ pc' = "idle" /\ m = current /\ current' = Root
      /\ finished' = 0 /\ toFinish' = 0 /\ worklist' = <<>> /\ currentGroupDomain' = Root
      /\ status' = [n \in Modules |-> IF n \in {m, net.owner[m]} THEN "error" ELSE status[n]]
      /\ outPort' = got.out /\ content' = got.content /\ simStatus' = "failed"
  BY DEF FailModule, got
<1>3. ToSet(worklist') = {} /\ IsInjective(worklist')
  BY <1>2 DEF ToSet, IsInjective
<1>4. TypeOK'
  <2>1. done' \subseteq Modules /\ wrote' \subseteq Modules \X Streams
    BY DEF FailModule, RunInv, TypeOK
  <2>2. status' \in [Modules -> {"untouched", "checked", "executing", "ok", "error"}]
    BY <1>0, <1>2
  <2>3. UNCHANGED <<armed, canceled, runs, clean, fresh>>
    BY DEF FailModule
  <2> QED BY <1>0, <1>1, <1>2, <2>1, <2>2, <2>3 DEF RunInv, TypeOK, Ports, Port
<1>5. WorklistReady'
  BY <1>2, <1>3 DEF WorklistReady
<1>6. Phased'
  <2>1. \A n \in Modules \ net.groups : status[n] = "executing" => n = m
    BY <1>2 DEF RunInv, Phased
  <2>2. \A n \in Modules : status'[n] = "executing" => n # m /\ status[n] = "executing"
    BY <1>2
  <2> QED BY <1>2, <1>3, <2>1, <2>2 DEF Phased
<1>7. Counted'
  BY <1>2 DEF Counted
<1> QED BY <1>4, <1>5, <1>6, <1>7 DEF RunInv

(* What entering and finishing a group have in common. *)
LEMMA GroupKeeps ==
  ASSUME RunInv, NEW g \in Modules, Takes(g), IsGroup(g), net' = net,
         NEW st \in {"executing", "ok"}, status' = [status EXCEPT ![g] = st],
         pc' = pc, current' = current, finished' = finished, toFinish' = toFinish,
         worklist' \in Seq(Modules), IsInjective(worklist'),
         ToSet(worklist') \subseteq ToSet(net.list),
         \A n \in ToSet(worklist') : InPortsSet(n, inPort')
  PROVE  WorklistReady' /\ Phased' /\ Counted'
         /\ status' \in [Modules -> {"untouched", "checked", "executing", "ok", "error"}]
<1>0. status \in [Modules -> {"untouched", "checked", "executing", "ok", "error"}]
  BY Known
<1>1. pc = "loop" /\ current = Root
  BY DEF Takes, RunInv, Phased
<1>2. WorklistReady'
  <2>1. \A n : InPortsSet(n, inPort)' <=> InPortsSet(n, inPort')
    BY DEF InPortsSet, Ins
  <2> QED BY <1>1, <2>1 DEF WorklistReady
<1>3. \A n \in Modules \ net.groups : status'[n] = status[n]
  BY <1>0 DEF IsGroup
<1>4. Phased'
  <2>1. \A n \in Modules \ net.groups : status[n] # "executing"
    BY <1>1 DEF RunInv, Phased
  <2> QED BY <1>1, <1>3, <2>1 DEF Phased
<1>5. Counted'
  <2>1. Executed' = Executed
    <3>1. net \in Nets
      BY Known
    <3>2. ToSet(net.list) \subseteq Modules
      BY <3>1, NetIs
    <3> QED BY <1>3, <3>2 DEF Executed
  <2> QED BY <1>1, <2>1 DEF RunInv, Counted
<1> QED BY <1>0, <1>2, <1>4, <1>5

LEMMA EnterGroupKeeps ==
  ASSUME ~ IsFiniteSet(Systems), RunInv, NEW g \in Modules, EnterGroup(g)
  PROVE  RunInv'
<1> DEFINE out == [m \in Modules |-> IF m \in Members(g) THEN NoData[m] ELSE outPort[m]]
<1>0. /\ net \in Nets /\ armed \in [Modules -> BOOLEAN]
      /\ inPort \in Ports /\ outPort \in Ports /\ content \in [Systems -> SUBSET Modules]
  BY Known
<1>1. /\ Tail(worklist) \in Seq(Modules) /\ IsInjective(Tail(worklist))
      /\ g \notin ToSet(Tail(worklist))
      /\ ToSet(Tail(worklist)) \subseteq ToSet(net.list)
      /\ \A n \in ToSet(Tail(worklist)) : InPortsSet(n, inPort)
  BY Taken DEF EnterGroup
<1>2. out \in Ports
  <2>1. \A m \in Modules : NoData[m] \in Port /\ outPort[m] \in Port
    BY <1>0 DEF NoData, Ports, Port
  <2> QED BY <2>1 DEF Ports
<1>3. /\ net' = net /\ pc' = pc /\ current' = current
      /\ finished' = finished /\ toFinish' = toFinish
      /\ status' = [status EXCEPT ![g] = "executing"]
      /\ ShiftGroupInput(g, out, Tail(worklist)) /\ Takes(g) /\ IsGroup(g)
  BY DEF EnterGroup
<1> HIDE DEF out
<1>4. /\ outPort' \in Ports /\ inPort' \in Ports /\ content' \in [Systems -> SUBSET Modules]
      /\ worklist' \in Seq(Modules) /\ IsInjective(worklist')
      /\ ToSet(worklist') \subseteq ToSet(net.list)
      /\ \A n \in ToSet(worklist') : InPortsSet(n, inPort')
  BY <1>0, <1>1, <1>2, <1>3, ShiftGroupInputIs
<1>5. WorklistReady' /\ Phased' /\ Counted'
      /\ status' \in [Modules -> {"untouched", "checked", "executing", "ok", "error"}]
  BY <1>3, <1>4, GroupKeeps
<1>6. TypeOK'
  <2>1. armed' \in [Modules -> BOOLEAN]
    <3>1. \A m \in Modules : (IF m = g THEN FALSE ELSE armed[m] \/ net.owner[m] = g) \in BOOLEAN
      OBVIOUS
    <3>2. armed' = [m \in Modules |-> IF m = g THEN FALSE ELSE armed[m] \/ net.owner[m] = g]
      BY DEF EnterGroup
    <3> QED BY <3>1, <3>2
  <2>2. currentGroupDomain' = g /\ UNCHANGED <<simStatus, canceled, history>>
    BY DEF EnterGroup
  <2> QED BY <1>3, <1>4, <1>5, <2>1, <2>2 DEF RunInv, TypeOK, Ports, Port, history
<1> QED BY <1>5, <1>6 DEF RunInv

LEMMA FinishGroupKeeps ==
  ASSUME ~ IsFiniteSet(Systems), RunInv, NEW g \in Modules, FinishGroup(g)
  PROVE  RunInv'
<1>0. /\ net \in Nets
      /\ inPort \in Ports /\ outPort \in Ports /\ content \in [Systems -> SUBSET Modules]
  BY Known
<1>1. /\ Tail(worklist) \in Seq(Modules) /\ IsInjective(Tail(worklist))
      /\ g \notin ToSet(Tail(worklist))
      /\ ToSet(Tail(worklist)) \subseteq ToSet(net.list)
      /\ \A n \in ToSet(Tail(worklist)) : InPortsSet(n, inPort)
  BY Taken DEF FinishGroup
<1>2. /\ net' = net /\ pc' = pc /\ current' = current
      /\ finished' = finished /\ toFinish' = toFinish
      /\ status' = [status EXCEPT ![g] = "ok"]
      /\ ShiftModuleOutput(g, outPort, content, Tail(worklist)) /\ Takes(g) /\ IsGroup(g)
  BY DEF FinishGroup
<1>3. /\ outPort' \in Ports /\ inPort' \in Ports /\ content' \in [Systems -> SUBSET Modules]
      /\ worklist' \in Seq(Modules) /\ IsInjective(worklist')
      /\ ToSet(worklist') \subseteq ToSet(net.list)
      /\ \A n \in ToSet(worklist') : InPortsSet(n, inPort')
  BY <1>0, <1>1, <1>2, ShiftModuleOutputIs
<1>4. WorklistReady' /\ Phased' /\ Counted'
      /\ status' \in [Modules -> {"untouched", "checked", "executing", "ok", "error"}]
  BY <1>2, <1>3, GroupKeeps
<1>5. TypeOK'
  <2>1. currentGroupDomain' \in Modules \cup {Root}
    <3>1. currentGroupDomain' = net.owner[g]
      BY DEF FinishGroup
    <3> QED BY <1>0, <3>1, NetIs
  <2>2. done' = done \cup {g} /\ UNCHANGED <<armed, simStatus, canceled, runs, clean, wrote, fresh>>
    BY DEF FinishGroup
  <2> QED BY <1>2, <1>3, <1>4, <2>1, <2>2 DEF RunInv, TypeOK, Ports, Port
<1> QED BY <1>4, <1>5 DEF RunInv

(* reset, at a moment when no module executes. *)
LEMMA ResetAllIs ==
  ASSUME net \in Nets, armed \in [Modules -> BOOLEAN], ResetAll
  PROVE  /\ inPort' \in Ports /\ outPort' \in Ports /\ content' \in [Systems -> SUBSET Modules]
         /\ armed' \in [Modules -> BOOLEAN]
         /\ status' \in [Modules -> {"untouched", "checked", "executing", "ok", "error"}]
         /\ \A m \in Modules : status'[m] # "executing"
<1>1. inPort' = NoData /\ outPort' = NoData /\ content' = [y \in Systems |-> {}]
      /\ status' = Checked([m \in Modules |-> "untouched"])
      /\ armed' = [m \in Modules |-> Rearmed(m)]
  BY DEF ResetAll
<1>2. NoData \in Ports
  BY DEF NoData, Ports, Port
<1>3. armed' \in [Modules -> BOOLEAN]
  BY <1>1, RearmedIs
<1> DEFINE st == [m \in Modules |-> "untouched"]
<1>4. st \in [Modules -> {"untouched", "checked", "executing", "ok", "error"}]
      /\ \A m \in Modules : st[m] # "executing"
  OBVIOUS
<1>5. status' = Checked(st)
  BY <1>1
<1> HIDE DEF st
<1>6. /\ status' \in [Modules -> {"untouched", "checked", "executing", "ok", "error"}]
      /\ \A m \in Modules : status'[m] # "executing"
  BY <1>4, <1>5, CheckedIs
<1>7. content' \in [Systems -> SUBSET Modules]
  BY <1>1
<1> QED BY <1>1, <1>2, <1>3, <1>6, <1>7

LEMMA EndsKeep ==
  ASSUME RunInv, EndRun \/ EndCanceled \/ Reset
  PROVE  RunInv'
<1>0. /\ net \in Nets /\ armed \in [Modules -> BOOLEAN]
      /\ worklist \in Seq(Modules) /\ finished \in Nat /\ toFinish \in Nat
  BY Known
<1>1. /\ net' = net /\ pc' = "idle" /\ worklist' = <<>> /\ current' = Root
      /\ finished' = 0 /\ toFinish' \in Nat /\ currentGroupDomain' \in Modules \cup {Root}
      /\ UNCHANGED <<simStatus, canceled, runs, clean, done, wrote>>
  <2>1. CASE EndRun
    BY <2>1 DEF EndRun, history, RunInv, Phased
  <2>2. CASE EndCanceled
    BY <2>2 DEF EndCanceled, history, RunInv, Phased
  <2>3. CASE Reset
    BY <1>0, <2>3 DEF Reset, locals, history, RunInv, TypeOK, Phased, Counted
  <2> QED BY <2>1, <2>2, <2>3
<1>2. /\ inPort' \in Ports /\ outPort' \in Ports /\ content' \in [Systems -> SUBSET Modules]
      /\ armed' \in [Modules -> BOOLEAN]
      /\ status' \in [Modules -> {"untouched", "checked", "executing", "ok", "error"}]
      /\ \A m \in Modules \ net.groups : status'[m] # "executing"
  <2>1. CASE EndRun
    BY <2>1, Known DEF EndRun, ports, RunInv, Phased
  <2>2. CASE EndCanceled
    BY <1>0, <2>2, ResetAllIs DEF EndCanceled
  <2>3. CASE Reset
    BY <1>0, <2>3, ResetAllIs DEF Reset
  <2> QED BY <2>1, <2>2, <2>3
<1>3. ToSet(worklist') = {} /\ IsInjective(worklist')
  BY <1>1 DEF ToSet, IsInjective
<1>a. fresh' \in BOOLEAN
  BY DEF EndRun, EndCanceled, Reset, ResetAll, history, RunInv, TypeOK
<1>4. TypeOK'
  BY <1>0, <1>1, <1>2, <1>a DEF RunInv, TypeOK, Ports, Port
<1>5. WorklistReady'
  BY <1>1, <1>3 DEF WorklistReady
<1>6. Phased'
  BY <1>1, <1>2, <1>3 DEF Phased
<1>7. Counted'
  BY <1>1 DEF Counted
<1> QED BY <1>4, <1>5, <1>6, <1>7 DEF RunInv

LEMMA CancelKeeps ==
  ASSUME RunInv, Cancel \/ UNCHANGED vars
  PROVE  RunInv'
<1>1. /\ canceled' \in BOOLEAN
      /\ UNCHANGED <<net, status, armed, ports, simStatus, pc, locals, history>>
  BY DEF Cancel, vars, RunInv, TypeOK
<1>2. TypeOK'
  BY <1>1 DEF RunInv, TypeOK, ports, locals, history
<1>3. WorklistReady'
  BY <1>1 DEF RunInv, WorklistReady, ports, locals, InPortsSet, Ins
<1>4. Phased'
  BY <1>1 DEF RunInv, Phased, locals
<1>5. Counted'
  BY <1>1 DEF RunInv, Counted, Executed, locals
<1> QED BY <1>2, <1>3, <1>4, <1>5 DEF RunInv

LEMMA RunInvInductive == ~ IsFiniteSet(Systems) /\ RunInv /\ [Next]_vars => RunInv'
<1> SUFFICES ASSUME ~ IsFiniteSet(Systems), RunInv, [Next]_vars PROVE RunInv'
  OBVIOUS
<1>1. CASE StartRun
  BY <1>1, StartRunKeeps
<1>2. ASSUME NEW m \in Modules, Postpone(m) PROVE RunInv'
  BY <1>2, PostponeKeeps
<1>3. ASSUME NEW m \in Modules, StartModule(m) PROVE RunInv'
  BY <1>3, StartModuleKeeps
<1>4. ASSUME NEW m \in Modules, NEW used \in SUBSET Streams, FinishModule(m, used)
      PROVE  RunInv'
  BY <1>4, FinishModuleKeeps
<1>5. ASSUME NEW m \in Modules, NEW used \in SUBSET Streams, FailModule(m, used)
      PROVE  RunInv'
  BY <1>5, FailModuleKeeps
<1>6. ASSUME NEW g \in Modules, EnterGroup(g) PROVE RunInv'
  BY <1>6, EnterGroupKeeps
<1>7. ASSUME NEW g \in Modules, FinishGroup(g) PROVE RunInv'
  BY <1>7, FinishGroupKeeps
<1>8. CASE EndRun \/ EndCanceled \/ Reset
  BY <1>8, EndsKeep
<1>9. CASE Cancel \/ UNCHANGED vars
  BY <1>9, CancelKeeps
<1> QED BY <1>1, <1>2, <1>3, <1>4, <1>5, <1>6, <1>7, <1>8, <1>9 DEF Next, RunStep

-----------------------------------------------------------------------------
(* The order of a run that starts clean, in a plain network: no group is   *)
(* inside another, links stay in a group or cross its border, and each     *)
(* in-port of a group has one link.  Where groups are nested the order     *)
(* fails, see GroupDoneBeforeLeaving.                                      *)
Plain(n) ==
  /\ \A g \in n.groups : n.owner[g] = Root
  /\ \A l \in n.links : \/ n.owner[l.src] = n.owner[l.dst]
                        \/ n.owner[l.dst] = l.src
                        \/ n.owner[l.src] = l.dst
  /\ \A k, l \in n.links :
       (/\ k.dst = l.dst /\ k.in = l.in /\ k.dst \in n.groups
        /\ n.owner[k.src] # k.dst /\ n.owner[l.src] # l.dst) => k = l

Waiting == (ToSet(worklist) \cup {current}) \ {Root}
(* The data of a link has been handed on and will not be again: a module   *)
(* finishes once, and a group is entered while it is armed.                *)
Delivered(l) == IF IsIntoGroup(l) THEN ~armed[l.src] ELSE l.src \in done
(* A group that members may wait for: it was entered in this run.          *)
Live(g) ==
  /\ ~armed[g]
  /\ Ins(g) = {} \/ \E l \in IntoGroup(g) : inPort[l.dst][l.in] # NULL

(* Data on an in-port comes from the one link to it, also what a module    *)
(* that is done has consumed; nothing waits that is done; a group that is  *)
(* done gets no more data; members of a group wait only while it is the    *)
(* current domain.                                                         *)
Fed ==
  \A l \in net.links : ~IsOutOfGroup(l) =>
    /\ inPort[l.dst][l.in] # NULL => Delivered(l)
    /\ l.dst \in done => Delivered(l)
Once == \A m \in Waiting : m \notin done
GroupsShut ==
  \A g \in net.groups : g \in done =>
    /\ ~armed[g]
    /\ Outs(g) # {} => \A s \in Ins(g) : inPort[g][s] = NULL
GroupsOpen ==
  \A g \in net.groups : Live(g) =>
    \A m \in Waiting : net.owner[m] = g =>
      currentGroupDomain = g /\ status[g] = "executing" /\ g \notin done
Ordered == Fed /\ Once /\ GroupsShut /\ GroupsOpen
OrderInv == clean /\ pc # "idle" => Ordered

(* A plain network, flattened. *)
LEMMA PlainIs ==
  ASSUME net \in Nets, Plain(net)
  PROVE  /\ Root \notin Modules /\ net.groups \subseteq Modules
         /\ \A m \in Modules : net.owner[m] \in net.groups \cup {Root}
         /\ \A g \in net.groups : net.owner[g] = Root
         /\ \A l \in net.links : /\ l.src \in Modules /\ l.dst \in Modules /\ l.src # l.dst
                                 /\ l.in \in Streams /\ l.out \in Streams
         /\ \A l \in net.links : IF IsOutOfGroup(l) THEN l.in \in Outs(l.dst) ELSE l.in \in Ins(l.dst)
         /\ \A l \in net.links : \/ net.owner[l.src] = net.owner[l.dst]
                                 \/ IsIntoGroup(l) \/ IsOutOfGroup(l)
         /\ \A k, l \in net.links : (/\ k.dst = l.dst /\ k.in = l.in
                                     /\ ~IsOutOfGroup(k) /\ ~IsOutOfGroup(l)) => k = l
         /\ \A l \in net.links : IsIntoGroup(l) => l.src \in net.groups /\ ~IsOutOfGroup(l)
         /\ \A l \in net.links : IsOutOfGroup(l) => l.dst \in net.groups /\ net.owner[l.src] = l.dst
         /\ \A m \in Modules : Ins(m) \in SUBSET Streams
<1>1. IsNet(net)
  BY NetAssumption
<1>2. net.links \in SUBSET Link /\ net.owner \in [Modules -> net.groups \cup {Root}]
  BY <1>1 DEF IsNet
<1>3. Root \notin Modules /\ net.groups \subseteq Modules
  BY RunAssumption, NetIs
<1>4. \A m \in Modules : net.owner[m] \in net.groups \cup {Root}
  BY <1>2
<1>5. \A g \in net.groups : net.owner[g] = Root
  BY DEF Plain
<1>6. \A l \in net.links : /\ l.src \in Modules /\ l.dst \in Modules
                           /\ l.in \in Streams /\ l.out \in Streams
  BY <1>2 DEF Link
<1>7. \A l \in net.links : /\ l.src # l.dst
                           /\ IF IsOutOfGroup(l) THEN l.in \in Outs(l.dst) ELSE l.in \in Ins(l.dst)
  <2>1. \A l \in net.links : IsLinkingValid(net, l)
    BY <1>1 DEF IsNet
  <2> TAKE l \in net.links
  <2>2. /\ l.src # l.dst
        /\ l.in \in PortsBut(IF net.owner[l.src] = l.dst THEN "read" ELSE "write", net.views[l.dst])
    BY <2>1 DEF IsLinkingValid
  <2> QED BY <2>2 DEF IsOutOfGroup, Ins, Outs
<1>8. \A l \in net.links : \/ net.owner[l.src] = net.owner[l.dst]
                           \/ IsIntoGroup(l) \/ IsOutOfGroup(l)
  BY DEF Plain, IsIntoGroup, IsOutOfGroup
<1>9. \A k, l \in net.links : (/\ k.dst = l.dst /\ k.in = l.in
                               /\ ~IsOutOfGroup(k) /\ ~IsOutOfGroup(l)) => k = l
  <2>1. \A l \in net.links : l.dst \in net.groups
                             \/ \A k \in net.links : k.dst = l.dst /\ k.in = l.in => k = l
    BY <1>1 DEF IsNet, IsLinkingValid
  <2> QED BY <2>1 DEF Plain, IsOutOfGroup
<1>10. \A l \in net.links : IsIntoGroup(l) => l.src \in net.groups /\ ~IsOutOfGroup(l)
  BY <1>3, <1>4, <1>5, <1>6 DEF IsIntoGroup, IsOutOfGroup
<1>11. \A l \in net.links : IsOutOfGroup(l) => l.dst \in net.groups /\ net.owner[l.src] = l.dst
  BY <1>3, <1>4, <1>6 DEF IsOutOfGroup
<1>12. \A m \in Modules : Ins(m) \in SUBSET Streams
  BY InsAre
<1> QED BY <1>3, <1>4, <1>5, <1>6, <1>7, <1>8, <1>9, <1>10, <1>11, <1>12

(* What waits has all its in-ports set, so its links have delivered. *)
LEMMA WaitingIs ==
  ASSUME RunInv, Plain(net)
  PROVE  /\ Waiting \subseteq Modules
         /\ \A m \in Waiting : InPortsSet(m, inPort)
         /\ \A l \in net.links : l.dst \in Waiting /\ ~IsOutOfGroup(l) => inPort[l.dst][l.in] # NULL
<1>1. worklist \in Seq(Modules) /\ current \in Modules \cup {Root} /\ net \in Nets
  BY DEF RunInv, TypeOK
<1>2. ToSet(worklist) \subseteq Modules
  BY <1>1 DEF ToSet
<1>3. Waiting \subseteq Modules
  BY <1>1, <1>2 DEF Waiting
<1>4. \A m \in Waiting : InPortsSet(m, inPort)
  BY DEF RunInv, WorklistReady, Waiting
<1>5. \A l \in net.links : ~IsOutOfGroup(l) => l.in \in Ins(l.dst)
  BY <1>1, PlainIs
<1> QED BY <1>3, <1>4, <1>5 DEF InPortsSet

LEMMA StartRunOrders ==
  ASSUME RunInv, Plain(net), StartRun
  PROVE  OrderInv'
<1> SUFFICES ASSUME clean' PROVE Ordered'
  BY DEF OrderInv
<1>0. net \in Nets
  BY Known
<1>1. /\ net' = net /\ inPort' = NoData /\ done' = {} /\ current' = current
      /\ armed' = [m \in Modules |-> Rearmed(m)]
  BY DEF StartRun, ports
<1>2. \A l \in net.links : inPort'[l.dst][l.in] = NULL
  BY <1>0, <1>1, PlainIs DEF NoData
<1>3. Fed'
  BY <1>1, <1>2 DEF Fed
<1>4. Once' /\ GroupsShut'
  BY <1>1 DEF Once, GroupsShut
<1>5. \A g \in net.groups : ~Live(g)'
  <2> TAKE g \in net.groups
  <2>1. g \in Modules
    BY <1>0, PlainIs
  <2>2. Ins(g) = {} => armed'[g]
    BY <1>1, <2>1 DEF Rearmed, Visited
  <2>3. Ins(g)' = Ins(g) /\ IntoGroup(g)' = IntoGroup(g) /\ IntoGroup(g) \subseteq net.links
    BY <1>1 DEF Ins, IntoGroup, IsIntoGroup
  <2> QED BY <1>2, <2>2, <2>3 DEF Live
<1>6. GroupsOpen'
  BY <1>1, <1>5 DEF GroupsOpen
<1> QED BY <1>3, <1>4, <1>6 DEF Ordered

LEMMA WorklistOrders ==
  ASSUME RunInv, OrderInv, Plain(net), NEW m \in Modules, Postpone(m) \/ StartModule(m)
  PROVE  OrderInv'
<1> SUFFICES ASSUME clean' PROVE Ordered'
  BY DEF OrderInv
<1>1. /\ net' = net /\ inPort' = inPort /\ armed' = armed /\ done' = done
      /\ currentGroupDomain' = currentGroupDomain /\ clean' = clean /\ Takes(m)
  BY DEF Postpone, StartModule, ports, history
<1>2. Ordered
  BY <1>1 DEF OrderInv, Takes
<1>3. /\ worklist \in Seq(Modules) /\ IsInjective(worklist) /\ net \in Nets
      /\ status \in [Modules -> {"untouched", "checked", "executing", "ok", "error"}]
  BY Known
<1>4. /\ Tail(worklist) \in Seq(Modules) /\ IsInjective(Tail(worklist))
      /\ ToSet(worklist) = {m} \cup ToSet(Tail(worklist)) /\ current = Root
  BY <1>1, <1>3, HeadLeaves DEF Takes, RunInv, Phased
<1>5. Waiting' \subseteq Waiting /\ \A g \in net.groups : status'[g] = status[g]
  <2>1. CASE Postpone(m)
    <3> DEFINE S == {m}
    <3>1. worklist' \in UniqueInsert(Tail(worklist), S) /\ current' = Root /\ status' = status
      BY <1>4, <2>1 DEF Postpone
    <3>2. S \in SUBSET Modules
      OBVIOUS
    <3> HIDE DEF S
    <3>3. ToSet(worklist') \subseteq ToSet(Tail(worklist)) \cup S
      BY <1>4, <3>1, <3>2, UniqueInsertIs
    <3> QED BY <1>4, <3>1, <3>3 DEF Waiting, S
  <2>2. CASE StartModule(m)
    <3>1. /\ worklist' = Tail(worklist) /\ current' = m /\ m \notin net.groups
          /\ status' = [status EXCEPT ![m] = "executing"]
      BY <2>2 DEF StartModule, IsGroup
    <3>2. \A g \in net.groups : status'[g] = status[g]
      BY <1>3, <3>1, NetIs
    <3> QED BY <1>4, <3>1, <3>2 DEF Waiting
  <2> QED BY <2>1, <2>2
<1>6. Fed'
  BY <1>1, <1>2 DEF Ordered, Fed, Delivered, IsIntoGroup, IsOutOfGroup
<1>7. Once' /\ GroupsShut'
  BY <1>1, <1>2, <1>5 DEF Ordered, Once, GroupsShut, Ins, Outs
<1>8. GroupsOpen'
  <2>1. \A g : Live(g)' <=> Live(g)
    BY <1>1 DEF Live, Ins, IntoGroup, IsIntoGroup
  <2> QED BY <1>1, <1>2, <1>5, <2>1 DEF Ordered, GroupsOpen
<1> QED BY <1>6, <1>7, <1>8 DEF Ordered

(* Data that arrives on an in-port comes along the one link to it.         *)
LEMMA ArrivesBy ==
  ASSUME net \in Nets, Plain(net), NEW ls \in SUBSET net.links, NEW l \in net.links, ~IsOutOfGroup(l),
         NEW after, Comes(ls, l.dst, l.in, inPort, after), after[l.dst][l.in] # NULL
  PROVE  inPort[l.dst][l.in] # NULL \/ l \in ls
  BY PlainIs DEF Comes

LEMMA FinishModuleOrders ==
  ASSUME ~ IsFiniteSet(Systems), RunInv, OrderInv, Plain(net),
         NEW m \in Modules, NEW used \in SUBSET Streams, FinishModule(m, used)
  PROVE  OrderInv'
<1> SUFFICES ASSUME clean' PROVE Ordered'
  BY DEF OrderInv
<1> DEFINE got == AfterGetData(m, used)
<1>0. /\ net \in Nets
      /\ status \in [Modules -> {"untouched", "checked", "executing", "ok", "error"}]
      /\ inPort \in Ports /\ outPort \in Ports /\ content \in [Systems -> SUBSET Modules]
      /\ worklist \in Seq(Modules) /\ IsInjective(worklist)
      /\ \A n \in ToSet(worklist) : InPortsSet(n, inPort)
      /\ ToSet(worklist) \subseteq ToSet(net.list)
  BY Known
<1>1. got.out \in Ports /\ got.content \in [Systems -> SUBSET Modules]
  BY <1>0, AfterGetDataIs
<1> HIDE DEF got
<1>2. /\ net' = net /\ armed' = armed /\ currentGroupDomain' = currentGroupDomain /\ clean' = clean
      /\ pc = "exec" /\ m = current /\ current' = Root /\ done' = done \cup {m}
      /\ status' = [status EXCEPT ![m] = "ok"]
      /\ ShiftModuleOutput(m, got.out, got.content, worklist)
  BY DEF FinishModule, got
<1>3. m \in ToSet(net.list) \ net.groups /\ m \notin ToSet(worklist)
  BY <1>2 DEF RunInv, Phased
<1>4. /\ ToSet(worklist') \subseteq ToSet(net.list)
      /\ \A n \in ToSet(worklist') : InPortsSet(n, inPort')
      /\ \A n \in ToSet(worklist') : n \in ToSet(worklist) \/ (\E l \in Outgoing(m) : l.dst = n)
      /\ \A n \in Modules, s \in Streams : Comes(Outgoing(m), n, s, inPort, inPort')
  BY <1>0, <1>1, <1>2, <1>3, ShiftModuleOutputIs
<1>5. Ordered
  BY <1>2 DEF OrderInv
<1>6. m \in Waiting /\ m \notin done /\ ToSet(net.list) \subseteq Modules /\ Root \notin Modules
  BY <1>0, <1>2, <1>5, PlainIs, NetIs DEF Waiting, Ordered, Once
<1>7. Waiting' = ToSet(worklist') /\ ToSet(worklist) \subseteq Waiting
  BY <1>0, <1>2, <1>4, <1>6 DEF Waiting
<1>8. \A k \in Outgoing(m) : k \in net.links /\ k.src = m /\ ~IsIntoGroup(k)
  BY DEF Outgoing
<1>9. \A l \in net.links : ~IsOutOfGroup(l) /\ inPort'[l.dst][l.in] # NULL =>
        inPort[l.dst][l.in] # NULL \/ l \in Outgoing(m)
  <2> TAKE l \in net.links
  <2> HAVE ~IsOutOfGroup(l) /\ inPort'[l.dst][l.in] # NULL
  <2>1. Outgoing(m) \in SUBSET net.links
    BY <1>8
  <2>2. l.dst \in Modules /\ l.in \in Streams
    BY <1>0, PlainIs
  <2> QED BY <1>0, <1>4, <2>1, <2>2, ArrivesBy
<1>10. \A l : IsIntoGroup(l)' = IsIntoGroup(l) /\ IsOutOfGroup(l)' = IsOutOfGroup(l)
  BY <1>2 DEF IsIntoGroup, IsOutOfGroup
<1>11. \A l \in net.links : Delivered(l) => Delivered(l)'
  BY <1>2, <1>10 DEF Delivered
<1>12. \A l \in Outgoing(m) : Delivered(l)' /\ (~IsOutOfGroup(l) => l.dst \notin done)
  <2> TAKE l \in Outgoing(m)
  <2>1. Delivered(l)' /\ ~Delivered(l)
    BY <1>2, <1>6, <1>8, <1>10 DEF Delivered
  <2> QED BY <1>5, <1>8, <2>1 DEF Ordered, Fed
<1>13. Fed'
  <2> SUFFICES ASSUME NEW l \in net.links, ~IsOutOfGroup(l)
               PROVE  /\ inPort'[l.dst][l.in] # NULL => Delivered(l)'
                      /\ l.dst \in done' => Delivered(l)'
    BY <1>2, <1>10 DEF Fed
  <2>1. inPort[l.dst][l.in] # NULL => Delivered(l)'
    BY <1>5, <1>11 DEF Ordered, Fed
  <2>2. l.dst = m => inPort[l.dst][l.in] # NULL
    BY <1>6, WaitingIs
  <2>3. l.dst \in done => Delivered(l)'
    BY <1>5, <1>11 DEF Ordered, Fed
  <2> QED BY <1>2, <1>9, <1>12, <2>1, <2>2, <2>3
<1>14. \A g \in net.groups : Live(g)' => Live(g)
  <2> TAKE g \in net.groups
  <2>1. Ins(g)' = Ins(g) /\ IntoGroup(g)' = IntoGroup(g) /\ IntoGroup(g) \subseteq net.links
    BY <1>2 DEF Ins, IntoGroup, IsIntoGroup
  <2>2. \A l \in IntoGroup(g) : IsIntoGroup(l) /\ ~IsOutOfGroup(l)
    BY <1>0, <2>1, PlainIs DEF IntoGroup
  <2>3. \A l \in IntoGroup(g) : inPort'[l.dst][l.in] # NULL => inPort[l.dst][l.in] # NULL
    BY <1>8, <1>9, <2>1, <2>2
  <2> QED BY <1>2, <2>1, <2>3 DEF Live
<1>15. Once'
  <2> SUFFICES ASSUME NEW n \in ToSet(worklist') PROVE n \notin done \cup {m}
    BY <1>2, <1>7 DEF Once
  <2>1. CASE n \in ToSet(worklist)
    BY <1>3, <1>5, <1>7, <2>1 DEF Ordered, Once
  <2>2. ASSUME NEW k \in Outgoing(m), k.dst = n PROVE n \notin done \cup {m}
    <3>1. n # m /\ k \in net.links /\ k.src = m /\ k.in \in Streams /\ n \in Modules
      BY <1>0, <1>8, <2>2, PlainIs
    <3>2. CASE ~IsOutOfGroup(k)
      BY <1>12, <2>2, <3>1, <3>2
    <3>3. CASE IsOutOfGroup(k)
      <4>1. n \in net.groups /\ net.owner[m] = n /\ k.in \in Outs(n) /\ Ins(n) \subseteq Streams
        BY <1>0, <2>2, <3>1, <3>3, PlainIs
      <4>2. SUFFICES ASSUME n \in done PROVE FALSE
        BY <3>1
      <4>3. ~armed[n] /\ \A s \in Ins(n) : inPort[n][s] = NULL
        BY <1>5, <4>1, <4>2 DEF Ordered, GroupsShut
      <4>4. CASE Ins(n) = {}
        BY <1>5, <1>6, <4>1, <4>2, <4>3, <4>4 DEF Live, Ordered, GroupsOpen
      <4>5. ASSUME NEW s \in Ins(n) PROVE FALSE
        <5>1. inPort'[n][s] # NULL
          <6>1. InPortsSet(n, inPort')
            BY <1>4
          <6> QED BY <6>1 DEF InPortsSet
        <5>2. Comes(Outgoing(m), n, s, inPort, inPort') /\ inPort[n][s] = NULL
          BY <1>4, <3>1, <4>1, <4>3
        <5>3. PICK l \in Outgoing(m) : l.dst = n /\ ~IsOutOfGroup(l)
          BY <5>1, <5>2 DEF Comes
        <5> QED BY <1>8, <4>1, <5>3 DEF IsOutOfGroup
      <4> QED BY <4>4, <4>5
    <3> QED BY <3>2, <3>3
  <2> QED BY <1>4, <2>1, <2>2
<1>16. GroupsShut'
  <2> SUFFICES ASSUME NEW g \in net.groups, g \in done', Outs(g) # {}
               PROVE  ~armed[g] /\ \A s \in Ins(g) : inPort'[g][s] = NULL
    BY <1>2, <1>5, <1>3 DEF GroupsShut, Ordered, Ins, Outs
  <2>1. g \in done /\ g \in Modules /\ Ins(g) \subseteq Streams
    BY <1>0, <1>2, <1>3, PlainIs
  <2>2. ~armed[g] /\ \A s \in Ins(g) : inPort[g][s] = NULL
    BY <1>5, <2>1 DEF Ordered, GroupsShut
  <2>3. ASSUME NEW s \in Ins(g), inPort'[g][s] # NULL PROVE FALSE
    <3>1. Comes(Outgoing(m), g, s, inPort, inPort')
      BY <1>4, <2>1
    <3>2. PICK l \in Outgoing(m) : l.dst = g /\ ~IsOutOfGroup(l)
      BY <2>2, <2>3, <3>1 DEF Comes
    <3> QED BY <1>12, <2>1, <3>2
  <2> QED BY <2>2, <2>3
<1>17. GroupsOpen'
  <2> SUFFICES ASSUME NEW g \in net.groups, Live(g), NEW n \in ToSet(worklist'), net.owner[n] = g
               PROVE  currentGroupDomain = g /\ status'[g] = "executing" /\ g \notin done \cup {m}
    BY <1>2, <1>7, <1>14 DEF GroupsOpen
  <2>1. \E x \in Waiting : net.owner[x] = g
    <3>1. CASE n \in ToSet(worklist)
      BY <1>7, <3>1
    <3>2. ASSUME NEW k \in Outgoing(m), k.dst = n PROVE net.owner[m] = g
      <4>1. k \in net.links /\ k.src = m /\ ~IsIntoGroup(k)
        BY <1>8
      <4>2. IsOutOfGroup(k) => n \in net.groups
        BY <1>0, <3>2, <4>1, PlainIs
      <4>3. n \notin net.groups /\ g \in Modules
        BY <1>0, <1>6, PlainIs
      <4> QED BY <1>0, <3>2, <4>1, <4>2, <4>3, PlainIs
    <3> QED BY <1>4, <1>6, <3>1, <3>2
  <2>2. currentGroupDomain = g /\ status[g] = "executing" /\ g \notin done
    BY <1>5, <2>1 DEF Ordered, GroupsOpen
  <2>3. g # m /\ g \in Modules
    BY <1>0, <1>3, PlainIs
  <2> QED BY <1>0, <1>2, <2>2, <2>3
<1> QED BY <1>13, <1>15, <1>16, <1>17 DEF Ordered

(* A group is taken only when no member of another live group waits.       *)
LEMMA TakenAlone ==
  ASSUME RunInv, Ordered, Plain(net), NEW g \in net.groups, Takes(g), ~MustWait(g, Tail(worklist)),
         NEW h \in net.groups, Live(h), NEW n \in ToSet(Tail(worklist)), net.owner[n] = h
  PROVE  FALSE
<1>0. net \in Nets /\ g \in Modules
  BY Known, PlainIs
<1>1. ToSet(Tail(worklist)) \subseteq ToSet(worklist)
  BY <1>0, Taken
<1>2. n \in Waiting
  <2>1. ToSet(worklist) \subseteq Modules /\ Root \notin Modules
    BY <1>0, Known, NetIs, PlainIs
  <2> QED BY <1>1, <2>1 DEF Waiting
<1>3. currentGroupDomain = h
  BY <1>2 DEF Ordered, GroupsOpen
<1>4. net.owner[g] # h
  BY <1>0, PlainIs
<1> QED BY <1>3, <1>4 DEF MustWait

LEMMA EnterGroupOrders ==
  ASSUME ~ IsFiniteSet(Systems), RunInv, OrderInv, Plain(net), NEW g \in Modules, EnterGroup(g)
  PROVE  OrderInv'
<1> SUFFICES ASSUME clean' PROVE Ordered'
  BY DEF OrderInv
<1> DEFINE out == [m \in Modules |-> IF m \in Members(g) THEN NoData[m] ELSE outPort[m]]
           rest == Tail(worklist)
<1>0. /\ net \in Nets /\ armed \in [Modules -> BOOLEAN]
      /\ status \in [Modules -> {"untouched", "checked", "executing", "ok", "error"}]
      /\ inPort \in Ports /\ outPort \in Ports /\ content \in [Systems -> SUBSET Modules]
      /\ ToSet(worklist) \subseteq ToSet(net.list)
  BY Known
<1>1. /\ rest \in Seq(Modules) /\ IsInjective(rest)
      /\ g \notin ToSet(rest)
      /\ ToSet(rest) \subseteq ToSet(worklist)
      /\ ToSet(rest) \subseteq ToSet(net.list)
      /\ \A n \in ToSet(rest) : InPortsSet(n, inPort)
  BY Taken DEF EnterGroup
<1>2. out \in Ports
  <2>1. \A m \in Modules : NoData[m] \in Port /\ outPort[m] \in Port
    BY <1>0 DEF NoData, Ports, Port
  <2> QED BY <2>1 DEF Ports
<1>3. /\ net' = net /\ pc = "loop" /\ current' = current /\ done' = done /\ clean' = clean
      /\ armed[g] /\ currentGroupDomain' = g
      /\ armed' = [m \in Modules |-> IF m = g THEN FALSE ELSE armed[m] \/ net.owner[m] = g]
      /\ status' = [status EXCEPT ![g] = "executing"]
      /\ ShiftGroupInput(g, out, rest) /\ Takes(g) /\ ~MustWait(g, rest) /\ g \in net.groups
      /\ worklist # <<>> /\ g = Head(worklist)
  BY DEF EnterGroup, history, Takes, IsGroup
<1> HIDE DEF out, rest
<1>4. /\ ToSet(worklist') \subseteq ToSet(net.list)
      /\ \A n \in ToSet(worklist') : n \in ToSet(rest) \/ (\E l \in IntoGroup(g) : l.dst = n)
      /\ \A n \in Modules, s \in Streams : Comes(IntoGroup(g), n, s, inPort, inPort')
  BY <1>0, <1>1, <1>2, <1>3, ShiftGroupInputIs
<1>5. Ordered /\ current = Root
  BY <1>3 DEF OrderInv, RunInv, Phased
<1>6. g \in Waiting /\ g \notin done /\ ToSet(net.list) \subseteq Modules /\ Root \notin Modules
  <2>1. g \in ToSet(worklist)
    BY <1>3, Known, HeadLeaves
  <2>2. g \in Waiting
    BY <1>0, <2>1, PlainIs DEF Waiting
  <2> QED BY <1>0, <1>5, <2>2, PlainIs, NetIs DEF Ordered, Once
<1>7. Waiting' = ToSet(worklist') /\ ToSet(rest) \subseteq Waiting
  BY <1>0, <1>1, <1>3, <1>4, <1>5, <1>6 DEF Waiting
<1>8. \A k \in IntoGroup(g) : /\ k \in net.links /\ k.src = g /\ IsIntoGroup(k) /\ ~IsOutOfGroup(k)
                              /\ net.owner[k.dst] = g
  BY <1>0, PlainIs DEF IntoGroup, IsIntoGroup
<1>9. \A l \in net.links : ~IsOutOfGroup(l) /\ inPort'[l.dst][l.in] # NULL =>
        inPort[l.dst][l.in] # NULL \/ l \in IntoGroup(g)
  <2> TAKE l \in net.links
  <2> HAVE ~IsOutOfGroup(l) /\ inPort'[l.dst][l.in] # NULL
  <2>1. IntoGroup(g) \in SUBSET net.links
    BY <1>8
  <2>2. l.dst \in Modules /\ l.in \in Streams
    BY <1>0, PlainIs
  <2> QED BY <1>0, <1>4, <2>1, <2>2, ArrivesBy
<1>10. \A l : IsIntoGroup(l)' = IsIntoGroup(l) /\ IsOutOfGroup(l)' = IsOutOfGroup(l)
  BY <1>3 DEF IsIntoGroup, IsOutOfGroup
<1>a. ~armed'[g] /\ \A h \in net.groups : h # g => armed'[h] = armed[h]
  <2>1. \A h \in net.groups : h \in Modules /\ net.owner[h] # g
    BY <1>0, PlainIs
  <2>2. \A h \in net.groups : armed[h] \in BOOLEAN
    BY <1>0, <2>1
  <2> QED BY <1>3, <2>1, <2>2
<1>11. \A l \in net.links : Delivered(l) => Delivered(l)'
  <2> TAKE l \in net.links
  <2>1. IsIntoGroup(l) => l.src \in net.groups
    BY <1>0, PlainIs
  <2> QED BY <1>3, <1>10, <1>a, <2>1 DEF Delivered
<1>12. \A l \in IntoGroup(g) : Delivered(l)' /\ l.dst \notin done
  <2> TAKE l \in IntoGroup(g)
  <2>1. Delivered(l)' /\ ~Delivered(l)
    BY <1>3, <1>8, <1>10, <1>a DEF Delivered
  <2> QED BY <1>5, <1>8, <2>1 DEF Ordered, Fed
<1>13. Fed'
  BY <1>3, <1>5, <1>9, <1>10, <1>11, <1>12 DEF Fed, Ordered
<1>14. \A h \in net.groups : h # g /\ Live(h)' => Live(h)
  <2> TAKE h \in net.groups
  <2>1. Ins(h)' = Ins(h) /\ IntoGroup(h)' = IntoGroup(h) /\ IntoGroup(h) \subseteq net.links
    BY <1>3 DEF Ins, IntoGroup, IsIntoGroup
  <2>2. \A l \in IntoGroup(h) : l.src = h /\ IsIntoGroup(l) /\ ~IsOutOfGroup(l)
    BY <1>0, <2>1, PlainIs DEF IntoGroup
  <2>3. h # g => \A l \in IntoGroup(h) : inPort'[l.dst][l.in] # NULL => inPort[l.dst][l.in] # NULL
    BY <1>8, <1>9, <2>1, <2>2
  <2> QED BY <1>a, <2>1, <2>3 DEF Live
<1>15. Once'
  BY <1>3, <1>4, <1>5, <1>7, <1>12 DEF Once, Ordered
<1>16. GroupsShut'
  <2> SUFFICES ASSUME NEW h \in net.groups, h \in done
               PROVE  /\ ~armed'[h]
                      /\ Outs(h) # {} => \A s \in Ins(h) : inPort'[h][s] = NULL
    BY <1>3 DEF GroupsShut, Ins, Outs
  <2>1. h # g /\ h \in Modules /\ Ins(h) \subseteq Streams /\ net.owner[h] # g
    BY <1>0, <1>6, PlainIs
  <2>2. ~armed[h] /\ (Outs(h) # {} => \A s \in Ins(h) : inPort[h][s] = NULL)
    BY <1>5 DEF Ordered, GroupsShut
  <2>3. \A s \in Ins(h) : inPort[h][s] = NULL => inPort'[h][s] = NULL
    BY <1>4, <1>8, <2>1 DEF Comes
  <2> QED BY <1>a, <2>1, <2>2, <2>3
<1>17. GroupsOpen'
  <2> SUFFICES ASSUME NEW h \in net.groups, Live(h)', NEW n \in ToSet(worklist'), net.owner[n] = h
               PROVE  currentGroupDomain' = h /\ status'[h] = "executing" /\ h \notin done
    BY <1>3, <1>7 DEF GroupsOpen
  <2>1. CASE h = g
    BY <1>0, <1>3, <1>6, <2>1
  <2>2. ASSUME h # g PROVE FALSE
    <3>1. n \in ToSet(rest) /\ Live(h)
      BY <1>4, <1>8, <1>14, <2>2
    <3> QED BY <1>3, <1>5, <3>1, TakenAlone DEF rest
  <2> QED BY <2>1, <2>2
<1> QED BY <1>13, <1>15, <1>16, <1>17 DEF Ordered

LEMMA FinishGroupOrders ==
  ASSUME ~ IsFiniteSet(Systems), RunInv, OrderInv, Plain(net), NEW g \in Modules, FinishGroup(g)
  PROVE  OrderInv'
<1> SUFFICES ASSUME clean' PROVE Ordered'
  BY DEF OrderInv
<1> DEFINE rest == Tail(worklist)
<1>0. /\ net \in Nets
      /\ status \in [Modules -> {"untouched", "checked", "executing", "ok", "error"}]
      /\ inPort \in Ports /\ outPort \in Ports /\ content \in [Systems -> SUBSET Modules]
      /\ ToSet(worklist) \subseteq ToSet(net.list)
  BY Known
<1>1. /\ rest \in Seq(Modules) /\ IsInjective(rest)
      /\ g \notin ToSet(rest)
      /\ ToSet(rest) \subseteq ToSet(worklist)
      /\ ToSet(rest) \subseteq ToSet(net.list)
      /\ \A n \in ToSet(rest) : InPortsSet(n, inPort)
  BY Taken DEF FinishGroup
<1>3. /\ net' = net /\ pc = "loop" /\ current' = current /\ done' = done \cup {g} /\ clean' = clean
      /\ ~armed[g] /\ armed' = armed
      /\ status' = [status EXCEPT ![g] = "ok"]
      /\ ShiftModuleOutput(g, outPort, content, rest) /\ Takes(g) /\ ~MustWait(g, rest)
      /\ g \in net.groups /\ worklist # <<>> /\ g = Head(worklist)
  BY DEF FinishGroup, Takes, IsGroup
<1> HIDE DEF rest
<1>4. /\ ToSet(worklist') \subseteq ToSet(net.list)
      /\ \A n \in ToSet(worklist') : n \in ToSet(rest) \/ (\E l \in Outgoing(g) : l.dst = n)
      /\ \A n \in Modules, s \in Streams : Comes(Outgoing(g), n, s, inPort, inPort')
      /\ \A s \in Streams : KeepsInPorts(g) \/ inPort'[g][s] = NULL
  BY <1>0, <1>1, <1>3, ShiftModuleOutputIs
<1>5. Ordered /\ current = Root
  BY <1>3 DEF OrderInv, RunInv, Phased
<1>6. g \in Waiting /\ g \notin done /\ ToSet(net.list) \subseteq Modules /\ Root \notin Modules
  <2>1. g \in ToSet(worklist)
    BY <1>3, Known, HeadLeaves
  <2>2. g \in Waiting
    BY <1>0, <2>1, PlainIs DEF Waiting
  <2> QED BY <1>0, <1>5, <2>2, PlainIs, NetIs DEF Ordered, Once
<1>7. Waiting' = ToSet(worklist') /\ ToSet(rest) \subseteq Waiting
  BY <1>0, <1>1, <1>3, <1>4, <1>5, <1>6 DEF Waiting
<1>8. \A k \in Outgoing(g) : /\ k \in net.links /\ k.src = g /\ ~IsIntoGroup(k) /\ ~IsOutOfGroup(k)
                             /\ net.owner[k.dst] = Root
  <2> TAKE k \in Outgoing(g)
  <2>1. k \in net.links /\ k.src = g /\ ~IsIntoGroup(k)
    BY DEF Outgoing
  <2>2. ~IsOutOfGroup(k)
    BY <1>0, <1>3, <2>1, PlainIs
  <2> QED BY <1>0, <1>3, <2>1, <2>2, PlainIs
<1>9. \A l \in net.links : ~IsOutOfGroup(l) /\ inPort'[l.dst][l.in] # NULL =>
        inPort[l.dst][l.in] # NULL \/ l \in Outgoing(g)
  <2> TAKE l \in net.links
  <2> HAVE ~IsOutOfGroup(l) /\ inPort'[l.dst][l.in] # NULL
  <2>1. Outgoing(g) \in SUBSET net.links
    BY <1>8
  <2>2. l.dst \in Modules /\ l.in \in Streams
    BY <1>0, PlainIs
  <2> QED BY <1>0, <1>4, <2>1, <2>2, ArrivesBy
<1>10. \A l : IsIntoGroup(l)' = IsIntoGroup(l) /\ IsOutOfGroup(l)' = IsOutOfGroup(l)
  BY <1>3 DEF IsIntoGroup, IsOutOfGroup
<1>11. \A l \in net.links : Delivered(l) => Delivered(l)'
  BY <1>3, <1>10 DEF Delivered
<1>12. \A l \in Outgoing(g) : Delivered(l)' /\ l.dst \notin done
  <2> TAKE l \in Outgoing(g)
  <2>1. Delivered(l)' /\ ~Delivered(l)
    BY <1>3, <1>6, <1>8, <1>10 DEF Delivered
  <2> QED BY <1>5, <1>8, <2>1 DEF Ordered, Fed
<1>13. Fed'
  <2> SUFFICES ASSUME NEW l \in net.links, ~IsOutOfGroup(l)
               PROVE  /\ inPort'[l.dst][l.in] # NULL => Delivered(l)'
                      /\ l.dst \in done' => Delivered(l)'
    BY <1>3, <1>10 DEF Fed
  <2>1. inPort[l.dst][l.in] # NULL => Delivered(l)'
    BY <1>5, <1>11 DEF Ordered, Fed
  <2>2. l.dst = g => inPort[l.dst][l.in] # NULL
    BY <1>6, WaitingIs
  <2>3. l.dst \in done => Delivered(l)'
    BY <1>5, <1>11 DEF Ordered, Fed
  <2> QED BY <1>3, <1>9, <1>12, <2>1, <2>2, <2>3
<1>14. \A h \in net.groups : Live(h)' => Live(h)
  <2> TAKE h \in net.groups
  <2>1. Ins(h)' = Ins(h) /\ IntoGroup(h)' = IntoGroup(h) /\ IntoGroup(h) \subseteq net.links
    BY <1>3 DEF Ins, IntoGroup, IsIntoGroup
  <2>2. \A l \in IntoGroup(h) : IsIntoGroup(l) /\ ~IsOutOfGroup(l)
    BY <1>0, <2>1, PlainIs DEF IntoGroup
  <2>3. \A l \in IntoGroup(h) : inPort'[l.dst][l.in] # NULL => inPort[l.dst][l.in] # NULL
    BY <1>8, <1>9, <2>1, <2>2
  <2> QED BY <1>3, <2>1, <2>3 DEF Live
<1>15. Once'
  <2>1. \A l \in Outgoing(g) : l.dst # g
    BY <1>0, <1>8, PlainIs
  <2> QED BY <1>1, <1>3, <1>4, <1>5, <1>7, <1>12, <2>1 DEF Once, Ordered
<1>16. GroupsShut'
  <2> SUFFICES ASSUME NEW h \in net.groups, h \in done \cup {g}
               PROVE  /\ ~armed[h]
                      /\ Outs(h) # {} => \A s \in Ins(h) : inPort'[h][s] = NULL
    BY <1>3 DEF GroupsShut, Ins, Outs
  <2>1. h \in Modules /\ Ins(h) \subseteq Streams
    BY <1>0, PlainIs
  <2>2. CASE h = g
    BY <1>3, <1>4, <2>1, <2>2 DEF KeepsInPorts
  <2>3. CASE h # g
    <3>1. ~armed[h] /\ (Outs(h) # {} => \A s \in Ins(h) : inPort[h][s] = NULL) /\ h \in done
      BY <1>5, <2>3 DEF Ordered, GroupsShut
    <3>2. \A s \in Ins(h) : inPort[h][s] = NULL => inPort'[h][s] = NULL
      BY <1>4, <1>12, <2>1, <3>1 DEF Comes
    <3> QED BY <3>1, <3>2
  <2> QED BY <2>2, <2>3
<1>17. GroupsOpen'
  <2> SUFFICES ASSUME NEW h \in net.groups, Live(h)', NEW n \in ToSet(worklist'), net.owner[n] = h
               PROVE  FALSE
    BY <1>3, <1>7 DEF GroupsOpen
  <2>1. h # Root
    BY <1>0, PlainIs
  <2>2. n \in ToSet(rest) /\ Live(h)
    BY <1>4, <1>8, <1>14, <2>1
  <2> QED BY <1>3, <1>5, <2>2, TakenAlone DEF rest
<1> QED BY <1>13, <1>15, <1>16, <1>17 DEF Ordered

LEMMA OrderInductive ==
  ~ IsFiniteSet(Systems) /\ Plain(net) /\ RunInv /\ OrderInv /\ [Next]_vars => OrderInv'
<1> SUFFICES ASSUME ~ IsFiniteSet(Systems), Plain(net), RunInv, OrderInv, [Next]_vars
             PROVE  OrderInv'
  OBVIOUS
<1>1. CASE StartRun
  BY <1>1, StartRunOrders
<1>2. ASSUME NEW m \in Modules, Postpone(m) \/ StartModule(m) PROVE OrderInv'
  BY <1>2, WorklistOrders
<1>3. ASSUME NEW m \in Modules, NEW used \in SUBSET Streams, FinishModule(m, used)
      PROVE  OrderInv'
  BY <1>3, FinishModuleOrders
<1>4. ASSUME NEW g \in Modules, EnterGroup(g) PROVE OrderInv'
  BY <1>4, EnterGroupOrders
<1>5. ASSUME NEW g \in Modules, FinishGroup(g) PROVE OrderInv'
  BY <1>5, FinishGroupOrders
<1>6. ASSUME NEW m \in Modules, NEW used \in SUBSET Streams, FailModule(m, used)
      PROVE  OrderInv'
  BY <1>6 DEF FailModule, OrderInv
<1>7. CASE EndRun \/ EndCanceled \/ Reset
  BY <1>7 DEF EndRun, EndCanceled, Reset, locals, OrderInv
<1>8. CASE Cancel \/ UNCHANGED vars
  <2>1. UNCHANGED <<net, status, armed, ports, pc, locals, history>>
    BY <1>8 DEF Cancel, vars
  <2>2. OrderInv' <=> OrderInv
    BY <2>1 DEF OrderInv, Ordered, Fed, Once, GroupsShut, GroupsOpen, Waiting, Delivered, Live,
                IsIntoGroup, IsOutOfGroup, IntoGroup, Ins, Outs, ports, locals, history
  <2> QED BY <2>2
<1> QED BY <1>1, <1>2, <1>3, <1>4, <1>5, <1>6, <1>7, <1>8 DEF Next, RunStep

-----------------------------------------------------------------------------
(* That every module runs: links that stay in a group, or outside of all,  *)
(* lead forward, also those between groups, and a member has in-ports.     *)
(* Otherwise a group may wait for what it feeds, and a member may be done  *)
(* before its group is entered, which then is not entered again for it.    *)
Forward(n) ==
  /\ \E rank \in [Modules -> Nat] :
       \A l \in n.links : n.owner[l.src] = n.owner[l.dst] => rank[l.src] < rank[l.dst]
  /\ \A m \in ToSet(n.list) : n.owner[m] # Root => PortsBut("write", n.views[m]) # {}

Arrived(l) == l.dst \in done \/ Lands(l, inPort, outPort)

(* What has been handed on is there until the module that it is for is     *)
(* done; whoever has all it waits for waits in the worklist, a group that  *)
(* was entered too, once a member has fed its out-ports; no member is done *)
(* before its group was entered, nor waits while another domain is active. *)
Sent == \A l \in net.links : Delivered(l) => Arrived(l)
ReadyWaits ==
  \A m \in ToSet(net.list) :
    InPortsSet(m, inPort) /\ m \notin done /\ (IsGroup(m) => armed[m]) => m \in Waiting
LeavesNext ==
  \A l \in net.links :
    IsOutOfGroup(l) /\ l.src \in done /\ l.dst \notin done => l.dst \in Waiting
KeptInside == \A g \in net.groups : ~armed[g] /\ g \notin done => InPortsSet(g, inPort)
EnteredFirst == \A m \in done : net.owner[m] # Root => ~armed[net.owner[m]]
MembersFirst == \A m \in Waiting : net.owner[m] # Root => currentGroupDomain = net.owner[m]
Recorded == \A w \in wrote : w[1] \in done
Progressing ==
  Sent /\ ReadyWaits /\ LeavesNext /\ KeptInside /\ EnteredFirst /\ MembersFirst /\ Recorded
ProgressInv == clean /\ pc # "idle" /\ WellFormed /\ AllWritten => Progressing

(* Views are only where a link leads. *)
LinkedTo == {<<IF IsOutOfGroup(l) THEN "out" ELSE "in", l.dst, l.in>> : l \in net.links}

LEMMA ViewsLinked == ASSUME net \in Nets PROVE StreamViews \subseteq LinkedTo
<1> DEFINE N == Cardinality(net.links)
           grow(seen) == seen \cup {<<IF IsOutOfGroup(l) THEN "out" ELSE "in", l.dst, l.in>> :
                                    l \in {k \in net.links : Carries(seen, k)}}
           S == [n \in 0..N |-> SUBSET LinkedTo]
           step == [n \in 1..N |-> [x \in SUBSET LinkedTo |-> grow(x)]]
           none == {}
<1>1. N \in Nat
  <2>1. net.links \in SUBSET Link
    BY NetAssumption DEF IsNet
  <2> QED BY <2>1, LinksFinite, FS_Subset, FS_CardinalityType
<1>2. \A x \in SUBSET LinkedTo : grow(x) \in SUBSET LinkedTo
  BY DEF LinkedTo
<1>3. /\ \A n \in 1..N : \A x \in SUBSET LinkedTo : step[n][x] = grow(x)
      /\ \A n \in 0..N : S[n] = SUBSET LinkedTo
      /\ none \in SUBSET LinkedTo
  OBVIOUS
<1>4. Views = CHOOSE f : f = [n \in 0..N |-> IF n = 0 THEN none ELSE grow(f[n - 1])]
  BY DEF Views
<1>5. StreamViews = Views[N]
  BY DEF StreamViews
<1> HIDE DEF N, grow, S, step, none
<1>6. /\ none \in S[0] /\ \A n \in 1..N : n - 1 \in 0..N /\ n \in 0..N
      /\ \A n \in 1..N : \A x \in S[n - 1] : step[n][x] \in S[n]
  <2>1. 0 \in 0..N /\ \A n \in 1..N : n - 1 \in 0..N /\ n \in 0..N
    BY <1>1
  <2> QED BY <1>2, <1>3, <2>1
<1>7. PICK f : Loop(f, N, none, step) /\ \A n \in 0..N : f[n] \in S[n]
  BY <1>1, <1>6, Recursion
<1>8. f = [n \in 0..N |-> IF n = 0 THEN none ELSE grow(f[n - 1])]
  <2>1. ASSUME NEW n \in 0..N
        PROVE  (IF n = 0 THEN none ELSE step[n][f[n - 1]]) = (IF n = 0 THEN none ELSE grow(f[n - 1]))
    <3>1. CASE n # 0
      <4>1. n \in 1..N /\ n - 1 \in 0..N
        BY <1>1, <3>1
      <4>2. f[n - 1] \in SUBSET LinkedTo
        BY <1>3, <1>7, <4>1
      <4> QED BY <1>3, <4>1, <4>2
    <3> QED BY <3>1
  <2> QED BY <1>7, <2>1 DEF Loop
<1>9. Views = [n \in 0..N |-> IF n = 0 THEN none ELSE grow(Views[n - 1])]
  BY <1>4, <1>8
<1>10. \A n \in 0..N : Views[n] \in S[n]
  <2>1. Views[0] \in S[0]
    BY <1>1, <1>6, <1>9
  <2>2. \A n \in 1..N : Views[n - 1] \in S[n - 1] => Views[n] \in S[n]
    <3> TAKE n \in 1..N
    <3>1. Views[n] = grow(Views[n - 1])
      BY <1>1, <1>6, <1>9
    <3> QED BY <1>2, <1>3, <1>6, <3>1
  <2> DEFINE V == Views
  <2> HIDE DEF V
  <2>3. V[0] \in S[0] /\ \A n \in 1..N : V[n - 1] \in S[n - 1] => V[n] \in S[n]
    BY <2>1, <2>2 DEF V
  <2>4. \A n \in 0..N : V[n] \in S[n]
    BY <1>1, <2>3, Induction
  <2> QED BY <2>4 DEF V
<1> QED BY <1>1, <1>3, <1>5, <1>10

(* A well formed network, by its links. *)
LEMMA WellFormedIs ==
  ASSUME net \in Nets, WellFormed
  PROVE  /\ \A m \in ToSet(net.list) :
              /\ Visited(m)
              /\ \A s \in Ins(m) : \E l \in net.links : ~IsOutOfGroup(l) /\ l.dst = m /\ l.in = s
         /\ \A g \in net.groups :
              /\ g \in ToSet(net.list)
              /\ \A s \in Outs(g) : \E l \in net.links : IsOutOfGroup(l) /\ l.dst = g /\ l.in = s
              /\ \A s \in Ins(g) : \E l \in IntoGroup(g) : l.out = s
<1>1. \A p \in StreamViews : \E l \in net.links :
        p = <<IF IsOutOfGroup(l) THEN "out" ELSE "in", l.dst, l.in>>
  BY ViewsLinked DEF LinkedTo
<1>2. \A m \in ToSet(net.list) : \A s \in Ins(m) : <<"in", m, s>> \in StreamViews
  BY DEF WellFormed, Passes
<1>3. \A m \in ToSet(net.list) : Visited(m)
  BY <1>2 DEF Visited
<1>4. ASSUME NEW m \in ToSet(net.list), NEW s \in Ins(m)
      PROVE  \E l \in net.links : ~IsOutOfGroup(l) /\ l.dst = m /\ l.in = s
  <2>1. PICK l \in net.links : <<"in", m, s>> = <<IF IsOutOfGroup(l) THEN "out" ELSE "in", l.dst, l.in>>
    BY <1>1, <1>2
  <2> QED BY <2>1
<1>5. ASSUME NEW g \in net.groups, NEW s \in Outs(g)
      PROVE  \E l \in net.links : IsOutOfGroup(l) /\ l.dst = g /\ l.in = s
  <2>1. <<"out", g, s>> \in StreamViews
    BY DEF WellFormed
  <2>2. PICK l \in net.links : <<"out", g, s>> = <<IF IsOutOfGroup(l) THEN "out" ELSE "in", l.dst, l.in>>
    BY <1>1, <2>1
  <2> QED BY <2>2
<1>6. net.groups \subseteq ToSet(net.list)
  BY NetAssumption DEF IsNet
<1> QED BY <1>3, <1>4, <1>5, <1>6 DEF WellFormed

LEMMA WellFormedStays == net' = net => (WellFormed' <=> WellFormed)
  BY DEF WellFormed, StreamViews, Views, Carries, Passes, Ins, Outs, PortsBut, IntoGroup,
         IsIntoGroup, IsOutOfGroup, IsGroup

(* The ends of a link, and the in-ports of a member. *)
LEMMA LinkIs ==
  ASSUME net \in Nets, Plain(net)
  PROVE  /\ \A l \in net.links : /\ l.src \in ToSet(net.list) /\ l.dst \in ToSet(net.list)
                                 /\ IF IsIntoGroup(l) THEN l.out \in Ins(l.src) ELSE l.out \in Outs(l.src)
         /\ \A l \in net.links : IsOutOfGroup(l) => ~IsIntoGroup(l)
<1>1. \A l \in net.links : IsLinkingValid(net, l) /\ {l.src, l.dst} \subseteq ToSet(net.list)
  BY NetAssumption DEF IsNet
<1>2. ASSUME NEW l \in net.links
      PROVE  IF IsIntoGroup(l) THEN l.out \in Ins(l.src) ELSE l.out \in Outs(l.src)
  <2>1. l.out \in PortsBut(IF net.owner[l.dst] = l.src THEN "write" ELSE "read", net.views[l.src])
    BY <1>1 DEF IsLinkingValid
  <2> QED BY <2>1 DEF IsIntoGroup, Ins, Outs
<1>3. \A l \in net.links : IsIntoGroup(l) => ~IsOutOfGroup(l)
  BY PlainIs
<1> QED BY <1>1, <1>2, <1>3

LEMMA MembersHaveIns ==
  ASSUME net \in Nets, Forward(net), NEW m \in ToSet(net.list), net.owner[m] # Root
  PROVE  Ins(m) # {}
  BY DEF Forward, Ins

(* When no member of an entered group waits, all are done: of those that   *)
(* are not, one without another before it would have all it waits for.     *)
LEMMA MembersDone ==
  ASSUME RunInv, Plain(net), Forward(net), WellFormed, Progressing,
         NEW g \in net.groups, ~armed[g], \A m \in Members(g) : m \notin Waiting
  PROVE  Members(g) \subseteq done
<1>0. net \in Nets
  BY Known
<1>1. PICK rank \in [Modules -> Nat] :
        \A l \in net.links : net.owner[l.src] = net.owner[l.dst] => rank[l.src] < rank[l.dst]
  BY DEF Forward
<1> DEFINE Left == Members(g) \ done
<1>2. ASSUME Left # {} PROVE FALSE
  <2>1. Left \subseteq Modules
    BY <1>0, NetIs DEF Members
  <2>2. PICK m \in Left : \A n \in Left : rank[m] <= rank[n]
    <3> DEFINE Ranks == {rank[n] : n \in Left}
    <3>1. Ranks \in SUBSET Nat /\ Ranks # {}
      BY <1>2, <2>1
    <3>2. PICK x \in Ranks : \A y \in Ranks : x <= y
      <4> HIDE DEF Ranks
      <4> QED BY <3>1, LeastExists
    <3> QED BY <3>2
  <2>3. /\ m \in ToSet(net.list) /\ m \in Modules /\ net.owner[m] = g /\ m \notin done
        /\ m \notin net.groups /\ g \in Modules /\ g # Root /\ m \notin Waiting
    BY <1>0, <2>1, <2>2, PlainIs DEF Members
  <2>4. ASSUME NEW s \in Ins(m) PROVE inPort[m][s] # NULL
    <3>1. PICK l \in net.links : ~IsOutOfGroup(l) /\ l.dst = m /\ l.in = s
      BY <1>0, <2>3, WellFormedIs
    <3>2. Delivered(l)
      <4>1. CASE IsIntoGroup(l)
        BY <2>3, <3>1, <4>1 DEF Delivered, IsIntoGroup
      <4>2. CASE ~IsIntoGroup(l)
        <5>1. net.owner[l.src] = g /\ l.src \in ToSet(net.list) /\ l.src \in Modules
          BY <1>0, <2>3, <3>1, <4>2, PlainIs, LinkIs
        <5>2. rank[l.src] < rank[m] /\ rank[l.src] \in Nat /\ rank[m] \in Nat
          BY <1>1, <2>3, <3>1, <5>1
        <5>3. l.src \notin Left
          BY <2>2, <5>2
        <5> QED BY <4>2, <5>1, <5>3 DEF Delivered, Members
      <4> QED BY <4>1, <4>2
    <3> QED BY <2>3, <3>1, <3>2 DEF Progressing, Sent, Arrived, Lands
  <2> QED BY <2>3, <2>4 DEF Progressing, ReadyWaits, InPortsSet, IsGroup
<1> QED BY <1>2

(* No member waits when a group has its turn. *)
LEMMA NoMemberWaits ==
  ASSUME RunInv, Plain(net), MembersFirst, NEW g \in net.groups, Takes(g),
         ~MustWait(g, Tail(worklist))
  PROVE  /\ \A n \in ToSet(Tail(worklist)) : net.owner[n] = Root
         /\ \A n \in Members(g) : n \notin Waiting
         /\ Waiting = {g} \cup ToSet(Tail(worklist))
<1>0. net \in Nets /\ g \in Modules /\ Root \notin Modules /\ net.owner[g] = Root
  BY Known, PlainIs
<1>1. /\ worklist \in Seq(Modules) /\ IsInjective(worklist) /\ worklist # <<>> /\ g = Head(worklist)
      /\ ToSet(worklist) \subseteq Modules /\ current = Root
  BY <1>0, Known, NetIs DEF Takes, RunInv, Phased
<1>2. ToSet(worklist) = {g} \cup ToSet(Tail(worklist))
  BY <1>1, HeadLeaves
<1>3. Waiting = {g} \cup ToSet(Tail(worklist))
  BY <1>0, <1>1, <1>2 DEF Waiting
<1>4. \A n \in ToSet(Tail(worklist)) : net.owner[n] = Root
  BY <1>0, <1>3 DEF MembersFirst, MustWait
<1>5. \A n \in Members(g) : net.owner[n] # Root
  BY <1>0 DEF Members
<1> QED BY <1>0, <1>3, <1>4, <1>5

LEMMA StartRunProgresses ==
  ASSUME RunInv, Plain(net), Forward(net), StartRun
  PROVE  ProgressInv'
<1> SUFFICES ASSUME clean', WellFormed' PROVE Progressing'
  BY DEF ProgressInv
<1>0. net \in Nets
  BY Known
<1>1. /\ net' = net /\ inPort' = inPort /\ inPort' = NoData /\ outPort' = outPort
      /\ done' = {} /\ wrote' = {} /\ current' = current /\ current = Root
      /\ armed' = [m \in Modules |-> Rearmed(m)]
      /\ worklist' \in SetToSeqs({m \in ToSet(net.list) : InPortsSet(m, inPort)})
  BY DEF StartRun, ports, RunInv, Phased
<1>2. WellFormed
  BY <1>1, WellFormedStays
<1>3. Root \notin Modules /\ ToSet(net.list) \subseteq Modules
  BY <1>0, PlainIs, NetIs
<1>4. \A g \in net.groups : armed'[g]
  BY <1>0, <1>1, <1>2, <1>3, WellFormedIs DEF Rearmed
<1>5. ToSet(worklist') = {m \in ToSet(net.list) : InPortsSet(m, inPort)}
  <2> DEFINE S == {m \in ToSet(net.list) : InPortsSet(m, inPort)}
  <2>1. S \in SUBSET Modules /\ worklist' \in SetToSeqs(S)
    BY <1>1, <1>3
  <2> HIDE DEF S
  <2>2. ToSet(worklist') = S
    BY <2>1, EnumerationIs
  <2> QED BY <2>2 DEF S
<1>6. Waiting' = {m \in ToSet(net.list) : InPortsSet(m, inPort)}
  BY <1>1, <1>3, <1>5 DEF Waiting
<1>7. \A m : InPortsSet(m, inPort)' <=> InPortsSet(m, inPort)
  BY <1>1 DEF InPortsSet, Ins
<1>8. Sent'
  <2>1. \A l \in net.links : ~Delivered(l)'
    BY <1>0, <1>1, <1>4, PlainIs DEF Delivered, IsIntoGroup
  <2> QED BY <1>1, <2>1 DEF Sent
<1>9. ReadyWaits'
  BY <1>1, <1>6, <1>7 DEF ReadyWaits
<1>10. MembersFirst'
  <2> SUFFICES ASSUME NEW m \in ToSet(net.list), InPortsSet(m, inPort), net.owner[m] # Root
               PROVE  FALSE
    BY <1>1, <1>6 DEF MembersFirst
  <2>1. PICK s \in Ins(m) : TRUE
    BY <1>0, MembersHaveIns
  <2>2. inPort[m][s] = NULL
    BY <1>0, <1>1, <1>3, <2>1, InsAre DEF NoData
  <2> QED BY <2>1, <2>2 DEF InPortsSet
<1>11. LeavesNext' /\ EnteredFirst' /\ Recorded'
  BY <1>1 DEF LeavesNext, EnteredFirst, Recorded
<1>12. KeptInside'
  BY <1>1, <1>4 DEF KeptInside
<1> QED BY <1>8, <1>9, <1>10, <1>11, <1>12 DEF Progressing

LEMMA WorklistProgresses ==
  ASSUME RunInv, ProgressInv, Plain(net), NEW m \in Modules, Postpone(m) \/ StartModule(m)
  PROVE  ProgressInv'
<1> SUFFICES ASSUME clean', WellFormed', AllWritten' PROVE Progressing'
  BY DEF ProgressInv
<1>1. /\ net' = net /\ inPort' = inPort /\ outPort' = outPort /\ armed' = armed /\ done' = done
      /\ wrote' = wrote /\ currentGroupDomain' = currentGroupDomain /\ clean' = clean
      /\ pc = "loop" /\ worklist # <<>> /\ m = Head(worklist)
  BY DEF Postpone, StartModule, ports, history, Takes
<1>2. Progressing
  <2>1. WellFormed /\ AllWritten
    BY <1>1, WellFormedStays DEF AllWritten, Outs
  <2> QED BY <1>1, <2>1 DEF ProgressInv
<1>3. worklist \in Seq(Modules) /\ IsInjective(worklist) /\ net \in Nets
  BY Known
<1>4. /\ Tail(worklist) \in Seq(Modules) /\ IsInjective(Tail(worklist))
      /\ ToSet(worklist) = {m} \cup ToSet(Tail(worklist)) /\ current = Root
  BY <1>1, <1>3, HeadLeaves DEF RunInv, Phased
<1>5. Waiting' = Waiting
  <2>1. CASE Postpone(m)
    <3> DEFINE S == {m}
    <3>1. worklist' \in UniqueInsert(Tail(worklist), S) /\ current' = Root
      BY <1>4, <2>1 DEF Postpone
    <3>2. S \in SUBSET Modules
      OBVIOUS
    <3> HIDE DEF S
    <3>3. ToSet(worklist') = ToSet(Tail(worklist)) \cup S
      BY <1>4, <3>1, <3>2, UniqueInsertIs
    <3> QED BY <1>4, <3>1, <3>3 DEF Waiting, S
  <2>2. CASE StartModule(m)
    <3>1. worklist' = Tail(worklist) /\ current' = m
      BY <2>2 DEF StartModule
    <3> QED BY <1>4, <3>1 DEF Waiting
  <2> QED BY <2>1, <2>2
<1>6. Sent'
  BY <1>1, <1>2 DEF Progressing, Sent, Delivered, Arrived, Lands, IsIntoGroup, IsOutOfGroup
<1>7. ReadyWaits' /\ LeavesNext'
  BY <1>1, <1>2, <1>5 DEF Progressing, ReadyWaits, LeavesNext, InPortsSet, Ins, IsGroup, IsOutOfGroup
<1>8. KeptInside' /\ EnteredFirst' /\ MembersFirst' /\ Recorded'
  BY <1>1, <1>2, <1>5
     DEF Progressing, KeptInside, EnteredFirst, MembersFirst, Recorded, InPortsSet, Ins
<1> QED BY <1>6, <1>7, <1>8 DEF Progressing

(* A member executes only after its group was entered. *)
LEMMA MemberEntered ==
  ASSUME RunInv, Ordered, Progressing, Plain(net), Forward(net), WellFormed,
         NEW m \in ToSet(net.list) \cap Waiting, net.owner[m] # Root
  PROVE  ~armed[net.owner[m]]
<1>0. net \in Nets
  BY Known
<1>1. m \in Modules /\ m \notin net.groups
  BY <1>0, NetIs, PlainIs
<1>2. PICK s \in Ins(m) : TRUE
  BY <1>0, MembersHaveIns
<1>3. PICK l \in net.links : ~IsOutOfGroup(l) /\ l.dst = m /\ l.in = s
  BY <1>0, WellFormedIs
<1>4. inPort[l.dst][l.in] # NULL
  BY <1>0, <1>1, <1>3, WaitingIs
<1>5. Delivered(l)
  BY <1>3, <1>4 DEF Ordered, Fed
<1>6. CASE IsIntoGroup(l)
  BY <1>3, <1>5, <1>6 DEF Delivered, IsIntoGroup
<1>7. CASE ~IsIntoGroup(l)
  <2>1. net.owner[l.src] = net.owner[m] /\ l.src \in done
    BY <1>0, <1>3, <1>5, <1>7, PlainIs DEF Delivered
  <2> QED BY <2>1 DEF Progressing, EnteredFirst
<1> QED BY <1>6, <1>7

LEMMA FinishModuleProgresses ==
  ASSUME ~ IsFiniteSet(Systems), RunInv, OrderInv, ProgressInv, Plain(net), Forward(net),
         NEW m \in Modules, NEW used \in SUBSET Streams, FinishModule(m, used)
  PROVE  ProgressInv'
<1> SUFFICES ASSUME clean', WellFormed', AllWritten' PROVE Progressing'
  BY DEF ProgressInv
<1> DEFINE got == AfterGetData(m, used)
<1>0. /\ net \in Nets /\ armed \in [Modules -> BOOLEAN]
      /\ inPort \in Ports /\ outPort \in Ports /\ content \in [Systems -> SUBSET Modules]
      /\ worklist \in Seq(Modules) /\ IsInjective(worklist)
      /\ ToSet(worklist) \subseteq ToSet(net.list)
      /\ \A n \in ToSet(worklist) : InPortsSet(n, inPort)
  BY Known
<1>1. /\ got.out \in Ports /\ got.content \in [Systems -> SUBSET Modules]
      /\ \A s \in used \cap Outs(m) : got.out[m][s] # NULL
      /\ \A n \in Modules \ {m} : got.out[n] = outPort[n]
  BY <1>0, AfterGetDataIs
<1> HIDE DEF got
<1>2. /\ net' = net /\ armed' = armed /\ currentGroupDomain' = currentGroupDomain /\ clean' = clean
      /\ pc = "exec" /\ m = current /\ current' = Root /\ done' = done \cup {m}
      /\ wrote' = wrote \cup ({m} \X (used \cap Outs(m)))
      /\ ShiftModuleOutput(m, got.out, got.content, worklist)
  BY DEF FinishModule, got
<1>3. m \in ToSet(net.list) \ net.groups /\ m \notin ToSet(worklist)
  BY <1>2 DEF RunInv, Phased
<1>4. Ordered
  BY <1>2 DEF OrderInv
<1>5. /\ ToSet(net.list) \subseteq Modules /\ Root \notin Modules
      /\ Waiting = {m} \cup ToSet(worklist) /\ m \notin done
  <2>1. ToSet(net.list) \subseteq Modules /\ Root \notin Modules
    BY <1>0, PlainIs, NetIs
  <2>2. Waiting = {m} \cup ToSet(worklist)
    BY <1>0, <1>2, <2>1 DEF Waiting
  <2> QED BY <1>4, <2>1, <2>2 DEF Ordered, Once
<1>6. WellFormed /\ AllWritten
  <2>1. \A n \in done \ net.groups : \A s \in Outs(n) : <<n, s>> \in wrote'
    BY <1>2 DEF AllWritten, Outs
  <2> QED BY <1>2, <1>5, <2>1, WellFormedStays DEF AllWritten
<1>7. Progressing
  BY <1>2, <1>6 DEF ProgressInv
<1>8. \A s \in Outs(m) : got.out[m][s] # NULL
  <2> TAKE s \in Outs(m)
  <2>1. <<m, s>> \in wrote'
    BY <1>2, <1>3 DEF AllWritten, Outs
  <2>2. <<m, s>> \notin wrote
    BY <1>5, <1>7 DEF Progressing, Recorded
  <2> QED BY <1>1, <1>2, <2>1, <2>2
<1>9. /\ \A n \in Modules \ {m}, s \in Streams :
           /\ inPort[n][s] # NULL => inPort'[n][s] # NULL
           /\ outPort[n][s] # NULL => outPort'[n][s] # NULL
      /\ \A l \in Outgoing(m) : got.out[m][l.out] # NULL => Lands(l, inPort', outPort')
      /\ ToSet(worklist) \subseteq ToSet(worklist')
      /\ \A l \in Outgoing(m) : got.out[m][l.out] # NULL /\ InPortsSet(l.dst, inPort')
           => l.dst \in ToSet(worklist')
      /\ \A n \in Modules : InPortsSet(n, inPort') => InPortsSet(n, inPort) \/ n \in ToSet(worklist')
  <2>1. /\ \A n \in Modules \ {m}, s \in Streams :
             /\ inPort[n][s] # NULL => inPort'[n][s] # NULL
             /\ got.out[n][s] # NULL => outPort'[n][s] # NULL
        /\ \A l \in Outgoing(m) : got.out[m][l.out] # NULL => Lands(l, inPort', outPort')
        /\ ToSet(worklist) \subseteq ToSet(worklist')
        /\ \A l \in Outgoing(m) : got.out[m][l.out] # NULL /\ InPortsSet(l.dst, inPort')
             => l.dst \in ToSet(worklist')
        /\ \A n \in Modules : InPortsSet(n, inPort') => InPortsSet(n, inPort) \/ n \in ToSet(worklist')
    BY <1>0, <1>1, <1>2, ShiftModuleOutputHands
  <2> QED BY <1>1, <2>1
<1>10. \A l : /\ IsIntoGroup(l)' = IsIntoGroup(l) /\ IsOutOfGroup(l)' = IsOutOfGroup(l)
              /\ Arrived(l)' <=> (l.dst \in done' \/ Lands(l, inPort', outPort'))
  BY <1>2 DEF IsIntoGroup, IsOutOfGroup, Arrived, Lands
<1>11. \A n : Ins(n)' = Ins(n) /\ (InPortsSet(n, inPort)' <=> InPortsSet(n, inPort'))
  BY <1>2 DEF Ins, InPortsSet
<1>12. \A l \in net.links : l.src = m /\ ~IsIntoGroup(l) => l \in Outgoing(m) /\ got.out[m][l.out] # NULL
  BY <1>0, <1>8, LinkIs DEF Outgoing
<1>13. /\ ToSet(worklist') \subseteq ToSet(net.list)
       /\ \A n \in ToSet(worklist') : n \in ToSet(worklist) \/ (\E l \in Outgoing(m) : l.dst = n)
  BY <1>0, <1>1, <1>2, <1>3, ShiftModuleOutputIs
<1>14. Waiting' = ToSet(worklist')
  BY <1>2, <1>5, <1>13 DEF Waiting
<1>15. net.owner[m] # Root => ~armed[net.owner[m]]
  <2>1. m \in ToSet(net.list) \cap Waiting
    BY <1>3, <1>5
  <2> QED BY <1>4, <1>6, <1>7, <2>1, MemberEntered
<1>16. Sent'
  <2> SUFFICES ASSUME NEW l \in net.links, Delivered(l)'
               PROVE  l.dst \in done' \/ Lands(l, inPort', outPort')
    BY <1>2, <1>10 DEF Sent
  <2>1. l.dst \in Modules /\ l.in \in Streams
    BY <1>0, PlainIs
  <2>2. CASE Delivered(l)
    <3>1. Arrived(l)
      BY <1>7, <2>2 DEF Progressing, Sent
    <3> QED BY <1>2, <1>9, <2>1, <3>1 DEF Arrived, Lands
  <2>3. CASE ~Delivered(l)
    <3>1. l.src = m /\ ~IsIntoGroup(l)
      BY <1>2, <1>10, <2>3 DEF Delivered
    <3> QED BY <1>9, <1>12, <3>1
  <2> QED BY <2>2, <2>3
<1>17. ReadyWaits'
  <2> SUFFICES ASSUME NEW n \in ToSet(net.list), InPortsSet(n, inPort'), n \notin done',
                      n \in net.groups => armed[n]
               PROVE  n \in ToSet(worklist')
    BY <1>2, <1>11, <1>14 DEF ReadyWaits, IsGroup
  <2>1. CASE InPortsSet(n, inPort)
    <3>1. n \in Waiting
      BY <1>2, <1>7, <2>1 DEF Progressing, ReadyWaits, IsGroup
    <3> QED BY <1>2, <1>5, <1>9, <3>1
  <2> QED BY <1>5, <1>9, <2>1
<1>18. KeptInside'
  <2> SUFFICES ASSUME NEW g \in net.groups, ~armed[g], g \notin done' PROVE InPortsSet(g, inPort')
    BY <1>2, <1>11 DEF KeptInside
  <2>1. InPortsSet(g, inPort) /\ g \in Modules \ {m}
    BY <1>0, <1>2, <1>3, <1>7, PlainIs DEF Progressing, KeptInside
  <2> QED BY <1>0, <1>9, <2>1, InsAre DEF InPortsSet
<1>19. LeavesNext'
  <2> SUFFICES ASSUME NEW l \in net.links, IsOutOfGroup(l), l.src \in done', l.dst \notin done'
               PROVE  l.dst \in ToSet(worklist')
    BY <1>2, <1>10, <1>14 DEF LeavesNext
  <2>1. CASE l.src \in done
    <3>1. l.dst \in Waiting
      BY <1>2, <1>7, <2>1 DEF Progressing, LeavesNext
    <3> QED BY <1>2, <1>5, <1>9, <3>1
  <2>2. CASE l.src = m
    <3>1. l.dst \in net.groups /\ net.owner[m] = l.dst /\ l.dst # Root
      BY <1>0, <2>2, PlainIs
    <3>2. InPortsSet(l.dst, inPort')
      BY <1>2, <1>11, <1>15, <1>18, <3>1 DEF KeptInside
    <3> QED BY <1>0, <1>9, <1>12, <2>2, <3>2, LinkIs
  <2> QED BY <1>2, <2>1, <2>2
<1>20. EnteredFirst'
  BY <1>2, <1>7, <1>15 DEF Progressing, EnteredFirst
<1>21. MembersFirst'
  <2> SUFFICES ASSUME NEW n \in ToSet(worklist'), net.owner[n] # Root
               PROVE  currentGroupDomain = net.owner[n]
    BY <1>2, <1>14 DEF MembersFirst
  <2>1. CASE n \in ToSet(worklist)
    BY <1>5, <1>7, <2>1 DEF Progressing, MembersFirst
  <2>2. ASSUME NEW l \in Outgoing(m), l.dst = n PROVE currentGroupDomain = net.owner[n]
    <3>1. l \in net.links /\ l.src = m /\ ~IsIntoGroup(l)
      BY DEF Outgoing
    <3>2. ~IsOutOfGroup(l)
      BY <1>0, <2>2, <3>1, PlainIs
    <3>3. net.owner[m] = net.owner[n]
      BY <1>0, <2>2, <3>1, <3>2, PlainIs
    <3> QED BY <1>5, <1>7, <3>3 DEF Progressing, MembersFirst
  <2> QED BY <1>13, <2>1, <2>2
<1>22. Recorded'
  BY <1>2, <1>7 DEF Progressing, Recorded
<1> QED BY <1>16, <1>17, <1>18, <1>19, <1>20, <1>21, <1>22 DEF Progressing

LEMMA EnterGroupProgresses ==
  ASSUME ~ IsFiniteSet(Systems), RunInv, OrderInv, ProgressInv, Plain(net),
         NEW g \in Modules, EnterGroup(g)
  PROVE  ProgressInv'
<1> SUFFICES ASSUME clean', WellFormed', AllWritten' PROVE Progressing'
  BY DEF ProgressInv
<1> DEFINE out == [m \in Modules |-> IF m \in Members(g) THEN NoData[m] ELSE outPort[m]]
           rest == Tail(worklist)
<1>0. /\ net \in Nets /\ armed \in [Modules -> BOOLEAN]
      /\ inPort \in Ports /\ outPort \in Ports /\ content \in [Systems -> SUBSET Modules]
  BY Known
<1>1. /\ rest \in Seq(Modules) /\ IsInjective(rest) /\ g \notin ToSet(rest)
      /\ ToSet(rest) \subseteq ToSet(net.list) /\ InPortsSet(g, inPort)
      /\ \A n \in ToSet(rest) : InPortsSet(n, inPort)
  BY Taken DEF EnterGroup
<1>2. out \in Ports
  <2>1. \A m \in Modules : NoData[m] \in Port /\ outPort[m] \in Port
    BY <1>0 DEF NoData, Ports, Port
  <2> QED BY <2>1 DEF Ports
<1>3. /\ net' = net /\ pc = "loop" /\ current' = current /\ done' = done /\ clean' = clean
      /\ wrote' = wrote /\ armed[g] /\ currentGroupDomain' = g
      /\ armed' = [m \in Modules |-> IF m = g THEN FALSE ELSE armed[m] \/ net.owner[m] = g]
      /\ ShiftGroupInput(g, out, rest) /\ Takes(g) /\ ~MustWait(g, rest) /\ g \in net.groups
  BY DEF EnterGroup, history, Takes, IsGroup
<1>4. \A n \in net.groups : n \in Modules /\ out[n] = outPort[n] /\ n \notin Members(g)
  <2>1. \A n \in net.groups : n \in Modules /\ net.owner[n] # g
    BY <1>0, <1>3, PlainIs
  <2> QED BY <2>1 DEF Members
<1> HIDE DEF out, rest
<1>5. Ordered /\ current = Root
  BY <1>3 DEF OrderInv, RunInv, Phased
<1>6. WellFormed
  BY <1>3, WellFormedStays
<1>7. Progressing
  <2>1. AllWritten
    BY <1>3 DEF AllWritten, Outs
  <2> QED BY <1>3, <1>6, <2>1 DEF ProgressInv
<1>8. /\ \A n \in ToSet(rest) : net.owner[n] = Root
      /\ Waiting = {g} \cup ToSet(rest)
      /\ ToSet(net.list) \subseteq Modules /\ Root \notin Modules
  BY <1>0, <1>3, <1>7, NoMemberWaits, PlainIs, NetIs DEF rest, Progressing
<1>9. \A s \in Ins(g) : \E l \in IntoGroup(g) : l.out = s
  BY <1>0, <1>3, <1>6, WellFormedIs
<1>10. /\ \A n \in Modules, s \in Streams :
            /\ inPort[n][s] # NULL /\ (n = g => \E l \in IntoGroup(g) : l.out = s)
                 => inPort'[n][s] # NULL
            /\ out[n][s] # NULL => outPort'[n][s] # NULL
       /\ \A l \in IntoGroup(g) : inPort[g][l.out] # NULL => Lands(l, inPort', outPort')
       /\ ToSet(rest) \subseteq ToSet(worklist')
       /\ \A n \in Modules : InPortsSet(n, inPort') => InPortsSet(n, inPort) \/ n \in ToSet(worklist')
  BY <1>0, <1>1, <1>2, <1>3, ShiftGroupInputHands
<1>11. /\ ToSet(worklist') \subseteq ToSet(net.list)
       /\ \A n \in ToSet(worklist') : n \in ToSet(rest) \/ (\E l \in IntoGroup(g) : l.dst = n)
  BY <1>0, <1>1, <1>2, <1>3, ShiftGroupInputIs
<1>12. Waiting' = ToSet(worklist')
  BY <1>3, <1>5, <1>8, <1>11 DEF Waiting
<1>13. \A l : /\ IsIntoGroup(l)' = IsIntoGroup(l) /\ IsOutOfGroup(l)' = IsOutOfGroup(l)
              /\ Arrived(l)' <=> (l.dst \in done' \/ Lands(l, inPort', outPort'))
  BY <1>3 DEF IsIntoGroup, IsOutOfGroup, Arrived, Lands
<1>14. \A n : Ins(n)' = Ins(n) /\ (InPortsSet(n, inPort)' <=> InPortsSet(n, inPort'))
  BY <1>3 DEF Ins, InPortsSet
<1>15. ~armed'[g] /\ \A h \in net.groups : h # g => armed'[h] = armed[h]
  <2>1. \A h \in net.groups : h \in Modules /\ net.owner[h] # g /\ armed[h] \in BOOLEAN
    BY <1>0, <1>3, PlainIs
  <2> QED BY <1>3, <2>1
<1>16. \A m \in done : net.owner[m] # g
  BY <1>0, <1>3, <1>7, PlainIs DEF Progressing, EnteredFirst
<1>17. Sent'
  <2> SUFFICES ASSUME NEW l \in net.links, Delivered(l)'
               PROVE  l.dst \in done \/ Lands(l, inPort', outPort')
    BY <1>3, <1>13 DEF Sent
  <2>1. /\ l.dst \in Modules /\ l.in \in Streams
        /\ IsIntoGroup(l) => l.src \in net.groups
        /\ IF IsOutOfGroup(l) THEN l.dst \in net.groups ELSE l.in \in Ins(l.dst)
    BY <1>0, PlainIs
  <2>2. CASE Delivered(l)
    <3>1. l.dst \in done \/ Lands(l, inPort, outPort)
      BY <1>7, <2>2 DEF Progressing, Sent, Arrived
    <3>2. CASE IsOutOfGroup(l)
      BY <1>4, <1>10, <2>1, <3>1, <3>2 DEF Lands
    <3>3. CASE ~IsOutOfGroup(l)
      BY <1>9, <1>10, <2>1, <3>1, <3>3 DEF Lands
    <3> QED BY <3>2, <3>3
  <2>3. CASE ~Delivered(l)
    <3>1. IsIntoGroup(l) /\ l.src = g
      BY <1>3, <1>13, <1>15, <2>1, <2>3 DEF Delivered
    <3>2. l \in IntoGroup(g) /\ inPort[g][l.out] # NULL
      BY <1>0, <1>1, <3>1, LinkIs DEF IntoGroup, InPortsSet
    <3> QED BY <1>10, <3>2
  <2> QED BY <2>2, <2>3
<1>18. ReadyWaits'
  <2> SUFFICES ASSUME NEW n \in ToSet(net.list), InPortsSet(n, inPort'), n \notin done,
                      n \in net.groups => armed'[n]
               PROVE  n \in ToSet(worklist')
    BY <1>3, <1>12, <1>14 DEF ReadyWaits, IsGroup
  <2>1. n # g /\ n \in Modules
    BY <1>3, <1>8, <1>15
  <2>2. CASE InPortsSet(n, inPort)
    <3>1. n \in Waiting
      BY <1>7, <1>15, <2>1, <2>2 DEF Progressing, ReadyWaits, IsGroup
    <3> QED BY <1>8, <1>10, <2>1, <3>1
  <2> QED BY <1>10, <2>1, <2>2
<1>19. LeavesNext'
  <2> SUFFICES ASSUME NEW l \in net.links, IsOutOfGroup(l), l.src \in done, l.dst \notin done
               PROVE  l.dst \in ToSet(worklist')
    BY <1>3, <1>12, <1>13 DEF LeavesNext
  <2>1. l.dst \in Waiting /\ l.dst # g
    BY <1>7, <1>16 DEF Progressing, LeavesNext, IsOutOfGroup
  <2> QED BY <1>8, <1>10, <2>1
<1>20. KeptInside'
  <2> SUFFICES ASSUME NEW h \in net.groups, ~armed'[h], h \notin done PROVE InPortsSet(h, inPort')
    BY <1>3, <1>14 DEF KeptInside
  <2>1. InPortsSet(h, inPort)
    BY <1>1, <1>7, <1>15 DEF Progressing, KeptInside
  <2> QED BY <1>0, <1>4, <1>9, <1>10, <2>1, InsAre DEF InPortsSet
<1>21. EnteredFirst'
  <2>1. \A m \in done : net.owner[m] # Root =>
          net.owner[m] \in net.groups /\ net.owner[m] # g /\ ~armed[net.owner[m]]
    <3>1. done \subseteq Modules
      BY DEF RunInv, TypeOK
    <3> QED BY <1>0, <1>7, <1>16, <3>1, PlainIs DEF Progressing, EnteredFirst
  <2> QED BY <1>3, <1>15, <2>1 DEF EnteredFirst
<1>22. MembersFirst'
  <2>1. \A l \in IntoGroup(g) : net.owner[l.dst] = g
    BY DEF IntoGroup, IsIntoGroup
  <2> QED BY <1>3, <1>8, <1>11, <1>12, <2>1 DEF MembersFirst
<1>23. Recorded'
  BY <1>3, <1>7 DEF Progressing, Recorded
<1> QED BY <1>17, <1>18, <1>19, <1>20, <1>21, <1>22, <1>23 DEF Progressing

(* A group that is left has data on all its out-ports: none of its members *)
(* waits, so all are done.                                                 *)
LEMMA FinishGroupProgresses ==
  ASSUME ~ IsFiniteSet(Systems), RunInv, OrderInv, ProgressInv, Plain(net), Forward(net),
         NEW g \in Modules, FinishGroup(g)
  PROVE  ProgressInv'
<1> SUFFICES ASSUME clean', WellFormed', AllWritten' PROVE Progressing'
  BY DEF ProgressInv
<1> DEFINE rest == Tail(worklist)
<1>0. /\ net \in Nets /\ armed \in [Modules -> BOOLEAN]
      /\ inPort \in Ports /\ outPort \in Ports /\ content \in [Systems -> SUBSET Modules]
  BY Known
<1>1. /\ rest \in Seq(Modules) /\ IsInjective(rest) /\ g \notin ToSet(rest)
      /\ ToSet(rest) \subseteq ToSet(net.list)
      /\ \A n \in ToSet(rest) : InPortsSet(n, inPort)
  BY Taken DEF FinishGroup
<1>3. /\ net' = net /\ pc = "loop" /\ current' = current /\ done' = done \cup {g} /\ clean' = clean
      /\ wrote' = wrote /\ ~armed[g] /\ currentGroupDomain' = net.owner[g] /\ armed' = armed
      /\ ShiftModuleOutput(g, outPort, content, rest) /\ Takes(g) /\ ~MustWait(g, rest)
      /\ g \in net.groups
  BY DEF FinishGroup, Takes, IsGroup
<1> HIDE DEF rest
<1>4. net.owner[g] = Root /\ ToSet(net.list) \subseteq Modules /\ Root \notin Modules
  BY <1>0, <1>3, PlainIs, NetIs
<1>5. Ordered /\ current = Root
  BY <1>3 DEF OrderInv, RunInv, Phased
<1>6. WellFormed
  BY <1>3, WellFormedStays
<1>7. Progressing
  <2>1. AllWritten
    BY <1>3 DEF AllWritten, Outs
  <2> QED BY <1>3, <1>6, <2>1 DEF ProgressInv
<1>8. /\ \A n \in ToSet(rest) : net.owner[n] = Root
      /\ \A n \in Members(g) : n \notin Waiting
      /\ Waiting = {g} \cup ToSet(rest)
  BY <1>3, <1>7, NoMemberWaits DEF rest, Progressing
<1>9. g \notin done /\ Members(g) \subseteq done
  <2>1. Members(g) \subseteq done
    BY <1>3, <1>6, <1>7, <1>8, MembersDone
  <2> QED BY <1>5, <1>8, <2>1 DEF Ordered, Once
<1>10. \A l \in net.links : l.src = g /\ ~IsIntoGroup(l) => l \in Outgoing(g) /\ outPort[g][l.out] # NULL
  <2> TAKE l \in net.links
  <2> HAVE l.src = g /\ ~IsIntoGroup(l)
  <2>1. l.out \in Outs(g)
    BY <1>0, LinkIs
  <2>2. PICK k \in net.links : IsOutOfGroup(k) /\ k.dst = g /\ k.in = l.out
    BY <1>0, <1>3, <1>6, <2>1, WellFormedIs
  <2>3. k.src \in Members(g)
    BY <1>0, <2>2, LinkIs DEF Members, IsOutOfGroup
  <2>4. Arrived(k)
    <3>1. Delivered(k)
      BY <1>0, <1>9, <2>2, <2>3, LinkIs DEF Delivered
    <3> QED BY <1>7, <3>1 DEF Progressing, Sent
  <2> QED BY <1>9, <2>2, <2>4 DEF Arrived, Lands, Outgoing
<1>11. /\ \A n \in Modules \ {g}, s \in Streams :
            /\ inPort[n][s] # NULL => inPort'[n][s] # NULL
            /\ outPort[n][s] # NULL => outPort'[n][s] # NULL
       /\ \A l \in Outgoing(g) : outPort[g][l.out] # NULL => Lands(l, inPort', outPort')
       /\ ToSet(rest) \subseteq ToSet(worklist')
       /\ \A n \in Modules : InPortsSet(n, inPort') => InPortsSet(n, inPort) \/ n \in ToSet(worklist')
  BY <1>0, <1>1, <1>3, ShiftModuleOutputHands
<1>12. /\ ToSet(worklist') \subseteq ToSet(net.list)
       /\ \A n \in ToSet(worklist') : n \in ToSet(rest) \/ (\E l \in Outgoing(g) : l.dst = n)
  BY <1>0, <1>1, <1>3, ShiftModuleOutputIs
<1>13. Waiting' = ToSet(worklist')
  BY <1>3, <1>4, <1>5, <1>12 DEF Waiting
<1>14. \A l : /\ IsIntoGroup(l)' = IsIntoGroup(l) /\ IsOutOfGroup(l)' = IsOutOfGroup(l)
              /\ Arrived(l)' <=> (l.dst \in done' \/ Lands(l, inPort', outPort'))
  BY <1>3 DEF IsIntoGroup, IsOutOfGroup, Arrived, Lands
<1>15. \A n : Ins(n)' = Ins(n) /\ (InPortsSet(n, inPort)' <=> InPortsSet(n, inPort'))
  BY <1>3 DEF Ins, InPortsSet
<1>16. Sent'
  <2> SUFFICES ASSUME NEW l \in net.links, Delivered(l)'
               PROVE  l.dst \in done' \/ Lands(l, inPort', outPort')
    BY <1>3, <1>14 DEF Sent
  <2>1. l.dst \in Modules /\ l.in \in Streams
    BY <1>0, PlainIs
  <2>2. CASE Delivered(l)
    <3>1. Arrived(l)
      BY <1>7, <2>2 DEF Progressing, Sent
    <3> QED BY <1>3, <1>11, <2>1, <3>1 DEF Arrived, Lands
  <2>3. CASE ~Delivered(l)
    <3>1. l.src = g /\ ~IsIntoGroup(l)
      BY <1>3, <1>14, <2>3 DEF Delivered
    <3> QED BY <1>10, <1>11, <3>1
  <2> QED BY <2>2, <2>3
<1>17. ReadyWaits'
  <2> SUFFICES ASSUME NEW n \in ToSet(net.list), InPortsSet(n, inPort'), n \notin done',
                      n \in net.groups => armed[n]
               PROVE  n \in ToSet(worklist')
    BY <1>3, <1>13, <1>15 DEF ReadyWaits, IsGroup
  <2>1. CASE InPortsSet(n, inPort)
    <3>1. n \in Waiting
      BY <1>3, <1>7, <2>1 DEF Progressing, ReadyWaits, IsGroup
    <3> QED BY <1>3, <1>8, <1>11, <3>1
  <2> QED BY <1>4, <1>11, <2>1
<1>18. LeavesNext'
  <2> SUFFICES ASSUME NEW l \in net.links, IsOutOfGroup(l), l.src \in done', l.dst \notin done'
               PROVE  l.dst \in ToSet(worklist')
    BY <1>3, <1>13, <1>14 DEF LeavesNext
  <2>1. l.src # g
    BY <1>0, <1>4, PlainIs
  <2>2. l.dst \in Waiting /\ l.dst # g
    BY <1>3, <1>7, <2>1 DEF Progressing, LeavesNext
  <2> QED BY <1>8, <1>11, <2>2
<1>19. KeptInside'
  <2> SUFFICES ASSUME NEW h \in net.groups, ~armed[h], h \notin done' PROVE InPortsSet(h, inPort')
    BY <1>3, <1>15 DEF KeptInside
  <2>1. InPortsSet(h, inPort) /\ h \in Modules \ {g}
    BY <1>0, <1>3, <1>7, PlainIs DEF Progressing, KeptInside
  <2> QED BY <1>0, <1>11, <2>1, InsAre DEF InPortsSet
<1>20. EnteredFirst'
  BY <1>3, <1>4, <1>7 DEF Progressing, EnteredFirst
<1>21. MembersFirst'
  <2>1. \A l \in Outgoing(g) : net.owner[l.dst] = Root
    <3> TAKE l \in Outgoing(g)
    <3>1. l \in net.links /\ l.src = g /\ ~IsIntoGroup(l)
      BY DEF Outgoing
    <3>2. ~IsOutOfGroup(l)
      BY <1>0, <1>4, <3>1, PlainIs
    <3> QED BY <1>0, <1>4, <3>1, <3>2, PlainIs
  <2> QED BY <1>3, <1>8, <1>12, <1>13, <2>1 DEF MembersFirst
<1>22. Recorded'
  BY <1>3, <1>7 DEF Progressing, Recorded
<1> QED BY <1>16, <1>17, <1>18, <1>19, <1>20, <1>21, <1>22 DEF Progressing

LEMMA ProgressInductive ==
  /\ ~ IsFiniteSet(Systems) /\ Plain(net) /\ Forward(net)
  /\ RunInv /\ OrderInv /\ ProgressInv /\ [Next]_vars
  => ProgressInv'
<1> SUFFICES ASSUME ~ IsFiniteSet(Systems), Plain(net), Forward(net),
                    RunInv, OrderInv, ProgressInv, [Next]_vars
             PROVE  ProgressInv'
  OBVIOUS
<1>1. CASE StartRun
  BY <1>1, StartRunProgresses
<1>2. ASSUME NEW m \in Modules, Postpone(m) \/ StartModule(m) PROVE ProgressInv'
  BY <1>2, WorklistProgresses
<1>3. ASSUME NEW m \in Modules, NEW used \in SUBSET Streams, FinishModule(m, used)
      PROVE  ProgressInv'
  BY <1>3, FinishModuleProgresses
<1>4. ASSUME NEW g \in Modules, EnterGroup(g) PROVE ProgressInv'
  BY <1>4, EnterGroupProgresses
<1>5. ASSUME NEW g \in Modules, FinishGroup(g) PROVE ProgressInv'
  BY <1>5, FinishGroupProgresses
<1>6. ASSUME NEW m \in Modules, NEW used \in SUBSET Streams, FailModule(m, used)
      PROVE  ProgressInv'
  BY <1>6 DEF FailModule, ProgressInv
<1>7. CASE EndRun \/ EndCanceled \/ Reset
  BY <1>7 DEF EndRun, EndCanceled, Reset, locals, ProgressInv
<1>8. CASE Cancel \/ UNCHANGED vars
  <2>1. UNCHANGED <<net, status, armed, ports, pc, locals, history>>
    BY <1>8 DEF Cancel, vars
  <2>2. (WellFormed' <=> WellFormed) /\ (AllWritten' <=> AllWritten)
    BY <2>1, WellFormedStays DEF AllWritten, Outs, history
  <2>3. Sent' <=> Sent
    BY <2>1 DEF Sent, Delivered, Arrived, Lands, IsIntoGroup, IsOutOfGroup, ports, history
  <2>4. (ReadyWaits' <=> ReadyWaits) /\ (LeavesNext' <=> LeavesNext)
    BY <2>1 DEF ReadyWaits, LeavesNext, InPortsSet, Ins, IsGroup, IsOutOfGroup, Waiting,
                ports, locals, history
  <2>5. /\ KeptInside' <=> KeptInside
        /\ EnteredFirst' <=> EnteredFirst
        /\ MembersFirst' <=> MembersFirst
        /\ Recorded' <=> Recorded
    BY <2>1 DEF KeptInside, EnteredFirst, MembersFirst, Recorded, InPortsSet, Ins, Waiting,
                ports, locals, history
  <2> QED BY <2>1, <2>2, <2>3, <2>4, <2>5 DEF ProgressInv, Progressing, history
<1> QED BY <1>1, <1>2, <1>3, <1>4, <1>5, <1>6, <1>7, <1>8 DEF Next, RunStep

(* When nothing waits any more, all have run: outside of the groups none   *)
(* is left without another before it, so every group was entered, and then *)
(* its members are done.                                                   *)
LEMMA NothingLeft ==
  ASSUME RunInv, Ordered, Progressing, Plain(net), Forward(net), WellFormed, Waiting = {}
  PROVE  Complete
<1>0. /\ net \in Nets /\ Root \notin Modules
      /\ ToSet(net.list) \subseteq Modules /\ net.groups \subseteq ToSet(net.list)
  BY Known, PlainIs, NetIs, WellFormedIs
<1>1. PICK rank \in [Modules -> Nat] :
        \A l \in net.links : net.owner[l.src] = net.owner[l.dst] => rank[l.src] < rank[l.dst]
  BY DEF Forward
<1>2. \A g \in net.groups : ~armed[g] => Members(g) \subseteq done
  BY MembersDone
<1> DEFINE Outer == {m \in ToSet(net.list) : net.owner[m] = Root}
           Ran(m) == m \in done \/ (m \in net.groups /\ Outs(m) = {} /\ ~armed[m])
           Left == {m \in Outer : ~Ran(m)}
<1>3. ASSUME Left # {} PROVE FALSE
  <2>1. Left \subseteq Modules
    BY <1>0
  <2>2. PICK m \in Left : \A n \in Left : rank[m] <= rank[n]
    <3> DEFINE Ranks == {rank[n] : n \in Left}
    <3> HIDE DEF Left
    <3>1. Ranks \in SUBSET Nat /\ Ranks # {}
      BY <1>3, <2>1
    <3>2. PICK x \in Ranks : \A y \in Ranks : x <= y
      <4> HIDE DEF Ranks
      <4> QED BY <3>1, LeastExists
    <3> QED BY <3>2
  <2>3. /\ m \in ToSet(net.list) /\ m \in Modules /\ net.owner[m] = Root /\ m \notin done
        /\ ~ (m \in net.groups /\ Outs(m) = {} /\ ~armed[m])
    BY <1>0, <2>2
  <2>4. ASSUME NEW s \in Ins(m) PROVE inPort[m][s] # NULL
    <3>1. PICK l \in net.links : ~IsOutOfGroup(l) /\ l.dst = m /\ l.in = s
      BY <1>0, <2>3, WellFormedIs
    <3>2. ~IsIntoGroup(l)
      BY <1>0, <2>3, <3>1, PlainIs DEF IsIntoGroup
    <3>3. /\ net.owner[l.src] = Root /\ l.src \in ToSet(net.list) /\ l.src \in Modules
          /\ l.out \in Outs(l.src)
      BY <1>0, <2>3, <3>1, <3>2, PlainIs, LinkIs
    <3>4. rank[l.src] < rank[m] /\ rank[l.src] \in Nat /\ rank[m] \in Nat
      BY <1>1, <2>3, <3>1, <3>3
    <3>5. l.src \notin Left
      <4> HIDE DEF Left
      <4> QED BY <2>2, <3>4
    <3>6. Delivered(l)
      BY <3>2, <3>3, <3>5 DEF Delivered
    <3> QED BY <2>3, <3>1, <3>6 DEF Progressing, Sent, Arrived, Lands
  <2>5. m \in net.groups /\ ~armed[m] /\ Outs(m) # {}
    BY <2>3, <2>4 DEF Progressing, ReadyWaits, InPortsSet, IsGroup
  <2>6. PICK s \in Outs(m) : TRUE
    BY <2>5
  <2>7. PICK k \in net.links : IsOutOfGroup(k) /\ k.dst = m /\ k.in = s
    BY <1>0, <2>5, WellFormedIs
  <2>8. k.src \in Members(m)
    BY <1>0, <2>7, LinkIs DEF Members, IsOutOfGroup
  <2> QED BY <1>2, <2>3, <2>5, <2>7, <2>8 DEF Progressing, LeavesNext
<1>4. \A m \in Outer : Ran(m)
  BY <1>3
<1>5. \A g \in net.groups : ~armed[g]
  <2> TAKE g \in net.groups
  <2>1. Ran(g)
    BY <1>0, <1>4, PlainIs
  <2> QED BY <2>1 DEF Ordered, GroupsShut
<1>6. \A m \in ToSet(net.list) : m \in Outer \/ net.owner[m] \in net.groups
  BY <1>0, PlainIs
<1>7. \A m \in ToSet(net.list) : m \in Outer \/ m \in done
  BY <1>2, <1>5, <1>6 DEF Members
<1> QED BY <1>4, <1>7 DEF Complete, IsGroup

-----------------------------------------------------------------------------
(* The theorems *)

(* The invariant holds through any sequence of runs, resets and cancels of *)
(* any network.                                                            *)
THEOREM SpecRunInv == ASSUME ~ IsFiniteSet(Systems) PROVE Spec => []RunInv
<1>1. Init => RunInv
  BY InitRun
<1>2. RunInv /\ [Next]_vars => RunInv'
  BY RunInvInductive
<1> QED BY <1>1, <1>2, PTL DEF Spec

(* What run keeps has its type: a port holds a System or nothing, a new    *)
(* System one of its own.                                                  *)
THEOREM SpecTypeOK == ASSUME ~ IsFiniteSet(Systems) PROVE Spec => []TypeOK
<1>1. RunInv => TypeOK
  BY DEF RunInv
<1> QED BY <1>1, SpecRunInv, PTL

(* In every network, what waits in the worklist or executes has all its    *)
(* in-ports set, and waits once: no execution of another module, entry or  *)
(* exit of a group takes its data away before its turn comes.              *)
THEOREM SpecWorklistReady == ASSUME ~ IsFiniteSet(Systems) PROVE Spec => []WorklistReady
<1>1. RunInv => WorklistReady
  BY DEF RunInv
<1> QED BY <1>1, SpecRunInv, PTL

LEMMA SpecOrderInv ==
  ASSUME ~ IsFiniteSet(Systems), \A n \in Nets : Plain(n)
  PROVE  Spec => []OrderInv
<1>1. Init => OrderInv
  BY DEF Init, OrderInv
<1>2. RunInv /\ OrderInv /\ [Next]_vars => OrderInv'
  <2>1. RunInv => Plain(net)
    BY Known
  <2> QED BY <2>1, OrderInductive
<1> QED BY <1>1, <1>2, SpecRunInv, PTL DEF Spec

(* In a run that starts without data on the in-ports, and in every plain   *)
(* network, a module executes once, and after every module linked to it    *)
(* has handed on its data; a member after its group is entered and before  *)
(* it is left.                                                             *)
THEOREM SpecPredecessorsFirst ==
  ASSUME ~ IsFiniteSet(Systems), \A n \in Nets : Plain(n)
  PROVE  Spec => []PredecessorsFirst
<1>1. RunInv /\ OrderInv => PredecessorsFirst
  <2> SUFFICES ASSUME RunInv, OrderInv, pc = "exec", clean
               PROVE  /\ current \notin done
                      /\ \A l \in net.links : l.dst = current =>
                           IF IsIntoGroup(l) THEN status[l.src] = "executing" ELSE l.src \in done
    BY DEF PredecessorsFirst
  <2>1. net \in Nets /\ Plain(net) /\ Ordered
    BY Known DEF OrderInv
  <2>2. current \in ToSet(net.list) \ net.groups
    BY DEF RunInv, Phased
  <2>3. current \in Waiting /\ Root \notin Modules /\ ToSet(net.list) \subseteq Modules
    BY <2>1, <2>2, PlainIs, NetIs DEF Waiting
  <2>4. current \notin done
    BY <2>1, <2>3 DEF Ordered, Once
  <2>5. ASSUME NEW l \in net.links, l.dst = current
        PROVE  IF IsIntoGroup(l) THEN status[l.src] = "executing" ELSE l.src \in done
    <3>1. ~IsOutOfGroup(l)
      BY <2>1, <2>2, <2>5, PlainIs
    <3>2. inPort[l.dst][l.in] # NULL
      BY <2>1, <2>3, <2>5, <3>1, WaitingIs
    <3>3. Delivered(l)
      BY <2>1, <3>1, <3>2 DEF Ordered, Fed
    <3>4. CASE IsIntoGroup(l)
      <4>1. l.src \in net.groups /\ net.owner[current] = l.src
        BY <2>1, <2>5, <3>4, PlainIs DEF IsIntoGroup
      <4>2. Live(l.src)
        BY <3>2, <3>3, <3>4 DEF Live, Delivered, IntoGroup
      <4> QED BY <2>1, <2>3, <3>4, <4>1, <4>2 DEF Ordered, GroupsOpen
    <3>5. CASE ~IsIntoGroup(l)
      BY <3>3, <3>5 DEF Delivered
    <3> QED BY <3>4, <3>5
  <2> QED BY <2>4, <2>5
<1> QED BY <1>1, SpecRunInv, SpecOrderInv, PTL

(* In every plain network whose links lead forward, and that is well       *)
(* formed, a run that starts without data, and in which every module that  *)
(* finishes has written its streams, does not end before every module has  *)
(* run and every group with out-ports has been left.                       *)
THEOREM SpecEveryModuleRuns ==
  ASSUME ~ IsFiniteSet(Systems), \A n \in Nets : Plain(n) /\ Forward(n)
  PROVE  Spec => EveryModuleRuns
<1> DEFINE Ends == pc = "loop" /\ pc' = "idle" /\ ~canceled /\ clean /\ WellFormed /\ AllWritten
<1>1. RunInv => Plain(net) /\ Forward(net)
  BY Known
<1>2. Init => ProgressInv
  BY DEF Init, ProgressInv
<1>3. RunInv /\ OrderInv /\ ProgressInv /\ [Next]_vars => ProgressInv'
  BY <1>1, ProgressInductive
<1>4. RunInv /\ OrderInv /\ ProgressInv /\ [Next]_vars => [Ends => Complete]_vars
  <2> SUFFICES ASSUME RunInv, OrderInv, ProgressInv, Next, Ends PROVE Complete
    OBVIOUS
  <2>1. worklist = <<>>
    BY DEF Next, RunStep, StartRun, Postpone, StartModule, FinishModule, FailModule, EnterGroup,
           FinishGroup, EndRun, EndCanceled, Reset, Cancel, Takes
  <2>2. Waiting = {}
    BY <2>1 DEF Waiting, ToSet, RunInv, Phased
  <2> QED BY <1>1, <2>2, NothingLeft DEF OrderInv, ProgressInv
<1>5. (Ends => Complete) <=>
        ((/\ pc = "loop" /\ pc' = "idle" /\ ~canceled
          /\ clean /\ WellFormed /\ AllWritten)
         => Complete)
  OBVIOUS
<1> HIDE DEF Ends
<1>6. Spec => [][Ends => Complete]_vars
  <2>1. \A n \in Nets : Plain(n)
    OBVIOUS
  <2> QED BY <1>2, <1>3, <1>4, <2>1, SpecRunInv, SpecOrderInv, PTL DEF Spec
<1> QED BY <1>5, <1>6, PTL DEF EveryModuleRuns

(* The progress run reports never exceeds one: every execution that is not *)
(* the first of its module has raised numModulesToFinish before.           *)
THEOREM SpecProgressBounded == ASSUME ~ IsFiniteSet(Systems) PROVE Spec => []ProgressBounded
<1>1. RunInv => ProgressBounded
  <2> SUFFICES ASSUME RunInv PROVE finished <= toFinish
    BY DEF ProgressBounded
  <2>1. net \in Nets /\ finished \in Nat /\ toFinish \in Nat
    BY Known
  <2> DEFINE E == Executed
  <2>2. E \in SUBSET ToSet(net.list)
    BY DEF Executed
  <2>3. /\ pc = "idle" => finished = 0
        /\ pc = "loop" => finished + Len(net.list) <= toFinish + Cardinality(E)
        /\ pc = "exec" => finished + 1 + Len(net.list) <= toFinish + Cardinality(E)
        /\ pc \in {"idle", "loop", "exec"}
    BY DEF RunInv, Counted, TypeOK
  <2> HIDE DEF E
  <2>4. Cardinality(E) \in Nat /\ Cardinality(E) <= Len(net.list) /\ Len(net.list) \in Nat
    BY <2>1, <2>2, ListCounted, NetIs
  <2>5. CASE pc = "idle"
    BY <2>1, <2>3, <2>5
  <2>6. CASE pc = "loop"
    BY <2>1, <2>3, <2>4, <2>6
  <2>7. CASE pc = "exec"
    <3>1. finished + 1 + Len(net.list) <= toFinish + Cardinality(E)
      BY <2>3, <2>7
    <3>2. \A f, t, c, l \in Nat : c <= l /\ f + 1 + l <= t + c => f <= t
      OBVIOUS
    <3>3. finished \in Nat /\ toFinish \in Nat
      BY <2>1
    <3>4. Cardinality(E) \in Nat /\ Len(net.list) \in Nat
      BY <2>4
    <3>5. Cardinality(E) <= Len(net.list)
      BY <2>4
    <3> QED BY <3>1, <3>2, <3>3, <3>4, <3>5
  <2> QED BY <2>3, <2>5, <2>6, <2>7
<1> QED BY <1>1, SpecRunInv, PTL

(* "All successing modules get skipped": once cancel is called no module   *)
(* is started and no group is entered or left, in no order of the loop's   *)
(* steps; only the module that executes at that moment finishes or fails.  *)
THEOREM SpecCancelSkips == Spec => CancelSkips
<1> DEFINE Total == DOMAIN status = Modules
           Skips == canceled => /\ current' \in {current, Root}
                                /\ done' \subseteq done \cup {current}
                                /\ \A m \in Modules \ {current} :
                                     status'[m] \in {"executing", "ok"} => status'[m] = status[m]
<1>1. Init => Total
  BY DEF Init
<1>2. Total /\ [Next]_vars => Total'
  <2>1. Total /\ Next => Total'
    BY DEF Next, RunStep, StartRun, Postpone, StartModule, FinishModule, FailModule, EnterGroup,
           FinishGroup, EndRun, EndCanceled, Reset, Cancel, ResetAll, Checked
  <2>2. UNCHANGED vars => status' = status
    BY DEF vars
  <2> QED BY <2>1, <2>2
<1>3. Total /\ [Next]_vars => [Skips]_vars
  <2> SUFFICES ASSUME Total, Next, canceled PROVE Skips
    OBVIOUS
  <2>1. CASE StartRun
    <3>1. \A x \in Modules : status'[x] \in {"checked", status[x]}
      BY <2>1 DEF StartRun, Checked
    <3> QED BY <2>1, <3>1 DEF StartRun
  <2>2. ASSUME NEW m \in Modules, Takes(m) PROVE FALSE
    BY <2>2 DEF Takes, NotCanceled
  <2>3. ASSUME NEW m \in Modules, NEW used \in SUBSET Streams, FinishModule(m, used)
        PROVE  Skips
    <3>1. /\ m = current /\ current' = Root /\ done' = done \cup {m}
          /\ status' = [status EXCEPT ![m] = "ok"]
      BY <2>3 DEF FinishModule
    <3> QED BY <3>1
  <2>4. ASSUME NEW m \in Modules, NEW used \in SUBSET Streams, FailModule(m, used)
        PROVE  Skips
    <3>1. /\ current' = Root /\ done' = done
          /\ status' = [n \in Modules |-> IF n \in {m, net.owner[m]} THEN "error" ELSE status[n]]
      BY <2>4 DEF FailModule
    <3> QED BY <3>1
  <2>5. CASE EndCanceled \/ Reset
    <3>1. \A x \in Modules : status'[x] \in {"checked", "untouched"}
      BY <2>5 DEF EndCanceled, Reset, ResetAll, Checked
    <3> QED BY <2>5, <3>1 DEF EndCanceled, Reset, locals
  <2>6. CASE EndRun \/ Cancel
    BY <2>6 DEF EndRun, Cancel, history, locals
  <2> QED BY <2>1, <2>2, <2>3, <2>4, <2>5, <2>6
          DEF Next, RunStep, Postpone, StartModule, EnterGroup, FinishGroup
<1> QED BY <1>1, <1>2, <1>3, PTL DEF Spec, CancelSkips

-----------------------------------------------------------------------------
(* Who writes on the way to a port: Trail does not grow after as many      *)
(* links as there are, so a port's trail takes in those of the links to it.*)

TrailOf == [Places -> SUBSET Modules]
Rounds == Cardinality(net.links) + 1
TrailTo(p) == Trail[Rounds][p]

LEMMA PlacesAre ==
  ASSUME net \in Nets
  PROVE  /\ \A p \in Places : p[2] \in Modules /\ p[3] \in Streams /\ Feeding(p) \in SUBSET net.links
                              /\ Itself(p) \in SUBSET Modules
         /\ \A l \in net.links : From(l) \in Places
<1>1. net.links \subseteq Link
  BY NetAssumption DEF IsNet
<1> QED BY <1>1 DEF Places, Feeding, Itself, From, Link

LEMMA TrailUnfolds ==
  ASSUME net \in Nets
  PROVE  /\ Trail \in [Nat -> TrailOf]
         /\ \A p \in Places : Trail[0][p] = {}
         /\ \A n \in Nat, p \in Places :
              Trail[n + 1][p] = Itself(p) \cup UNION {Trail[n][From(l)] : l \in Feeding(p)}
<1> DEFINE Back(x) == [p \in Places |-> Itself(p) \cup UNION {x[From(l)] : l \in Feeding(p)}]
           none == [p \in Places |-> {}]
           step == [x \in TrailOf |-> Back(x)]
<1>1. \A x \in TrailOf : Back(x) \in TrailOf
  <2>1. ASSUME NEW x \in TrailOf, NEW p \in Places
        PROVE  Itself(p) \cup UNION {x[From(l)] : l \in Feeding(p)} \in SUBSET Modules
    <3>1. \A l \in Feeding(p) : x[From(l)] \in SUBSET Modules
      BY PlacesAre DEF TrailOf
    <3> QED BY <3>1, PlacesAre
  <2> QED BY <2>1 DEF TrailOf
<1>2. none \in TrailOf
  BY DEF TrailOf
<1>3. Trail = CHOOSE f : f = [n \in Nat |-> IF n = 0 THEN none ELSE Back(f[n - 1])]
  BY DEF Trail
<1>4. \A x \in TrailOf : step[x] = Back(x)
  OBVIOUS
<1>z. \A p \in Places : none[p] = {}
  OBVIOUS
<1>b. \A x, p : p \in Places => Back(x)[p] = Itself(p) \cup UNION {x[From(l)] : l \in Feeding(p)}
  OBVIOUS
<1> HIDE DEF Back, none, step
<1>5. PICK f : Iterates(f, none, step) /\ \A n \in Nat : f[n] \in TrailOf
  <2>1. \A x \in TrailOf : step[x] \in TrailOf
    BY <1>1, <1>4
  <2> QED BY <1>2, <2>1, RecursionOnNat
<1>6. f = [n \in Nat |-> IF n = 0 THEN none ELSE Back(f[n - 1])]
  <2>1. \A n \in Nat : n # 0 => n - 1 \in Nat
    OBVIOUS
  <2>2. \A n \in Nat : n # 0 => step[f[n - 1]] = Back(f[n - 1])
    BY <1>4, <1>5, <2>1
  <2> QED BY <1>5, <2>2 DEF Iterates
<1>7. Trail = [n \in Nat |-> IF n = 0 THEN none ELSE Back(Trail[n - 1])]
  BY <1>3, <1>6
<1>8. \A n \in Nat : Trail[n + 1] = Back(Trail[n])
  <2> TAKE n \in Nat
  <2>1. n + 1 \in Nat /\ n + 1 # 0 /\ (n + 1) - 1 = n
    OBVIOUS
  <2> QED BY <1>7, <2>1
<1>9. Trail[0] = none
  BY <1>7
<1>10. ASSUME NEW n \in Nat PROVE Trail[n] \in TrailOf
  <2> DEFINE V == {k \in Nat : Trail[k] \in TrailOf}
  <2>1. 0 \in V
    BY <1>2, <1>9
  <2>2. \A k \in 1..n : k - 1 \in V => k \in V
    <3> TAKE k \in 1..n
    <3>1. k - 1 \in Nat /\ k \in Nat /\ (k - 1) + 1 = k
      OBVIOUS
    <3>2. Trail[k] = Back(Trail[k - 1])
      BY <1>8, <3>1
    <3> QED BY <1>1, <3>1, <3>2
  <2>3. \A k \in V : Trail[k] \in TrailOf
    OBVIOUS
  <2> HIDE DEF V
  <2>4. n \in V
    BY <2>1, <2>2, StepByStep
  <2> QED BY <2>3, <2>4
<1>11. Trail \in [Nat -> TrailOf]
  <2>1. Trail = [n \in Nat |-> Trail[n]]
    BY <1>7
  <2> QED BY <1>10, <2>1
<1> QED BY <1>8, <1>9, <1>11, <1>b, <1>z

LEMMA TrailGrows ==
  ASSUME net \in Nets, NEW n \in Nat
  PROVE  \A p \in Places : Trail[n][p] \subseteq Trail[n + 1][p]
<1> DEFINE V == {k \in Nat : \A p \in Places : Trail[k][p] \subseteq Trail[k + 1][p]}
<1>1. 0 \in V
  BY TrailUnfolds
<1>2. \A k \in 1..n : k - 1 \in V => k \in V
  <2> SUFFICES ASSUME NEW k \in 1..n, k - 1 \in V PROVE k \in V
    OBVIOUS
  <2>1. k - 1 \in Nat /\ k \in Nat /\ (k - 1) + 1 = k
    OBVIOUS
  <2>2. \A p \in Places :
          /\ Trail[k][p] = Itself(p) \cup UNION {Trail[k - 1][From(l)] : l \in Feeding(p)}
          /\ Trail[k + 1][p] = Itself(p) \cup UNION {Trail[k][From(l)] : l \in Feeding(p)}
    <3>1. \A j \in Nat : \A p \in Places :
            Trail[j + 1][p] = Itself(p) \cup UNION {Trail[j][From(l)] : l \in Feeding(p)}
      BY TrailUnfolds
    <3>2. \A p \in Places :
            Trail[(k - 1) + 1][p] = Itself(p) \cup UNION {Trail[k - 1][From(l)] : l \in Feeding(p)}
      BY <2>1, <3>1
    <3> QED BY <2>1, <3>1, <3>2
  <2>3. ASSUME NEW p \in Places, NEW l \in Feeding(p)
        PROVE  Trail[k - 1][From(l)] \subseteq Trail[k][From(l)]
    <3>1. From(l) \in Places
      BY <2>3, PlacesAre
    <3>2. \A q \in Places : Trail[k - 1][q] \subseteq Trail[(k - 1) + 1][q]
      OBVIOUS
    <3> QED BY <2>1, <3>1, <3>2
  <2>4. \A p \in Places : Trail[k][p] \subseteq Trail[k + 1][p]
    BY <2>2, <2>3
  <2> QED BY <2>1, <2>4
<1>3. \A k \in V : \A p \in Places : Trail[k][p] \subseteq Trail[k + 1][p]
  OBVIOUS
<1> HIDE DEF V
<1>4. n \in V
  <2>1. 0..n \subseteq V
    BY <1>1, <1>2, StepByStep
  <2> QED BY <2>1
<1> QED BY <1>3, <1>4

LEMMA TrailSettles ==
  ASSUME net \in Nets, NEW p \in Places
  PROVE  /\ TrailTo(p) \in SUBSET Modules /\ Itself(p) \subseteq TrailTo(p)
         /\ \A l \in Feeding(p) : TrailTo(From(l)) \subseteq TrailTo(p)
<1> DEFINE N == Cardinality(net.links)
<1>1. net.links \in SUBSET Link
  BY NetAssumption DEF IsNet
<1>2. IsFiniteSet(net.links) /\ N \in Nat
  BY <1>1, LinksFinite, FS_Subset, FS_CardinalityType
<1>3. /\ Trail[N + 1] \in TrailOf
      /\ Trail[N + 1][p] = Itself(p) \cup UNION {Trail[N][From(l)] : l \in Feeding(p)}
  BY <1>2, TrailUnfolds
<1>4. ASSUME NEW l \in Feeding(p), NEW x \in Trail[N + 1][From(l)]
      PROVE  x \in Trail[N][From(l)]
  <2> DEFINE R == [n \in Nat |-> {k \in net.links : x \in Trail[n][From(k)]}]
             V == {n \in Nat : R[n] = R[n + 1] \/ n <= Cardinality(R[n])}
             L == net.links
  <2>1. \A n \in Nat : /\ R[n] \in SUBSET L /\ IsFiniteSet(R[n])
                       /\ Cardinality(R[n]) \in Nat /\ Cardinality(R[n]) <= N
                       /\ Cardinality(R[n]) = N => R[n] = L
    <3> TAKE n \in Nat
    <3>1. R[n] \in SUBSET L
      OBVIOUS
    <3> HIDE DEF R
    <3> QED BY <1>2, <3>1, FS_Subset, FS_CardinalityType
  <2>2. \A n \in Nat : R[n] \subseteq R[n + 1]
    <3> SUFFICES ASSUME NEW n \in Nat, NEW k \in R[n] PROVE k \in R[n + 1]
      OBVIOUS
    <3>1. k \in net.links /\ x \in Trail[n][From(k)]
      OBVIOUS
    <3>2. From(k) \in Places
      BY <3>1, PlacesAre
    <3>3. x \in Trail[n + 1][From(k)]
      BY <3>1, <3>2, TrailGrows
    <3> QED BY <3>1, <3>3
  <2>3. \A n \in Nat : R[n] = R[n + 1] => R[n + 1] = R[(n + 1) + 1]
    <3> SUFFICES ASSUME NEW n \in Nat, R[n] = R[n + 1] PROVE R[n + 1] = R[(n + 1) + 1]
      OBVIOUS
    <3>0. n + 1 \in Nat /\ R[n + 1] \subseteq R[(n + 1) + 1]
      <4> HIDE DEF R
      <4> QED BY <2>2
    <3> SUFFICES ASSUME NEW k \in R[(n + 1) + 1] PROVE k \in R[n + 1]
      BY <3>0
    <3>1. k \in net.links /\ x \in Trail[(n + 1) + 1][From(k)] /\ From(k) \in Places /\ n + 1 \in Nat
      BY PlacesAre
    <3>2. x \in Itself(From(k)) \cup UNION {Trail[n + 1][From(j)] : j \in Feeding(From(k))}
      BY <3>1, TrailUnfolds
    <3>3. \A j \in Feeding(From(k)) : x \in Trail[n + 1][From(j)] => x \in Trail[n][From(j)]
      <4> TAKE j \in Feeding(From(k))
      <4>1. j \in net.links
        BY <3>1, PlacesAre
      <4>2. x \in Trail[n + 1][From(j)] => j \in R[n + 1]
        BY <4>1
      <4>3. j \in R[n] => x \in Trail[n][From(j)]
        OBVIOUS
      <4> QED BY <4>2, <4>3
    <3>4. x \in Itself(From(k)) \cup UNION {Trail[n][From(j)] : j \in Feeding(From(k))}
      BY <3>2, <3>3
    <3>5. x \in Trail[n + 1][From(k)]
      BY <3>1, <3>4, TrailUnfolds
    <3> QED BY <3>1, <3>5
  <2>l. l \in L /\ l \in R[N + 1] /\ (l \in R[N] => x \in Trail[N][From(l)])
    <3>1. l \in L
      BY PlacesAre
    <3> QED BY <1>2, <3>1
  <2> HIDE DEF R, L, N
  <2>4. 0 \in V
    BY <2>1
  <2>5. \A n \in 1..N : n - 1 \in V => n \in V
    <3> TAKE n \in 1..N
    <3> HAVE n - 1 \in V
    <3>n. n \in Nat
      BY <1>2
    <3> SUFFICES ASSUME R[n] # R[n + 1] PROVE n <= Cardinality(R[n])
      BY <3>n
    <3>1. n - 1 \in Nat /\ n \in Nat /\ (n - 1) + 1 = n
      BY <1>2
    <3>2. R[n - 1] # R[n] /\ n - 1 <= Cardinality(R[n - 1])
      BY <2>3, <3>1
    <3>3. /\ R[n - 1] \in SUBSET R[n] /\ IsFiniteSet(R[n])
          /\ Cardinality(R[n - 1]) \in Nat /\ Cardinality(R[n]) \in Nat
      BY <2>1, <2>2, <3>1
    <3>4. Cardinality(R[n - 1]) <= Cardinality(R[n]) /\ Cardinality(R[n - 1]) # Cardinality(R[n])
      BY <3>2, <3>3, FS_Subset
    <3> QED BY <3>1, <3>2, <3>3, <3>4
  <2>6. N \in V
    <3> HIDE DEF V
    <3>1. 0..N \subseteq V
      BY <1>2, <2>4, <2>5, StepByStep
    <3> QED BY <1>2, <3>1
  <2>7. R[N] = R[N + 1] \/ N <= Cardinality(R[N])
    BY <2>6
  <2>8. N <= Cardinality(R[N]) => R[N] = L
    BY <1>2, <2>1
  <2> QED BY <2>7, <2>8, <2>l
<1>5. \A l \in Feeding(p) : Trail[N + 1][From(l)] \subseteq Trail[N + 1][p]
  BY <1>3, <1>4
<1> QED BY <1>3, <1>5 DEF TrailTo, Rounds, TrailOf

-----------------------------------------------------------------------------
(* Who holds what: no two places hold the same System, the in- and the     *)
(* out-port of a module aside, and what was written to it was written on   *)
(* the way to the place.                                                   *)

Holding(in, out) == [p \in Places |-> IF p[1] = "in" THEN in[p[2]][p[3]] ELSE out[p[2]][p[3]]]
Same(p, q) == p[2] = q[2] /\ p[3] = q[3] /\ (p[1] = q[1] \/ p[2] \notin net.groups)
Alone(h, C) == \A p, q \in C : h[p] # NULL /\ h[p] = h[q] => Same(p, q)
Within(h, C, con) == \A p \in C : h[p] # NULL => con[h[p]] \subseteq TrailTo(p)

(* What a shift along the links ls does, with the Systems D: places get it *)
(* along their links, those of new had no place before, the others leave   *)
(* theirs.                                                                 *)
Arrives(ls, D, h, h2, C, C2) ==
  \A p \in C2 : \/ h2[p] = NULL
                \/ p \in C /\ h2[p] = h[p]
                \/ \E l \in ls : l \in Feeding(p) /\ h2[p] = D[l]
Leaves(ls, D, h, h2, C2) ==
  /\ \A l \in ls : D[l] = h[From(l)] /\ \A q \in C2 : Same(q, From(l)) => h2[q] = NULL
  /\ \A k, l \in ls : Same(From(k), From(l)) => k = l
Anew(new, D, h, con, con2) ==
  /\ \A l \in new : con2[D[l]] = con[h[From(l)]] /\ \A p \in Places : h[p] # D[l]
  /\ \A k, l \in new : D[k] = D[l] => k = l
  /\ \A y \in Systems : (\A l \in new : D[l] # y) => con2[y] = con[y]

LEMMA SamePlace ==
  ASSUME net \in Nets, NEW p \in Places, NEW q \in Places, NEW l \in net.links,
         l \in Feeding(p), l \in Feeding(q)
  PROVE  Same(p, q)
  BY DEF Feeding, Same, Places, IsGroup

LEMMA MovesAlone ==
  ASSUME net \in Nets, NEW ls \in SUBSET net.links, NEW new \in SUBSET ls,
         NEW C \in SUBSET Places, NEW C2 \in SUBSET Places,
         NEW h \in [Places -> Systems \cup {NULL}], NEW h2, NEW D \in [ls -> Systems],
         NEW con, NEW con2,
         \A l \in ls : From(l) \in C /\ h[From(l)] # NULL,
         Arrives(ls, D, h, h2, C, C2), Leaves(ls \ new, D, h, h2, C2),
         Anew(new, D, h, con, con2), Alone(h, C), Within(h, C, con)
  PROVE  Alone(h2, C2) /\ Within(h2, C2, con2)
<1>1. \A k, l \in ls : D[k] = D[l] => k = l
  <2> SUFFICES ASSUME NEW k \in ls, NEW l \in ls, D[k] = D[l] PROVE k = l
    OBVIOUS
  <2>1. CASE k \in new /\ l \in new
    BY <2>1 DEF Anew
  <2>2. CASE k \in new /\ l \notin new
    BY <2>2 DEF Anew, Leaves
  <2>3. CASE k \notin new /\ l \in new
    BY <2>3 DEF Anew, Leaves
  <2>4. CASE k \notin new /\ l \notin new
    <3>1. h[From(k)] = h[From(l)]
      BY <2>4 DEF Leaves
    <3>2. Same(From(k), From(l))
      BY <3>1 DEF Alone
    <3> QED BY <2>4, <3>2 DEF Leaves
  <2> QED BY <2>1, <2>2, <2>3, <2>4
(* What stays where it was is none of the Systems that arrive.             *)
<1>2. ASSUME NEW p \in C \cap C2, h2[p] # NULL, h2[p] = h[p], NEW l \in ls PROVE h[p] # D[l]
  <2>1. CASE l \in new
    BY <2>1 DEF Anew
  <2>2. CASE l \notin new
    <3> SUFFICES ASSUME h[p] = D[l] PROVE FALSE
      OBVIOUS
    <3>1. h[p] = h[From(l)]
      BY <2>2 DEF Leaves
    <3>2. Same(p, From(l))
      BY <1>2, <3>1 DEF Alone
    <3> QED BY <1>2, <2>2, <3>2 DEF Leaves
  <2> QED BY <2>1, <2>2
<1>3. Alone(h2, C2)
  <2> SUFFICES ASSUME NEW p \in C2, NEW q \in C2, h2[p] # NULL, h2[p] = h2[q] PROVE Same(p, q)
    BY DEF Alone
  <2>1. CASE p \in C /\ h2[p] = h[p] /\ q \in C /\ h2[q] = h[q]
    BY <2>1 DEF Alone
  <2>2. ASSUME p \in C, h2[p] = h[p], NEW l \in ls, h2[q] = D[l] PROVE FALSE
    BY <1>2, <2>2
  <2>3. ASSUME q \in C, h2[q] = h[q], NEW l \in ls, h2[p] = D[l] PROVE FALSE
    BY <1>2, <2>3
  <2>4. ASSUME NEW k \in ls, k \in Feeding(p), h2[p] = D[k],
               NEW l \in ls, l \in Feeding(q), h2[q] = D[l]
        PROVE  Same(p, q)
    <3>1. k = l
      BY <1>1, <2>4
    <3> QED BY <2>4, <3>1, SamePlace
  <2> QED BY <2>1, <2>2, <2>3, <2>4 DEF Arrives
<1>4. Within(h2, C2, con2)
  <2> SUFFICES ASSUME NEW p \in C2, h2[p] # NULL PROVE con2[h2[p]] \subseteq TrailTo(p)
    BY DEF Within
  <2>1. CASE p \in C /\ h2[p] = h[p]
    <3>1. h[p] \in Systems /\ \A l \in new : D[l] # h[p]
      BY <1>2, <2>1
    <3>2. con2[h[p]] = con[h[p]]
      BY <3>1 DEF Anew
    <3> QED BY <2>1, <3>2 DEF Within
  <2>2. ASSUME NEW l \in ls, l \in Feeding(p), h2[p] = D[l] PROVE con2[h2[p]] \subseteq TrailTo(p)
    <3>1. con[h[From(l)]] \subseteq TrailTo(From(l))
      BY DEF Within
    <3>2. TrailTo(From(l)) \subseteq TrailTo(p)
      BY <2>2, TrailSettles
    <3>3. con2[D[l]] = con[h[From(l)]]
      <4>1. CASE l \in new
        BY <4>1 DEF Anew
      <4>2. CASE l \notin new
        <5>1. D[l] = h[From(l)] /\ D[l] \in Systems
          BY <4>2 DEF Leaves
        <5>2. \A k \in new : D[k] # D[l]
          BY <1>1, <4>2
        <5> QED BY <5>1, <5>2 DEF Anew
      <4> QED BY <4>1, <4>2
    <3> QED BY <2>2, <3>1, <3>2, <3>3
  <2> QED BY <2>1, <2>2 DEF Arrives
<1> QED BY <1>3, <1>4

(* Shifted with the Systems it hands on. *)
Moved(ls, new, src, h, hs, written, con, D) ==
  /\ D \in [ls -> Systems]
  /\ \A p \in Places : hs[p] = h[p] \/ \E l \in ls : l \in Feeding(p) /\ hs[p] = D[l]
  /\ \A p \in Places : Itself(p) = {} /\ ls \cap Feeding(p) # {}
                        => \E l \in ls : l \in Feeding(p) /\ hs[p] = D[l]
  /\ \A l \in ls \ new : D[l] = src[l]
  /\ \A l \in new : con[D[l]] = written[src[l]] /\ \A p \in Places : h[p] # D[l]
  /\ \A k, l \in new : D[k] = D[l] => k = l
  /\ \A y \in Systems : (\A l \in new : D[l] # y) => con[y] = written[y]

LEMMA HoldingIs ==
  ASSUME NEW in \in Ports, NEW out \in Ports
  PROVE  /\ Holding(in, out) \in [Places -> Systems \cup {NULL}]
         /\ \A m \in Modules, s \in Streams :
              /\ <<"in", m, s>> \in Places /\ Holding(in, out)[<<"in", m, s>>] = in[m][s]
              /\ <<"out", m, s>> \in Places /\ Holding(in, out)[<<"out", m, s>>] = out[m][s]
         /\ \A p \in Places : Holding(in, out)[p] # NULL => Holding(in, out)[p] \in Held(in, out)
<1> DEFINE h == Holding(in, out)
<1>1. ASSUME NEW m \in Modules, NEW s \in Streams
      PROVE  /\ in[m][s] \in Systems \cup {NULL} /\ out[m][s] \in Systems \cup {NULL}
             /\ in[m][s] # NULL => in[m][s] \in Held(in, out)
             /\ out[m][s] # NULL => out[m][s] \in Held(in, out)
  <2>1. in[m][s] \in Systems \cup {NULL} /\ out[m][s] \in Systems \cup {NULL}
    BY DEF Ports, Port
  <2> DEFINE All == {{in[n][t], out[n][t]} : n \in Modules, t \in Streams}
  <2>2. {in[m][s], out[m][s]} \in All
    OBVIOUS
  <2>3. Held(in, out) = (UNION All) \ {NULL}
    BY DEF Held
  <2> HIDE DEF All
  <2> QED BY <2>1, <2>2, <2>3
<1>2. ASSUME NEW m \in Modules, NEW s \in Streams
      PROVE  /\ <<"in", m, s>> \in Places /\ h[<<"in", m, s>>] = in[m][s]
             /\ <<"out", m, s>> \in Places /\ h[<<"out", m, s>>] = out[m][s]
  BY DEF Places, Holding
<1>3. ASSUME NEW p \in Places
      PROVE  \E m \in Modules, s \in Streams : h[p] = in[m][s] \/ h[p] = out[m][s]
  BY DEF Places, Holding
<1>4. h \in [Places -> Systems \cup {NULL}]
  <2>1. \A p \in Places : h[p] \in Systems \cup {NULL}
    <3> HIDE DEF h
    <3> QED BY <1>1, <1>3
  <2>2. h = [p \in Places |-> h[p]]
    BY DEF Holding
  <2> HIDE DEF h
  <2> QED BY <2>1, <2>2
<1> HIDE DEF h
<1>5. \A p \in Places : h[p] # NULL => h[p] \in Held(in, out)
  BY <1>1, <1>3
<1> QED BY <1>2, <1>4, <1>5 DEF h

LEMMA ShiftedMoves ==
  ASSUME ~ IsFiniteSet(Systems), net \in Nets,
         NEW in, NEW out, NEW ls, NEW new, NEW src, NEW written,
         Shiftable(ls, new, src, in, out, written)
  PROVE  LET sh == Shifted(ls, new, src, in, out, written)
         IN \E D : Moved(ls, new, src, Holding(in, out), Holding(sh.in, sh.out), written,
                         sh.content, D)
<1> DEFINE name == Named(new, in, out)
           data == [l \in ls |-> IF l \in new THEN name[l] ELSE src[l]]
           Into(m, s) == {l \in ls : l.dst = m /\ l.in = s /\ ~IsOutOfGroup(l)}
           Upon(m, s) == {l \in ls : l.dst = m /\ l.in = s /\
                            (IsOutOfGroup(l) \/ (s \in Outs(m) /\ ~IsGroup(m)))}
           Put(port, m, s, from) ==
             IF from = {} THEN port[m][s] ELSE data[CHOOSE l \in from : TRUE]
           sh == Shifted(ls, new, src, in, out, written)
           h == Holding(in, out)
           hs == Holding(sh.in, sh.out)
<1>0. /\ in \in Ports /\ out \in Ports
      /\ ls \in SUBSET net.links /\ new \in SUBSET ls /\ src \in [ls -> Systems]
      /\ written \in [Systems -> SUBSET Modules]
  BY DEF Shiftable
<1> USE <1>0
<1>1. NULL \notin Systems
  BY RunAssumption
<1>2. IsFiniteSet(new)
  <2>1. new \in SUBSET Link
    BY NetAssumption DEF IsNet
  <2> QED BY <2>1, LinksFinite, FS_Subset
<1>3. name \in [new -> Systems \ Held(in, out)] /\ IsInjective(name)
  BY <1>2, HeldFinite, NamedIs
<1>4. /\ data \in [ls -> Systems]
      /\ \A l \in new : data[l] = name[l]
      /\ \A l \in ls \ new : data[l] = src[l]
  <2> HIDE DEF name
  <2> QED BY <1>3
<1>5. /\ sh.in = [m \in Modules |-> [s \in Streams |-> Put(in, m, s, Into(m, s))]]
      /\ sh.out = [m \in Modules |-> [s \in Streams |-> Put(out, m, s, Upon(m, s))]]
      /\ sh.content = [y \in Systems |->
           LET as == {l \in new : name[l] = y}
           IN IF as = {} THEN written[y] ELSE written[src[CHOOSE l \in as : TRUE]]]
  BY DEF Shifted
<1> HIDE DEF data, sh, name
<1>6. ASSUME NEW m \in Modules, NEW s \in Streams
      PROVE  \/ sh.in[m][s] = in[m][s] /\ ls \cap Feeding(<<"in", m, s>>) = {}
             \/ \E l \in ls : l \in Feeding(<<"in", m, s>>) /\ sh.in[m][s] = data[l]
  <2>1. CASE Into(m, s) = {}
    <3>1. ls \cap Feeding(<<"in", m, s>>) = {}
      BY <2>1 DEF Feeding
    <3>2. sh.in[m][s] = in[m][s]
      BY <1>5, <2>1
    <3> QED BY <3>1, <3>2
  <2>2. CASE Into(m, s) # {}
    <3>1. PICK l \in Into(m, s) : l = CHOOSE k \in Into(m, s) : TRUE
      BY <2>2
    <3>2. sh.in[m][s] = data[l]
      BY <1>5, <2>2, <3>1
    <3>3. l \in Feeding(<<"in", m, s>>)
      BY <3>1 DEF Feeding
    <3> QED BY <3>1, <3>2, <3>3
  <2> QED BY <2>1, <2>2
<1>7. ASSUME NEW m \in Modules, NEW s \in Streams
      PROVE  \/ sh.out[m][s] = out[m][s] /\ (IsGroup(m) => ls \cap Feeding(<<"out", m, s>>) = {})
             \/ \E l \in ls : l \in Feeding(<<"out", m, s>>) /\ sh.out[m][s] = data[l]
  <2>1. CASE Upon(m, s) = {}
    <3>1. IsGroup(m) => ls \cap Feeding(<<"out", m, s>>) = {}
      BY <2>1 DEF Feeding
    <3>2. sh.out[m][s] = out[m][s]
      BY <1>5, <2>1
    <3> QED BY <3>1, <3>2
  <2>2. CASE Upon(m, s) # {}
    <3>1. PICK l \in Upon(m, s) : l = CHOOSE k \in Upon(m, s) : TRUE
      BY <2>2
    <3>2. sh.out[m][s] = data[l]
      BY <1>5, <2>2, <3>1
    <3>3. IsOutOfGroup(l) => IsGroup(m)
      <4>1. l \in net.links /\ l.src \in Modules /\ l.dst = m
        BY <3>1, NetAssumption DEF IsNet, Link
      <4>2. net.owner[l.src] \in net.groups \cup {Root}
        BY <4>1, NetAssumption DEF IsNet
      <4> QED BY <4>1, <4>2, RunAssumption DEF IsOutOfGroup, IsGroup
    <3>4. l \in Feeding(<<"out", m, s>>)
      BY <3>1, <3>3 DEF Feeding
    <3> QED BY <3>1, <3>2, <3>4
  <2> QED BY <2>1, <2>2
<1> HIDE DEF Put, Into, Upon
<1>8. \A p \in Places : \/ hs[p] = h[p] /\ (Itself(p) = {} => ls \cap Feeding(p) = {})
                      \/ \E l \in ls : l \in Feeding(p) /\ hs[p] = data[l]
  <2> TAKE p \in Places
  <2>1. CASE p[1] = "in"
    <3>1. p = <<"in", p[2], p[3]>> /\ p[2] \in Modules /\ p[3] \in Streams
      BY <2>1 DEF Places
    <3>2. h[p] = in[p[2]][p[3]] /\ hs[p] = sh.in[p[2]][p[3]]
      BY <2>1 DEF Holding
    <3> QED BY <1>6, <3>1, <3>2
  <2>2. CASE p[1] = "out"
    <3>1. p = <<"out", p[2], p[3]>> /\ p[2] \in Modules /\ p[3] \in Streams
      BY <2>2 DEF Places
    <3>2. h[p] = out[p[2]][p[3]] /\ hs[p] = sh.out[p[2]][p[3]]
      BY <2>2 DEF Holding
    <3>3. Itself(p) = {} => IsGroup(p[2])
      BY <2>2 DEF Itself
    <3> QED BY <1>7, <3>1, <3>2, <3>3
  <2> QED BY <2>1, <2>2 DEF Places
<1>9. \A k, l \in new : name[k] = name[l] => k = l
  BY <1>3 DEF IsInjective
<1>10. ASSUME NEW l \in new
       PROVE  sh.content[data[l]] = written[src[l]] /\ \A p \in Places : h[p] # data[l]
  <2>1. name[l] \in Systems /\ name[l] \notin Held(in, out) /\ data[l] = name[l]
    BY <1>3, <1>4
  <2>2. \A p \in Places : h[p] # data[l]
    BY <1>1, <2>1, HoldingIs
  <2>3. {k \in new : name[k] = name[l]} = {l}
    BY <1>9
  <2>4. (CHOOSE k \in {l} : TRUE) = l
    OBVIOUS
  <2>5. sh.content[name[l]] = written[src[l]]
    BY <1>5, <2>1, <2>3, <2>4
  <2> QED BY <2>1, <2>2, <2>5
<1>11. ASSUME NEW y \in Systems, \A l \in new : data[l] # y PROVE sh.content[y] = written[y]
  <2>1. {l \in new : name[l] = y} = {}
    BY <1>4, <1>11
  <2> QED BY <1>5, <2>1
<1>12. Moved(ls, new, src, h, hs, written, sh.content, data)
  <2> HIDE DEF h, hs
  <2> QED BY <1>4, <1>8, <1>9, <1>10, <1>11 DEF Moved
<1> QED BY <1>12 DEF sh, h, hs

LEMMA PairCounted ==
  ASSUME NEW k, NEW l, k # l
  PROVE  Cardinality({k, l}) = 2
<1>1. IsFiniteSet({k}) /\ Cardinality({k}) = 1
  BY FS_Singleton
<1>2. Cardinality({k} \cup {l}) = Cardinality({k}) + 1
  BY <1>1, FS_AddElement
<1>3. {k} \cup {l} = {k, l}
  OBVIOUS
<1> QED BY <1>1, <1>2, <1>3

(* The in-ports that shiftModuleOutput empties. *)
Left(m) == IF KeepsInPorts(m) THEN {} ELSE {p \in Places : p[1] = "in" /\ p[2] = m}

(* The shifts of the program in these terms: links that have data hand it  *)
(* on, and it is wherever they lead.                                       *)
Feeds(ls, D, h2) ==
  \A p \in Places : Itself(p) = {} /\ ls \cap Feeding(p) # {}
                   => h2[p] = NULL \/ \E l \in ls : l \in Feeding(p) /\ h2[p] = D[l]
Handed(ls, new, D, h, h2, con, con2) ==
  /\ ls \in SUBSET net.links /\ new \in SUBSET ls /\ D \in [ls -> Systems]
  /\ \A l \in ls : From(l) \in Places /\ h[From(l)] # NULL
  /\ Arrives(ls, D, h, h2, Places, Places) /\ Feeds(ls, D, h2)
  /\ \A l \in ls \ new : D[l] = h[From(l)]
  /\ Anew(new, D, h, con, con2)
Branches(m, out) == {l \in Outgoing(m) : out[m][l.out] # NULL}
ModuleMoves(m, out, written, new, D) ==
  /\ Handed(Branches(m, out), new, D, Holding(inPort, out), Holding(inPort', outPort'),
            written, content')
  /\ Leaves(Branches(m, out) \ new, D, Holding(inPort, out), Holding(inPort', outPort'), Places)
  /\ \A p \in Left(m) : Holding(inPort', outPort')[p] = NULL
Inward(g) == {l \in IntoGroup(g) : inPort[g][l.out] # NULL}
GroupMoves(g, out, new, D) ==
  /\ Handed(Inward(g), new, D, Holding(inPort, out), Holding(inPort', outPort'),
            content, content')
  /\ ~FansOutUnsplit =>
       Leaves(Inward(g) \ new, D, Holding(inPort, out), Holding(inPort', outPort'),
              {p \in Places : ~ (p[1] = "in" /\ p[2] = g)})

LEMMA ShiftModuleOutputMoves ==
  ASSUME ~ IsFiniteSet(Systems), net \in Nets, NEW m \in Modules,
         inPort \in Ports, NEW out \in Ports, NEW written \in [Systems -> SUBSET Modules],
         NEW rest, ShiftModuleOutput(m, out, written, rest)
  PROVE  \E new, D : ModuleMoves(m, out, written, new, D)
<1> DEFINE branches == Branches(m, out)
           new == Derived(branches, m)
           src == [l \in branches |-> out[m][l.out]]
           sh == Shifted(branches, new, src, inPort, out, written)
           h == Holding(inPort, out)
           hs == Holding(sh.in, sh.out)
           h2 == Holding(inPort', outPort')
<1>b. branches = {l \in Outgoing(m) : out[m][l.out] # NULL}
  BY DEF Branches
<1>1. branches \in SUBSET net.links /\ new \in SUBSET branches
  BY DEF Outgoing, Derived, Branches
<1>l. net.links \in SUBSET Link
  BY NetAssumption DEF IsNet
<1>2. \A l \in branches : /\ src[l] = out[m][l.out] /\ out[m][l.out] # NULL /\ l.out \in Streams
                         /\ From(l) = <<"out", m, l.out>>
  BY <1>1, <1>b, <1>l DEF Outgoing, From, Link
<1>3. src \in [branches -> Systems]
  <2>1. \A l \in branches : out[m][l.out] \in Systems
    <3> HIDE DEF branches
    <3> QED BY <1>2 DEF Ports, Port
  <2> HIDE DEF branches
  <2> QED BY <2>1
(* A branch that keeps its System is the only one of its out-port.         *)
<1>4. \A k, l \in branches \ new : k.out = l.out => k = l
  <2> SUFFICES ASSUME NEW k \in branches \ new, NEW l \in branches \ new, k.out = l.out, k # l
               PROVE  FALSE
    OBVIOUS
  <2> DEFINE both == {j \in branches : j.out = l.out}
  <2>1. both \in SUBSET Link
    BY <1>1, <1>l
  <2>2. ~ (Cardinality(both) > 1)
    BY DEF Derived
  <2>3. {k, l} \in SUBSET both
    OBVIOUS
  <2> HIDE DEF both
  <2>4. IsFiniteSet(both) /\ Cardinality(both) \in Nat
    BY <2>1, LinksFinite, FS_Subset, FS_CardinalityType
  <2>5. Cardinality({k, l}) = 2
    BY PairCounted
  <2>6. Cardinality({k, l}) <= Cardinality(both)
    BY <2>3, <2>4, FS_Subset
  <2> QED BY <2>2, <2>4, <2>5, <2>6
<1>5. /\ outPort' = Emptied(sh.out, m, {l.out : l \in branches \ new})
      /\ inPort' = IF KeepsInPorts(m) THEN sh.in ELSE Emptied(sh.in, m, Streams)
      /\ content' = sh.content
  BY DEF ShiftModuleOutput, Branches
(* A module that keeps its in-ports has no out-ports.                      *)
<1>k. KeepsInPorts(m) => branches = {}
  <2> SUFFICES ASSUME Outs(m) = {}, NEW l \in branches PROVE FALSE
    BY DEF KeepsInPorts
  <2>1. IsLinkingValid(net, l) /\ l.src = m /\ net.owner[l.dst] # m
    BY <1>b, NetAssumption DEF IsNet, Outgoing, IsIntoGroup
  <2> QED BY <2>1 DEF IsLinkingValid, Outs
<1>6. Shiftable(branches, new, src, inPort, out, written)
  BY <1>1, <1>3 DEF Shiftable
<1> HIDE DEF branches, new, src
<1>7. sh.in \in Ports /\ sh.out \in Ports
  BY <1>6, ShiftedIs
<1>8. \E D : Moved(branches, new, src, h, hs, written, sh.content, D)
  BY <1>6, ShiftedMoves
<1> HIDE DEF sh
<1>h. /\ h \in [Places -> Systems \cup {NULL}]
      /\ \A s \in Streams : h[<<"out", m, s>>] = out[m][s] /\ <<"out", m, s>> \in Places
  BY HoldingIs
<1>9. ASSUME NEW p \in Places
      PROVE  /\ h2[p] = NULL \/ h2[p] = hs[p]
             /\ p \in Left(m) => h2[p] = NULL
             /\ ~KeepsInPorts(m) /\ p[1] = "in" /\ p[2] = m => h2[p] = NULL
             /\ \A l \in branches \ new : p = <<"out", m, l.out>> => h2[p] = NULL
  <2>1. CASE p[1] = "in"
    <3>1. /\ h2[p] = inPort'[p[2]][p[3]] /\ hs[p] = sh.in[p[2]][p[3]]
          /\ p[2] \in Modules /\ p[3] \in Streams /\ p # <<"out", m, p[3]>>
      BY <2>1 DEF Holding, Places
    <3>2. \A l : p # <<"out", m, l.out>>
      BY <2>1
    <3>3. inPort'[p[2]][p[3]] \in {NULL, sh.in[p[2]][p[3]]}
      BY <1>5, <1>7, <3>1, EmptiedIs
    <3>4. ~KeepsInPorts(m) /\ p[2] = m => inPort'[p[2]][p[3]] = NULL
      BY <1>5, <1>7, <3>1, EmptiedIs
    <3> QED BY <3>1, <3>2, <3>3, <3>4 DEF Left
  <2>2. CASE p[1] = "out"
    <3>1. /\ h2[p] = outPort'[p[2]][p[3]] /\ hs[p] = sh.out[p[2]][p[3]]
          /\ p[2] \in Modules /\ p[3] \in Streams /\ p \notin Left(m)
      BY <2>2 DEF Holding, Places, Left
    <3>3. outPort'[p[2]][p[3]] \in {NULL, sh.out[p[2]][p[3]]}
      BY <1>5, <1>7, <3>1, EmptiedIs
    <3>4. \A l \in branches \ new : p[2] = m /\ p[3] = l.out => outPort'[p[2]][p[3]] = NULL
      BY <1>5, <1>7, <3>1, EmptiedIs
    <3>5. \A l : p = <<"out", m, l.out>> => p[2] = m /\ p[3] = l.out
      OBVIOUS
    <3> QED BY <2>2, <3>1, <3>3, <3>4, <3>5
  <2> QED BY <2>1, <2>2 DEF Places
<1> HIDE DEF h, hs, h2
<1>10. PICK D : Moved(branches, new, src, h, hs, written, sh.content, D)
  BY <1>8
<1>11. /\ D \in [branches -> Systems]
       /\ \A l \in branches : From(l) \in Places /\ h[From(l)] = src[l] /\ h[From(l)] # NULL
  BY <1>2, <1>h, <1>10 DEF Moved
<1>12. Arrives(branches, D, h, h2, Places, Places)
  <2> SUFFICES ASSUME NEW p \in Places, h2[p] # NULL
               PROVE  h2[p] = h[p] \/ \E l \in branches : l \in Feeding(p) /\ h2[p] = D[l]
    BY DEF Arrives
  <2>1. h2[p] = hs[p]
    BY <1>9
  <2> QED BY <1>10, <2>1 DEF Moved
<1>f. Feeds(branches, D, h2)
  BY <1>9, <1>10 DEF Moved, Feeds
<1>13. Leaves(branches \ new, D, h, h2, Places)
  <2>1. \A l \in branches \ new : D[l] = h[From(l)]
    BY <1>10, <1>11 DEF Moved
  <2>2. ASSUME NEW l \in branches \ new, NEW q \in Places, Same(q, From(l)) PROVE h2[q] = NULL
    <3>1. q[2] = m /\ q[3] = l.out
      BY <1>2, <2>2 DEF Same
    <3>2. CASE q[1] = "in"
      BY <1>9, <1>k, <3>1, <3>2
    <3>3. CASE q[1] = "out"
      <4>1. q = <<"out", m, l.out>>
        BY <3>1, <3>3 DEF Places
      <4> QED BY <1>9, <3>1, <4>1
    <3> QED BY <3>1, <3>2, <3>3 DEF Places
  <2>3. ASSUME NEW k \in branches \ new, NEW l \in branches \ new, Same(From(k), From(l)) PROVE k = l
    BY <1>2, <1>4, <2>3 DEF Same
  <2> QED BY <2>1, <2>2, <2>3 DEF Leaves
<1>14. Anew(new, D, h, written, content')
  BY <1>1, <1>5, <1>10, <1>11 DEF Moved, Anew
<1>15. \A p \in Left(m) : h2[p] = NULL
  BY <1>9 DEF Left
<1>16. \A l \in branches \ new : D[l] = h[From(l)]
  BY <1>10, <1>11 DEF Moved
<1> DEFINE con2 == content'
<1>17. Anew(new, D, h, written, con2)
  BY <1>14
<1> HIDE DEF con2
<1>18. Handed(branches, new, D, h, h2, written, con2)
  BY <1>1, <1>11, <1>12, <1>16, <1>17, <1>f DEF Handed
<1>19. ModuleMoves(m, out, written, new, D)
  BY <1>13, <1>15, <1>18 DEF ModuleMoves, h, h2, branches, con2
<1> QED BY <1>19

LEMMA ShiftModuleOutputAlone ==
  ASSUME ~ IsFiniteSet(Systems), net \in Nets, NEW m \in Modules,
         inPort \in Ports, NEW out \in Ports, NEW written \in [Systems -> SUBSET Modules],
         NEW rest, ShiftModuleOutput(m, out, written, rest),
         NEW C \in SUBSET Places, NEW C2 \in SUBSET Places,
         C2 \subseteq C \cup Left(m), \A s \in Streams : <<"out", m, s>> \in C,
         Alone(Holding(inPort, out), C), Within(Holding(inPort, out), C, written)
  PROVE  Alone(Holding(inPort', outPort'), C2) /\ Within(Holding(inPort', outPort'), C2, content')
<1> DEFINE ls == Branches(m, out)
           h == Holding(inPort, out)
           h2 == Holding(inPort', outPort')
           con2 == content'
<1>1. PICK new, D : ModuleMoves(m, out, written, new, D)
  BY ShiftModuleOutputMoves
<1>2. h \in [Places -> Systems \cup {NULL}]
  BY HoldingIs
<1>3. /\ Handed(ls, new, D, h, h2, written, con2) /\ Leaves(ls \ new, D, h, h2, Places)
      /\ \A p \in Left(m) : h2[p] = NULL
  BY <1>1 DEF ModuleMoves
<1>4. \A l \in ls : From(l) \in C
  <2> TAKE l \in ls
  <2>1. l.src = m /\ ~IsIntoGroup(l) /\ l.out \in Streams
    BY NetAssumption DEF Branches, Outgoing, IsNet, Link
  <2> QED BY <2>1 DEF From
<1>a. Alone(h, C) /\ Within(h, C, written)
  OBVIOUS
<1> HIDE DEF ls, h, h2, con2
<1>5. Arrives(ls, D, h, h2, C, C2) /\ Leaves(ls \ new, D, h, h2, C2)
  BY <1>3 DEF Handed, Arrives, Leaves
<1>6. Alone(h2, C2) /\ Within(h2, C2, con2)
  BY <1>2, <1>3, <1>4, <1>5, <1>a, MovesAlone DEF Handed
<1> QED BY <1>6 DEF h2, con2

LEMMA ShiftGroupInputMoves ==
  ASSUME ~ IsFiniteSet(Systems), net \in Nets, NEW g \in Modules, IsGroup(g),
         inPort \in Ports, NEW out \in Ports, content \in [Systems -> SUBSET Modules],
         NEW rest, ShiftGroupInput(g, out, rest)
  PROVE  \E new, D : GroupMoves(g, out, new, D)
<1> DEFINE ls == Inward(g)
           new == IF Cardinality(Ins(g)) > 1 THEN ls ELSE {}
           src == [l \in ls |-> inPort[g][l.out]]
           sh == Shifted(ls, new, src, inPort, out, content)
           h == Holding(inPort, out)
           hs == Holding(sh.in, sh.out)
           h2 == Holding(inPort', outPort')
<1>b. ls = {l \in IntoGroup(g) : inPort[g][l.out] # NULL}
  BY DEF Inward
<1>1. ls \in SUBSET net.links /\ new \in SUBSET ls
  BY DEF IntoGroup, Inward
<1>l. net.links \in SUBSET Link
  BY NetAssumption DEF IsNet
<1>2. \A l \in ls : /\ src[l] = inPort[g][l.out] /\ inPort[g][l.out] # NULL /\ l.out \in Streams
                   /\ From(l) = <<"in", g, l.out>>
  BY <1>1, <1>b, <1>l DEF IntoGroup, From, Link
<1>3. src \in [ls -> Systems]
  <2>1. \A l \in ls : inPort[g][l.out] \in Systems
    <3> HIDE DEF ls
    <3> QED BY <1>2 DEF Ports, Port
  <2> HIDE DEF ls
  <2> QED BY <2>1
(* A group with a single in-port has a single link into it.                *)
<1>4. ~FansOutUnsplit => \A k, l \in ls \ new : k = l
  <2> SUFFICES ASSUME ~FansOutUnsplit, NEW k \in ls \ new, NEW l \in ls \ new, k # l PROVE FALSE
    OBVIOUS
  <2> DEFINE into == IntoGroup(g)
  <2>1. into \in SUBSET Link /\ {k, l} \in SUBSET into
    BY <1>b, <1>l DEF IntoGroup
  <2>2. Ins(g) \in SUBSET Streams /\ l.out \in Ins(g)
    <3>1. l \in net.links /\ l.src = g /\ net.owner[l.dst] = l.src
      BY <1>b DEF IntoGroup, IsIntoGroup
    <3>2. IsLinkingValid(net, l)
      BY <3>1, NetAssumption DEF IsNet
    <3> QED BY <3>1, <3>2, InsAre DEF IsLinkingValid, Ins
  <2>3. ~ (Cardinality(Ins(g)) > 1)
    OBVIOUS
  <2>4. IsFiniteSet(Ins(g)) /\ Cardinality(Ins(g)) \in Nat /\ Cardinality(Ins(g)) # 0
    <3>1. IsFiniteSet(Ins(g))
      BY <2>2, RunAssumption, FS_Subset
    <3> QED BY <2>2, <3>1, FS_CardinalityType, FS_EmptySet
  <2>5. Cardinality(Ins(g)) = 1
    BY <2>3, <2>4
  <2>6. ~ (Cardinality(into) > 1)
    BY <2>5 DEF FansOutUnsplit, IsGroup
  <2> HIDE DEF into
  <2>7. IsFiniteSet(into) /\ Cardinality(into) \in Nat
    BY <2>1, LinksFinite, FS_Subset, FS_CardinalityType
  <2>8. Cardinality({k, l}) = 2
    BY PairCounted
  <2>9. Cardinality({k, l}) <= Cardinality(into)
    BY <2>1, <2>7, FS_Subset
  <2> QED BY <2>6, <2>7, <2>8, <2>9
<1>5. /\ outPort' = sh.out
      /\ inPort' = Emptied(sh.in, g, Ins(g) \ {l.out : l \in ls})
      /\ content' = sh.content
  BY DEF ShiftGroupInput, Inward
<1>6. Shiftable(ls, new, src, inPort, out, content)
  BY <1>1, <1>3 DEF Shiftable
<1> HIDE DEF ls, new, src
<1>7. sh.in \in Ports /\ sh.out \in Ports
  BY <1>6, ShiftedIs
<1>8. \E D : Moved(ls, new, src, h, hs, content, sh.content, D)
  BY <1>6, ShiftedMoves
<1> HIDE DEF sh
<1>h. /\ h \in [Places -> Systems \cup {NULL}]
      /\ \A s \in Streams : h[<<"in", g, s>>] = inPort[g][s] /\ <<"in", g, s>> \in Places
  <2>1. /\ h \in [Places -> Systems \cup {NULL}]
        /\ \A m \in Modules, s \in Streams :
             /\ <<"in", m, s>> \in Places /\ h[<<"in", m, s>>] = inPort[m][s]
             /\ <<"out", m, s>> \in Places /\ h[<<"out", m, s>>] = out[m][s]
    BY HoldingIs, Zenon
  <2> HIDE DEF h
  <2> QED BY <2>1
<1>9. ASSUME NEW p \in Places PROVE h2[p] = NULL \/ h2[p] = hs[p]
  <2>1. p[2] \in Modules /\ p[3] \in Streams
    BY DEF Places
  <2>2. inPort'[p[2]][p[3]] \in {NULL, sh.in[p[2]][p[3]]}
    BY <1>5, <1>7, <2>1, EmptiedIs
  <2> QED BY <1>5, <2>2 DEF Holding
<1> HIDE DEF h, hs, h2
<1>10. PICK D : Moved(ls, new, src, h, hs, content, sh.content, D)
  BY <1>8
<1>11. /\ D \in [ls -> Systems]
       /\ \A l \in ls : From(l) \in Places /\ h[From(l)] = src[l] /\ h[From(l)] # NULL
  BY <1>2, <1>h, <1>10 DEF Moved
<1>12. Arrives(ls, D, h, h2, Places, Places)
  <2> SUFFICES ASSUME NEW p \in Places, h2[p] # NULL
               PROVE  h2[p] = h[p] \/ \E l \in ls : l \in Feeding(p) /\ h2[p] = D[l]
    BY DEF Arrives
  <2>1. h2[p] = hs[p]
    BY <1>9
  <2> QED BY <1>10, <2>1 DEF Moved
<1>13. Feeds(ls, D, h2)
  BY <1>9, <1>10 DEF Moved, Feeds
<1>14. \A l \in ls \ new : D[l] = h[From(l)]
  BY <1>10, <1>11 DEF Moved
<1> DEFINE K == {p \in Places : ~ (p[1] = "in" /\ p[2] = g)}
<1>15. ~FansOutUnsplit => Leaves(ls \ new, D, h, h2, K)
  <2>1. ASSUME NEW l \in ls \ new, NEW q \in K, Same(q, From(l)) PROVE FALSE
    BY <1>2, <2>1 DEF Same, IsGroup
  <2> QED BY <1>4, <1>14, <2>1 DEF Leaves
<1>16. Anew(new, D, h, content, content')
  BY <1>1, <1>5, <1>10, <1>11 DEF Moved, Anew
<1>17. GroupMoves(g, out, new, D)
  BY <1>1, <1>11, <1>12, <1>13, <1>14, <1>15, <1>16 DEF GroupMoves, Handed, h, h2, ls
<1> QED BY <1>17

LEMMA ShiftGroupInputAlone ==
  ASSUME ~ IsFiniteSet(Systems), net \in Nets, ~FansOutUnsplit, NEW g \in Modules, IsGroup(g),
         inPort \in Ports, NEW out \in Ports, content \in [Systems -> SUBSET Modules],
         NEW rest, ShiftGroupInput(g, out, rest),
         NEW C \in SUBSET Places, NEW C2 \in SUBSET C,
         \A s \in Streams : <<"in", g, s>> \in C /\ <<"in", g, s>> \notin C2,
         Alone(Holding(inPort, out), C), Within(Holding(inPort, out), C, content)
  PROVE  Alone(Holding(inPort', outPort'), C2) /\ Within(Holding(inPort', outPort'), C2, content')
<1> DEFINE ls == Inward(g)
           h == Holding(inPort, out)
           h2 == Holding(inPort', outPort')
           con == content
           con2 == content'
           K == {p \in Places : ~ (p[1] = "in" /\ p[2] = g)}
<1>1. PICK new, D : GroupMoves(g, out, new, D)
  BY ShiftGroupInputMoves
<1>2. h \in [Places -> Systems \cup {NULL}]
  BY HoldingIs
<1>3. Handed(ls, new, D, h, h2, con, con2) /\ Leaves(ls \ new, D, h, h2, K)
  BY <1>1 DEF GroupMoves
<1>4. \A l \in ls : From(l) \in C
  <2> TAKE l \in ls
  <2>1. l.src = g /\ IsIntoGroup(l) /\ l.out \in Streams
    BY NetAssumption DEF Inward, IntoGroup, IsNet, Link
  <2> QED BY <2>1 DEF From
<1>5. C2 \subseteq K
  <2> SUFFICES ASSUME NEW p \in C2, p[1] = "in", p[2] = g PROVE FALSE
    OBVIOUS
  <2>1. p = <<"in", g, p[3]>> /\ p[3] \in Streams
    BY DEF Places
  <2> QED BY <2>1
<1>a. Alone(h, C) /\ Within(h, C, con)
  OBVIOUS
<1> HIDE DEF ls, h, h2, con, con2, K
<1>6. Arrives(ls, D, h, h2, C, C2) /\ Leaves(ls \ new, D, h, h2, C2)
  BY <1>3, <1>5 DEF Handed, Arrives, Leaves
<1>7. Alone(h2, C2) /\ Within(h2, C2, con2)
  BY <1>2, <1>3, <1>4, <1>6, <1>a, MovesAlone DEF Handed
<1> QED BY <1>7 DEF h2, con2

(* getData of a module gives it the System of its in-port, its own or one  *)
(* nobody has, and only it writes to it.                                   *)
LEMMA AfterGetDataAlone ==
  ASSUME ~ IsFiniteSet(Systems), net \in Nets, NEW m \in Modules, ~IsGroup(m),
         inPort \in Ports, outPort \in Ports, content \in [Systems -> SUBSET Modules],
         NEW used \in SUBSET Streams,
         NEW C \in SUBSET Places, \A s \in Streams : {<<"in", m, s>>, <<"out", m, s>>} \subseteq C,
         Alone(Holding(inPort, outPort), C), Within(Holding(inPort, outPort), C, content)
  PROVE  LET got == AfterGetData(m, used)
         IN /\ Alone(Holding(inPort, got.out), C)
            /\ Within(Holding(inPort, got.out), C \ Left(m), got.content)
            /\ Within(Holding(inPort, got.out), {p \in C : p[1] = "out"}, got.content)
<1> DEFINE created == {s \in used : inPort[m][s] = NULL /\ outPort[m][s] = NULL}
           name == Named(created, inPort, outPort)
           y == Obtained(m, used)
           write == used \cap Outs(m)
           got == AfterGetData(m, used)
           h == Holding(inPort, outPort)
           h1 == Holding(inPort, got.out)
           from == [s \in used |-> IF inPort[m][s] # NULL THEN <<"in", m, s>> ELSE <<"out", m, s>>]
<1>n. NULL \notin Systems
  BY RunAssumption
<1>1. name \in [created -> Systems \ Held(inPort, outPort)] /\ IsInjective(name)
  <2>1. IsFiniteSet(created)
    BY RunAssumption, FS_Subset
  <2> HIDE DEF created
  <2> QED BY <2>1, HeldFinite, NamedIs
<1>h. /\ h \in [Places -> Systems \cup {NULL}]
      /\ \A s \in Streams : /\ h[<<"in", m, s>>] = inPort[m][s] /\ <<"in", m, s>> \in Places
                            /\ h[<<"out", m, s>>] = outPort[m][s] /\ <<"out", m, s>> \in Places
      /\ \A p \in Places : h[p] # NULL => h[p] \in Held(inPort, outPort)
  BY HoldingIs
<1>2. /\ y \in [used -> Systems]
      /\ \A s \in created : y[s] = name[s] /\ s \in used
      /\ \A s \in used \ created : y[s] = h[from[s]] /\ y[s] # NULL
  <2> HIDE DEF name, h
  <2>1. y = [s \in used |-> IF inPort[m][s] # NULL THEN inPort[m][s]
                            ELSE IF outPort[m][s] # NULL THEN outPort[m][s]
                            ELSE name[s]]
    BY DEF Obtained, name
  <2>2. \A s \in used : inPort[m][s] \in Systems \cup {NULL} /\ outPort[m][s] \in Systems \cup {NULL}
    BY DEF Ports, Port
  <2> QED BY <1>1, <1>h, <2>1, <2>2
<1>3. \A s \in used : /\ from[s] \in {<<"in", m, s>>, <<"out", m, s>>}
                     /\ from[s] \in Places /\ from[s] \in C /\ s \in Streams
  BY <1>h
<1>4. got.out = [outPort EXCEPT ![m] = [s \in Streams |-> IF s \in write THEN y[s] ELSE @[s]]]
  BY DEF AfterGetData
<1>5. got.content =
        [z \in Systems |->
          (IF \E s \in used : y[s] = z /\ inPort[m][s] = NULL /\ outPort[m][s] = NULL
           THEN {} ELSE content[z])
          \cup (IF \E s \in write : y[s] = z THEN {m} ELSE {})]
  BY DEF AfterGetData
<1>6. ASSUME NEW p \in Places
      PROVE  IF p[1] = "out" /\ p[2] = m /\ p[3] \in write THEN h1[p] = y[p[3]] ELSE h1[p] = h[p]
  <2> HIDE DEF y, write
  <2>1. p[2] \in Modules /\ p[3] \in Streams
    BY DEF Places
  <2>2. got.out[p[2]][p[3]] = IF p[2] = m /\ p[3] \in write THEN y[p[3]] ELSE outPort[p[2]][p[3]]
    BY <1>4, <2>1 DEF Ports
  <2>3. h1[p] = IF p[1] = "in" THEN inPort[p[2]][p[3]] ELSE got.out[p[2]][p[3]]
    BY DEF Holding
  <2>4. h[p] = IF p[1] = "in" THEN inPort[p[2]][p[3]] ELSE outPort[p[2]][p[3]]
    BY DEF Holding
  <2>5. p[1] \in {"in", "out"}
    BY DEF Places
  <2> HIDE DEF got, h, h1
  <2> QED BY <2>2, <2>3, <2>4, <2>5
<1> DEFINE Changed(p) == p[1] = "out" /\ p[2] = m /\ p[3] \in write
<1>w. \A s \in write : s \in used
  OBVIOUS
<1>7. ASSUME NEW z \in Systems
      PROVE  /\ got.content[z] \subseteq content[z] \cup {m}
             /\ (\A s \in write : y[s] # z) => got.content[z] \subseteq content[z]
             /\ (\E s \in created : y[s] = z) => got.content[z] \subseteq {m}
  <2> HIDE DEF y, write
  <2> QED BY <1>5
<1>c. created \subseteq used
  OBVIOUS
<1>a. Alone(h, C) /\ Within(h, C, content)
  OBVIOUS
<1>q. \A p \in C : p \in Places /\ p[1] \in {"in", "out"} /\ p[2] \in Modules /\ p[3] \in Streams
  BY DEF Places
<1>i. \A s, t \in created : name[s] = name[t] => s = t
  BY <1>1 DEF IsInjective
<1> HIDE DEF created, name, y, write, got, h, h1, from
<1>8. ASSUME NEW s \in used, NEW p \in Places, h[p] = y[s] PROVE s \notin created
  <2> SUFFICES ASSUME s \in created PROVE FALSE
    OBVIOUS
  <2>1. y[s] \in Systems /\ y[s] \notin Held(inPort, outPort)
    BY <1>1, <1>2
  <2>2. h[p] # NULL
    BY <1>8, <1>n, <2>1
  <2> QED BY <1>8, <1>h, <2>1, <2>2
<1>9. ASSUME NEW s \in used, NEW p \in C, h[p] = y[s]
      PROVE  p[2] = m /\ p[3] = s
  <2>1. s \notin created
    BY <1>8, <1>9
  <2>2. h[p] # NULL /\ h[p] = h[from[s]]
    BY <1>2, <1>9, <2>1
  <2>3. Same(p, from[s])
    BY <1>3, <1>a, <2>2 DEF Alone
  <2> QED BY <1>3, <2>3 DEF Same
<1>10. \A s, t \in used : y[s] = y[t] => s = t
  <2> SUFFICES ASSUME NEW s \in used, NEW t \in used, y[s] = y[t] PROVE s = t
    OBVIOUS
  <2>1. CASE s \notin created
    <3>1. h[from[s]] = y[t] /\ from[s][3] = s
      BY <1>2, <1>3, <2>1
    <3> QED BY <1>3, <1>9, <3>1
  <2>2. CASE t \notin created
    <3>1. h[from[t]] = y[s] /\ from[t][3] = t
      BY <1>2, <1>3, <2>2
    <3> QED BY <1>3, <1>9, <3>1
  <2>3. CASE s \in created /\ t \in created
    BY <1>2, <1>i, <2>3
  <2> QED BY <2>1, <2>2, <2>3
<1>11. Alone(h1, C)
  <2> SUFFICES ASSUME NEW p \in C, NEW q \in C, h1[p] # NULL, h1[p] = h1[q] PROVE Same(p, q)
    BY DEF Alone
  <2>1. CASE Changed(p) /\ Changed(q)
    <3>1. y[p[3]] = y[q[3]]
      BY <1>6, <1>q, <2>1
    <3> QED BY <1>10, <1>w, <2>1, <3>1 DEF Same
  <2>2. CASE Changed(p) /\ ~Changed(q)
    <3>1. h[q] = y[p[3]]
      BY <1>6, <1>q, <2>2
    <3> QED BY <1>9, <1>w, <2>2, <3>1 DEF Same, IsGroup
  <2>3. CASE ~Changed(p) /\ Changed(q)
    <3>1. h[p] = y[q[3]]
      BY <1>6, <1>q, <2>3
    <3> QED BY <1>9, <1>w, <2>3, <3>1 DEF Same, IsGroup
  <2>4. CASE ~Changed(p) /\ ~Changed(q)
    <3>1. h[p] = h1[p] /\ h[q] = h1[q]
      BY <1>6, <1>q, <2>4
    <3> QED BY <1>a, <3>1 DEF Alone
  <2> QED BY <2>1, <2>2, <2>3, <2>4
(* The trail to the out-port takes in the module and the trail to its      *)
(* in-port.                                                                *)
<1>12. ASSUME NEW s \in Streams
       PROVE  TrailTo(<<"in", m, s>>) \subseteq TrailTo(<<"out", m, s>>) /\ m \in TrailTo(<<"out", m, s>>)
  <2> DEFINE i == <<"in", m, s>>
             o == <<"out", m, s>>
             N == Cardinality(net.links)
  <2>1. N \in Nat
    <3>1. net.links \in SUBSET Link
      BY NetAssumption DEF IsNet
    <3> QED BY <3>1, LinksFinite, FS_Subset, FS_CardinalityType
  <2>2. i \in Places /\ o \in Places /\ Itself(i) = {} /\ Itself(o) = {m} /\ Feeding(i) = Feeding(o)
    BY DEF Places, Itself, Feeding
  <2> HIDE DEF i, o, N
  <2>3. /\ Trail[N + 1][i] = Itself(i) \cup UNION {Trail[N][From(l)] : l \in Feeding(i)}
        /\ Trail[N + 1][o] = Itself(o) \cup UNION {Trail[N][From(l)] : l \in Feeding(o)}
    BY <2>1, <2>2, TrailUnfolds
  <2>4. Trail[N + 1][i] \subseteq Trail[N + 1][o] /\ m \in Trail[N + 1][o]
    BY <2>2, <2>3
  <2> QED BY <2>4 DEF TrailTo, Rounds, i, o, N
<1>13. ASSUME NEW p \in C, h1[p] # NULL, p[1] = "out" \/ write = {} \/ p[2] # m
       PROVE  got.content[h1[p]] \subseteq TrailTo(p)
  <2>1. CASE Changed(p)
    <3> DEFINE s == p[3]
    <3>1. s \in write /\ s \in used /\ s \in Streams /\ p = <<"out", m, s>> /\ h1[p] = y[s] /\ y[s] \in Systems
      <4>1. p = <<"out", m, p[3]>>
        BY <2>1 DEF Places
      <4> QED BY <1>2, <1>6, <1>q, <1>w, <2>1, <4>1
    <3>2. m \in TrailTo(p)
      BY <1>12, <3>1
    <3>3. CASE s \in created
      BY <1>7, <3>1, <3>2, <3>3
    <3>4. CASE s \notin created
      <4>1. y[s] = h[from[s]] /\ from[s] \in C /\ from[s] \in {<<"in", m, s>>, p} /\ y[s] # NULL
        BY <1>2, <1>3, <3>1, <3>4
      <4>2. content[y[s]] \subseteq TrailTo(from[s])
        BY <1>a, <4>1 DEF Within
      <4>3. TrailTo(from[s]) \subseteq TrailTo(p)
        BY <1>12, <3>1, <4>1
      <4> QED BY <1>7, <3>1, <3>2, <4>2, <4>3
    <3> QED BY <3>3, <3>4
  <2>2. CASE ~Changed(p)
    <3>1. h1[p] = h[p] /\ h[p] \in Systems /\ content[h[p]] \subseteq TrailTo(p)
      BY <1>6, <1>a, <1>h, <1>q, <1>13, <2>2 DEF Within
    <3>2. \A s \in write : y[s] # h[p]
      <4> SUFFICES ASSUME NEW s \in write, y[s] = h[p] PROVE FALSE
        OBVIOUS
      <4>1. p[2] = m /\ p[3] = s
        BY <1>9, <1>w
      <4> QED BY <1>13, <2>2, <4>1
    <3> QED BY <1>7, <3>1, <3>2
  <2> QED BY <2>1, <2>2
<1>14. Within(h1, {p \in C : p[1] = "out"}, got.content)
  BY <1>13 DEF Within
<1>15. Within(h1, C \ Left(m), got.content)
  <2> SUFFICES ASSUME NEW p \in C, p \notin Left(m), h1[p] # NULL
               PROVE  got.content[h1[p]] \subseteq TrailTo(p)
    BY DEF Within
  <2>1. KeepsInPorts(m) => write = {}
    BY DEF KeepsInPorts, write
  <2>2. ~KeepsInPorts(m) => p[1] = "out" \/ p[2] # m
    BY <1>q DEF Left
  <2> QED BY <1>13, <2>1, <2>2
<1> QED BY <1>11, <1>14, <1>15 DEF got, h1

(* As long as no run has started with data: every place counts, but the    *)
(* in-port of a group that has been entered, whose System the members      *)
(* have; what is on an in-port when no run is active waits for the next.   *)
Unnested(n) == \A g \in n.groups : n.owner[g] = Root
Counting(arm) == {p \in Places : p[1] = "in" /\ p[2] \in net.groups => arm[p[2]]}
Seeing(arm, at) == {p \in Counting(arm) : p[1] = "in" => at # "idle"}
ShareInv ==
  fresh /\ ~FansOutUnsplit =>
    /\ Alone(Holding(inPort, outPort), Counting(armed))
    /\ Within(Holding(inPort, outPort), Seeing(armed, pc), content)

LEMMA ShareNext ==
  ASSUME net' = net,
         fresh' /\ ~FansOutUnsplit =>
           /\ Alone(Holding(inPort', outPort'), Counting(armed'))
           /\ Within(Holding(inPort', outPort'), Seeing(armed', pc'), content')
  PROVE  ShareInv'
<1>1. FansOutUnsplit' <=> FansOutUnsplit
  BY DEF FansOutUnsplit, Ins, PortsBut, IntoGroup, IsIntoGroup
<1>2. Counting(armed)' = Counting(armed') /\ Seeing(armed, pc)' = Seeing(armed', pc')
  BY DEF Counting, Seeing
<1>3. Trail' = Trail
  BY DEF Trail, Itself, Feeding, From, IsGroup, IsOutOfGroup, IsIntoGroup
<1>4. ASSUME NEW p PROVE TrailTo(p)' = TrailTo(p)
  BY <1>3 DEF TrailTo, Rounds
<1> DEFINE h2 == Holding(inPort', outPort')
           C2 == Counting(armed')
           S2 == Seeing(armed', pc')
<1>5. Holding(inPort, outPort)' = h2
  BY DEF Holding
<1>6. /\ Alone(Holding(inPort, outPort), Counting(armed))' <=> Alone(h2, C2)
      /\ Within(Holding(inPort, outPort), Seeing(armed, pc), content)' <=> Within(h2, S2, content')
  <2> HIDE DEF h2, C2, S2
  <2> QED BY <1>2, <1>4, <1>5 DEF Alone, Same, Within, C2, S2
<1> QED BY <1>1, <1>6 DEF ShareInv

LEMMA EmptyShares ==
  ASSUME NEW h, NEW C, NEW S, NEW con, \A p \in C \cup S : h[p] = NULL
  PROVE  Alone(h, C) /\ Within(h, S, con)
  BY DEF Alone, Within

LEMMA NothingHeld == \A p \in Places : Holding(NoData, NoData)[p] = NULL
  BY DEF Holding, NoData, Places

(* Less is held, fewer places count: nothing to worry about.               *)
LEMMA FewerShare ==
  ASSUME NEW h, NEW C, NEW S, NEW con, Alone(h, C), Within(h, S, con), NEW h2, NEW C2, NEW S2,
         \A p \in C2 : h2[p] # NULL => p \in C /\ h2[p] = h[p],
         \A p \in S2 : h2[p] # NULL => p \in S /\ h2[p] = h[p]
  PROVE  Alone(h2, C2) /\ Within(h2, S2, con)
  BY DEF Alone, Within

LEMMA InitShares == Init => ShareInv
<1> SUFFICES ASSUME Init PROVE ShareInv
  OBVIOUS
<1>1. inPort = NoData /\ outPort = NoData
  BY DEF Init
<1>2. \A p \in Counting(armed) \cup Seeing(armed, pc) : Holding(inPort, outPort)[p] = NULL
  BY <1>1, NothingHeld DEF Counting, Seeing
<1> QED BY <1>2, EmptyShares DEF ShareInv

LEMMA StartRunShares ==
  ASSUME RunInv, ShareInv, StartRun
  PROVE  ShareInv'
<1> DEFINE h == Holding(inPort, outPort)
<1>0. net' = net /\ inPort' = inPort /\ outPort' = outPort /\ content' = content
      /\ (fresh' => fresh /\ inPort = NoData)
  BY DEF StartRun, ports
<1> SUFFICES ASSUME fresh, inPort = NoData, ~FansOutUnsplit
             PROVE  Alone(h, Counting(armed')) /\ Within(h, Seeing(armed', pc'), content)
  BY <1>0, ShareNext
<1>1. Alone(h, Counting(armed)) /\ Within(h, Seeing(armed, pc), content)
  BY DEF ShareInv
<1>2. \A p \in Places : h[p] # NULL => p \in Seeing(armed, pc)
  BY DEF Holding, NoData, Places, Counting, Seeing
<1>3. Seeing(armed, pc) \subseteq Counting(armed)
  BY DEF Seeing
<1>4. Counting(armed') \subseteq Places /\ Seeing(armed', pc') \subseteq Places
  BY DEF Seeing, Counting
<1> HIDE DEF h
<1> QED BY <1>1, <1>2, <1>3, <1>4, FewerShare

LEMMA StillShares ==
  ASSUME ShareInv, net' = net, inPort' = inPort, outPort' = outPort, content' = content,
         armed' = armed, fresh' = fresh, pc = "idle" => pc' = "idle"
  PROVE  ShareInv'
<1> DEFINE h == Holding(inPort, outPort)
<1> SUFFICES ASSUME fresh, ~FansOutUnsplit
             PROVE  Alone(h, Counting(armed)) /\ Within(h, Seeing(armed, pc'), content)
  BY ShareNext
<1>1. Alone(h, Counting(armed)) /\ Within(h, Seeing(armed, pc), content)
  BY DEF ShareInv
<1>2. Seeing(armed, pc') \subseteq Seeing(armed, pc)
  BY DEF Seeing
<1> HIDE DEF h
<1> QED BY <1>1, <1>2 DEF Within

LEMMA FinishModuleShares ==
  ASSUME ~ IsFiniteSet(Systems), RunInv, ShareInv, NEW m \in Modules,
         NEW used \in SUBSET Streams, FinishModule(m, used)
  PROVE  ShareInv'
<1> DEFINE got == AfterGetData(m, used)
           C == Counting(armed)
<1>0. /\ net \in Nets /\ inPort \in Ports /\ outPort \in Ports
      /\ content \in [Systems -> SUBSET Modules]
  BY Known
<1>1. /\ net' = net /\ armed' = armed /\ fresh' = fresh /\ pc = "exec" /\ pc' = "loop"
      /\ m = current /\ ShiftModuleOutput(m, got.out, got.content, worklist)
  BY DEF FinishModule
<1>2. ~IsGroup(m)
  BY <1>1 DEF RunInv, Phased, IsGroup
<1>3. got.out \in Ports /\ got.content \in [Systems -> SUBSET Modules]
  BY <1>0, AfterGetDataIs
<1> HIDE DEF got
<1>4. Seeing(armed, pc) = C /\ Seeing(armed, "loop") = C /\ C \in SUBSET Places
  BY <1>1 DEF Seeing, Counting
<1> SUFFICES ASSUME fresh, ~FansOutUnsplit
             PROVE  Alone(Holding(inPort', outPort'), C) /\ Within(Holding(inPort', outPort'), C, content')
  BY <1>1, <1>4, ShareNext
<1>5. Alone(Holding(inPort, outPort), C) /\ Within(Holding(inPort, outPort), C, content)
  BY <1>4 DEF ShareInv
<1>6. \A s \in Streams : {<<"in", m, s>>, <<"out", m, s>>} \subseteq C /\ <<"out", m, s>> \in C \ Left(m)
  BY <1>2 DEF Counting, Places, IsGroup, Left
<1> HIDE DEF C
<1>7. /\ Alone(Holding(inPort, got.out), C)
      /\ Within(Holding(inPort, got.out), C \ Left(m), got.content)
  BY <1>0, <1>2, <1>4, <1>5, <1>6, AfterGetDataAlone DEF got
<1> DEFINE h == Holding(inPort, got.out)
           D == C \ Left(m)
<1>8. Alone(h, D) /\ Within(h, D, got.content)
  BY <1>7 DEF Alone
<1>9. D \in SUBSET Places /\ C \subseteq D \cup Left(m) /\ \A s \in Streams : <<"out", m, s>> \in D
  BY <1>4, <1>6
<1> HIDE DEF D
<1> QED BY <1>0, <1>1, <1>3, <1>4, <1>8, <1>9, ShiftModuleOutputAlone

LEMMA FailModuleShares ==
  ASSUME ~ IsFiniteSet(Systems), RunInv, ShareInv, NEW m \in Modules,
         NEW used \in SUBSET Streams, FailModule(m, used)
  PROVE  ShareInv'
<1> DEFINE got == AfterGetData(m, used)
           C == Counting(armed)
           S == {p \in C : p[1] = "out"}
<1>0. /\ net \in Nets /\ inPort \in Ports /\ outPort \in Ports
      /\ content \in [Systems -> SUBSET Modules]
  BY Known
<1>1. /\ net' = net /\ armed' = armed /\ fresh' = fresh /\ pc = "exec" /\ pc' = "idle"
      /\ m = current /\ inPort' = inPort /\ outPort' = got.out /\ content' = got.content
  BY DEF FailModule
<1>2. ~IsGroup(m)
  BY <1>1 DEF RunInv, Phased, IsGroup
<1>4. Seeing(armed, pc) = C /\ Seeing(armed, "idle") = S /\ C \in SUBSET Places
  BY <1>1 DEF Seeing, Counting, Places
<1> HIDE DEF got
<1> SUFFICES ASSUME fresh, ~FansOutUnsplit
             PROVE  Alone(Holding(inPort, got.out), C) /\ Within(Holding(inPort, got.out), S, got.content)
  BY <1>1, <1>4, ShareNext
<1>5. Alone(Holding(inPort, outPort), C) /\ Within(Holding(inPort, outPort), C, content)
  BY <1>4 DEF ShareInv
<1>6. \A s \in Streams : {<<"in", m, s>>, <<"out", m, s>>} \subseteq C
  BY <1>2 DEF Counting, Places, IsGroup
<1> HIDE DEF C
<1> QED BY <1>0, <1>2, <1>4, <1>5, <1>6, AfterGetDataAlone DEF got

LEMMA EnterGroupShares ==
  ASSUME ~ IsFiniteSet(Systems), RunInv, ShareInv, Unnested(net), NEW g \in Modules, EnterGroup(g)
  PROVE  ShareInv'
<1> DEFINE out == [m \in Modules |-> IF m \in Members(g) THEN NoData[m] ELSE outPort[m]]
           h == Holding(inPort, outPort)
           h1 == Holding(inPort, out)
           C == Counting(armed)
           C2 == Counting(armed')
<1>0. /\ net \in Nets /\ armed \in [Modules -> BOOLEAN]
      /\ inPort \in Ports /\ outPort \in Ports /\ content \in [Systems -> SUBSET Modules]
      /\ net.groups \subseteq Modules
  BY Known, NetIs
<1>1. /\ net' = net /\ fresh' = fresh /\ pc = "loop" /\ pc' = "loop" /\ IsGroup(g) /\ armed[g]
      /\ armed' = [m \in Modules |-> IF m = g THEN FALSE ELSE armed[m] \/ net.owner[m] = g]
      /\ ShiftGroupInput(g, out, Tail(worklist))
  BY DEF EnterGroup, Takes, history
<1>2. out \in Ports
  <2>1. \A m \in Modules : NoData[m] \in Port /\ outPort[m] \in Port
    BY <1>0 DEF NoData, Ports, Port
  <2> QED BY <2>1 DEF Ports
<1>3. /\ Seeing(armed, pc) = C /\ Seeing(armed', "loop") = C2
      /\ C \in SUBSET Places /\ C2 \in SUBSET Places
  BY <1>1 DEF Seeing, Counting
<1>4. \A f \in net.groups : armed'[f] => armed[f] /\ f # g
  <2>1. \A f \in net.groups : f \in Modules /\ net.owner[f] # g
    BY <1>0, RunAssumption DEF Unnested
  <2> QED BY <1>1, <2>1
<1>5. C2 \in SUBSET C /\ \A s \in Streams : <<"in", g, s>> \in C /\ <<"in", g, s>> \notin C2
  <2>1. C2 \in SUBSET C
    BY <1>4 DEF Counting
  <2>2. g \in net.groups
    BY <1>1 DEF IsGroup
  <2>3. ASSUME NEW s \in Streams PROVE <<"in", g, s>> \in C /\ <<"in", g, s>> \notin C2
    BY <1>1, <1>4, <2>2 DEF Counting, Places
  <2> QED BY <2>1, <2>3
<1> SUFFICES ASSUME fresh, ~FansOutUnsplit
             PROVE  Alone(Holding(inPort', outPort'), C2) /\ Within(Holding(inPort', outPort'), C2, content')
  BY <1>1, <1>3, ShareNext
<1>6. Alone(h, C) /\ Within(h, C, content)
  BY <1>3 DEF ShareInv
<1>7. \A p \in C : h1[p] # NULL => h1[p] = h[p]
  <2> SUFFICES ASSUME NEW p \in Places, h1[p] # NULL PROVE h1[p] = h[p]
    BY <1>3
  <2>1. CASE p[1] = "in"
    BY <2>1 DEF Holding
  <2>2. CASE p[1] # "in"
    <3>1. h1[p] = out[p[2]][p[3]] /\ h[p] = outPort[p[2]][p[3]]
      BY <2>2 DEF Holding
    <3>2. p[2] \in Modules /\ p[3] \in Streams
      BY DEF Places
    <3>3. NoData[p[2]][p[3]] = NULL
      BY <3>2 DEF NoData
    <3> QED BY <3>1, <3>2, <3>3
  <2> QED BY <2>1, <2>2
<1> HIDE DEF out, h, C, C2
<1>8. Alone(h1, C) /\ Within(h1, C, content)
  <2> HIDE DEF h1
  <2> QED BY <1>6, <1>7 DEF Alone, Within
<1> QED BY <1>0, <1>1, <1>2, <1>3, <1>5, <1>8, ShiftGroupInputAlone

LEMMA FinishGroupShares ==
  ASSUME ~ IsFiniteSet(Systems), RunInv, ShareInv, NEW g \in Modules, FinishGroup(g)
  PROVE  ShareInv'
<1> DEFINE C == Counting(armed)
           D == C \ Left(g)
           h == Holding(inPort, outPort)
<1>0. /\ net \in Nets /\ inPort \in Ports /\ outPort \in Ports
      /\ content \in [Systems -> SUBSET Modules]
  BY Known
<1>1. /\ net' = net /\ armed' = armed /\ fresh' = fresh /\ pc = "loop" /\ pc' = "loop"
      /\ ShiftModuleOutput(g, outPort, content, Tail(worklist))
  BY DEF FinishGroup, Takes
<1>2. Seeing(armed, pc) = C /\ Seeing(armed, "loop") = C /\ C \in SUBSET Places
  BY <1>1 DEF Seeing, Counting
<1> SUFFICES ASSUME fresh, ~FansOutUnsplit
             PROVE  Alone(Holding(inPort', outPort'), C) /\ Within(Holding(inPort', outPort'), C, content')
  BY <1>1, <1>2, ShareNext
<1>3. Alone(h, C) /\ Within(h, C, content)
  BY <1>2 DEF ShareInv
<1>4. \A s \in Streams : <<"out", g, s>> \in D
  BY DEF Counting, Places, Left
<1> HIDE DEF C
<1>5. D \in SUBSET Places /\ C \subseteq D \cup Left(g) /\ Alone(h, D) /\ Within(h, D, content)
  BY <1>2, <1>3 DEF Alone, Within
<1> HIDE DEF D
<1> QED BY <1>0, <1>1, <1>2, <1>4, <1>5, ShiftModuleOutputAlone

LEMMA ResetShares ==
  ASSUME net' = net, ResetAll
  PROVE  ShareInv'
<1>1. inPort' = NoData /\ outPort' = NoData
  BY DEF ResetAll
<1>2. \A p \in Counting(armed') \cup Seeing(armed', pc') : Holding(inPort', outPort')[p] = NULL
  BY <1>1, NothingHeld DEF Counting, Seeing
<1>3. /\ Alone(Holding(inPort', outPort'), Counting(armed'))
      /\ Within(Holding(inPort', outPort'), Seeing(armed', pc'), content')
  BY <1>2, EmptyShares
<1> QED BY <1>3, ShareNext

LEMMA ShareInductive ==
  ASSUME ~ IsFiniteSet(Systems), RunInv, ShareInv, Unnested(net), [Next]_vars
  PROVE  ShareInv'
<1>1. ASSUME NEW m \in Modules, Postpone(m) PROVE ShareInv'
  BY <1>1, StillShares DEF Postpone, ports, history
<1>2. ASSUME NEW m \in Modules, StartModule(m) PROVE ShareInv'
  BY <1>2, StillShares DEF StartModule, Takes, ports, history
<1>3. ASSUME NEW m \in Modules, NEW used \in SUBSET Streams, FinishModule(m, used) PROVE ShareInv'
  BY <1>3, FinishModuleShares
<1>4. ASSUME NEW m \in Modules, NEW used \in SUBSET Streams, FailModule(m, used) PROVE ShareInv'
  BY <1>4, FailModuleShares
<1>5. ASSUME NEW g \in Modules, EnterGroup(g) PROVE ShareInv'
  BY <1>5, EnterGroupShares
<1>6. ASSUME NEW g \in Modules, FinishGroup(g) PROVE ShareInv'
  BY <1>6, FinishGroupShares
<1>7. CASE StartRun
  BY <1>7, StartRunShares
<1>8. CASE EndRun
  BY <1>8, StillShares DEF EndRun, ports, history
<1>9. CASE EndCanceled
  BY <1>9, ResetShares DEF EndCanceled
<1>10. CASE Reset
  BY <1>10, ResetShares DEF Reset
<1>11. CASE Cancel
  BY <1>11, StillShares DEF Cancel, ports, history
<1>12. CASE UNCHANGED vars
  BY <1>12, StillShares DEF vars, ports, history
<1> QED BY <1>1, <1>2, <1>3, <1>4, <1>5, <1>6, <1>7, <1>8, <1>9, <1>10, <1>11, <1>12
       DEF Next, RunStep

LEMMA SpecShareInv ==
  ASSUME ~ IsFiniteSet(Systems), \A n \in Nets : Unnested(n)
  PROVE  Spec => []ShareInv
<1>1. RunInv => Unnested(net)
  BY Known
<1>2. Init => ShareInv
  BY InitShares
<1>3. RunInv /\ ShareInv /\ [Next]_vars => ShareInv'
  BY <1>1, ShareInductive
<1> QED BY <1>2, <1>3, SpecRunInv, PTL DEF Spec

(* Where no group is inside another, two modules never hold the same       *)
(* System, whatever runs fail or are canceled, as long as no run since the *)
(* last reset has started with data; FansOutUnsplit is the exception.      *)
THEOREM SpecOwnsAlone ==
  ASSUME ~ IsFiniteSet(Systems), \A n \in Nets : Unnested(n)
  PROVE  Spec => []OwnsAlone
<1>1. RunInv /\ ShareInv => OwnsAlone
  <2> SUFFICES ASSUME RunInv, ShareInv, fresh, ~FansOutUnsplit,
                      NEW m \in Modules \ net.groups, NEW n \in Modules \ net.groups, m # n,
                      NEW s \in Streams, NEW t \in Streams,
                      NEW y \in Held(inPort, outPort),
                      y \in {inPort[m][s], outPort[m][s]}, y \in {inPort[n][t], outPort[n][t]}
               PROVE  FALSE
    BY DEF OwnsAlone
  <2> DEFINE h == Holding(inPort, outPort)
             C == Counting(armed)
  <2>1. inPort \in Ports /\ outPort \in Ports
    BY Known
  <2>2. y # NULL
    BY DEF Held
  <2>3. Alone(h, C)
    BY DEF ShareInv
  <2>4. \A k \in Modules \ net.groups, r \in Streams :
          /\ <<"in", k, r>> \in C /\ h[<<"in", k, r>>] = inPort[k][r]
          /\ <<"out", k, r>> \in C /\ h[<<"out", k, r>>] = outPort[k][r]
    <3> TAKE k \in Modules \ net.groups, r \in Streams
    <3>1. <<"in", k, r>> \in C /\ <<"out", k, r>> \in C
      BY DEF Counting, Places
    <3>2. h[<<"in", k, r>>] = inPort[k][r] /\ h[<<"out", k, r>>] = outPort[k][r]
      BY DEF Holding, Places
    <3> QED BY <3>1, <3>2
  <2> HIDE DEF h, C
  <2>p. \A k \in Modules \ net.groups, r \in Streams :
          y \in {inPort[k][r], outPort[k][r]} => \E p \in C : h[p] = y /\ p[2] = k
    <3> TAKE k \in Modules \ net.groups, r \in Streams
    <3>1. <<"in", k, r>>[2] = k /\ <<"out", k, r>>[2] = k
      OBVIOUS
    <3> DEFINE i == <<"in", k, r>>
               o == <<"out", k, r>>
    <3>2. /\ i \in C /\ h[i] = inPort[k][r] /\ i[2] = k
          /\ o \in C /\ h[o] = outPort[k][r] /\ o[2] = k
      BY <2>4, <3>1
    <3> HIDE DEF i, o
    <3> QED BY <3>2
  <2>5. PICK p \in C : h[p] = y /\ p[2] = m
    BY <2>p
  <2>6. PICK q \in C : h[q] = y /\ q[2] = n
    BY <2>p
  <2> QED BY <2>2, <2>3, <2>5, <2>6 DEF Alone, Same
<1> QED BY <1>1, SpecRunInv, SpecShareInv, PTL

(* And a module finds on its in-ports what was written on the way there,   *)
(* along the links, and nothing of another branch.                         *)
THEOREM SpecSeesUpstreamOnly ==
  ASSUME ~ IsFiniteSet(Systems), \A n \in Nets : Unnested(n)
  PROVE  Spec => []SeesUpstreamOnly
<1>1. RunInv /\ ShareInv => SeesUpstreamOnly
  <2> SUFFICES ASSUME RunInv, ShareInv, pc = "exec", fresh, ~FansOutUnsplit, NEW s \in Ins(current)
               PROVE  content[inPort[current][s]] \subseteq Upstream(current, s)
    BY DEF SeesUpstreamOnly
  <2> DEFINE h == Holding(inPort, outPort)
             S == Seeing(armed, pc)
             p == <<"in", current, s>>
  <2>1. net \in Nets /\ inPort \in Ports /\ outPort \in Ports
    BY Known
  <2>2. current \in Modules /\ current \notin net.groups /\ current # Root
    BY <2>1, NetIs, RunAssumption DEF RunInv, Phased
  <2>3. s \in Streams /\ inPort[current][s] # NULL
    <3>1. InPortsSet(current, inPort)
      BY <2>2 DEF RunInv, WorklistReady
    <3> QED BY <2>1, <2>2, <3>1, InsAre DEF InPortsSet
  <2>4. p \in S /\ h[p] = inPort[current][s]
    <3>1. p \in Places /\ h[p] = inPort[current][s]
      BY <2>2, <2>3 DEF Holding, Places
    <3>2. p[2] \notin net.groups
      BY <2>2
    <3> HIDE DEF h, p
    <3> QED BY <3>1, <3>2 DEF Counting, Seeing
  <2>5. Within(h, S, content)
    BY DEF ShareInv
  <2>6. content[h[p]] \subseteq TrailTo(p)
    <3> HIDE DEF h, S, p
    <3> QED BY <2>3, <2>4, <2>5 DEF Within
  <2> QED BY <2>4, <2>6 DEF TrailTo, Rounds, Upstream
<1> QED BY <1>1, SpecRunInv, SpecShareInv, PTL

-----------------------------------------------------------------------------
(* And nothing is lost on the way: the System of a place holds all that    *)
(* was written on the way there.                                           *)
Whole(h, C, con) == \A p \in C : h[p] # NULL => TrailTo(p) \subseteq con[h[p]]

LEMMA TrailComes ==
  ASSUME net \in Nets, NEW p \in Places
  PROVE  TrailTo(p) \subseteq Itself(p) \cup UNION {TrailTo(From(l)) : l \in Feeding(p)}
<1> DEFINE N == Cardinality(net.links)
<1>1. N \in Nat
  <2>1. net.links \in SUBSET Link
    BY NetAssumption DEF IsNet
  <2> QED BY <2>1, LinksFinite, FS_Subset, FS_CardinalityType
<1>2. Trail[N + 1][p] = Itself(p) \cup UNION {Trail[N][From(l)] : l \in Feeding(p)}
  BY <1>1, TrailUnfolds
<1>3. \A l \in Feeding(p) : Trail[N][From(l)] \subseteq Trail[N + 1][From(l)]
  BY <1>1, TrailGrows, PlacesAre
<1> HIDE DEF N
<1>4. Trail[N + 1][p] \subseteq Itself(p) \cup UNION {Trail[N + 1][From(l)] : l \in Feeding(p)}
  BY <1>2, <1>3
<1> QED BY <1>4 DEF TrailTo, Rounds, N

(* Where one link feeds each port, what is handed on is all that there is. *)
LEMMA MovesWhole ==
  ASSUME net \in Nets, FedOnce, NEW ls, NEW new, NEW D, NEW h \in [Places -> Systems \cup {NULL}],
         NEW h2, NEW con, NEW con2, Handed(ls, new, D, h, h2, con, con2),
         NEW C \in SUBSET Places, NEW C2 \in SUBSET Places, Whole(h, C, con),
         \A l \in ls : From(l) \in C,
         \A p \in C2 : Itself(p) = {} /\ (p \in C \/ ls \cap Feeding(p) # {})
  PROVE  Whole(h2, C2, con2)
<1>1. ASSUME NEW p \in Places, h[p] # NULL PROVE con2[h[p]] = con[h[p]]
  BY <1>1 DEF Handed, Anew
<1>2. \A l \in ls : con2[D[l]] = con[h[From(l)]]
  <2> TAKE l \in ls
  <2>1. CASE l \in new
    BY <2>1 DEF Handed, Anew
  <2>2. CASE l \notin new
    BY <1>1, <2>2 DEF Handed
  <2> QED BY <2>1, <2>2
<1>3. ASSUME NEW p \in C2, NEW l \in ls, l \in Feeding(p), h2[p] = D[l]
      PROVE  TrailTo(p) \subseteq con2[h2[p]]
  <2>1. Feeding(p) = {l}
    BY <1>3 DEF FedOnce
  <2>2. TrailTo(p) \subseteq TrailTo(From(l))
    BY <2>1, TrailComes
  <2>3. TrailTo(From(l)) \subseteq con[h[From(l)]]
    BY DEF Whole, Handed
  <2> QED BY <1>2, <1>3, <2>2, <2>3
<1>4. ASSUME NEW p \in C2, h2[p] # NULL PROVE TrailTo(p) \subseteq con2[h2[p]]
  <2>1. CASE \E l \in ls : l \in Feeding(p) /\ h2[p] = D[l]
    BY <1>3, <2>1
  <2>2. CASE ~ \E l \in ls : l \in Feeding(p) /\ h2[p] = D[l]
    <3>1. p \in C
      BY <1>4, <2>2 DEF Handed, Feeds
    <3>2. h2[p] = h[p]
      BY <1>4, <2>2 DEF Handed, Arrives
    <3> QED BY <1>1, <1>4, <3>1, <3>2 DEF Whole
  <2> QED BY <2>1, <2>2
<1> QED BY <1>4 DEF Whole

(* A module that writes adds itself to what it found on its in-ports.      *)
LEMMA AfterGetDataWhole ==
  ASSUME ~ IsFiniteSet(Systems), net \in Nets, NEW m \in Modules, ~IsGroup(m),
         inPort \in Ports, outPort \in Ports, content \in [Systems -> SUBSET Modules],
         NEW used \in SUBSET Streams, Outs(m) \subseteq used, InPortsSet(m, inPort),
         \A l \in net.links : l.dst = m => l.in \in Ins(m),
         NEW C \in SUBSET Places, \A p \in C : Itself(p) = {},
         \A s \in Streams : <<"in", m, s>> \in C,
         Whole(Holding(inPort, outPort), C, content)
  PROVE  LET got == AfterGetData(m, used)
         IN Whole(Holding(inPort, got.out), C \cup {<<"out", m, s>> : s \in Outs(m)}, got.content)
<1> DEFINE created == {s \in used : inPort[m][s] = NULL /\ outPort[m][s] = NULL}
           name == Named(created, inPort, outPort)
           y == Obtained(m, used)
           write == used \cap Outs(m)
           got == AfterGetData(m, used)
           h == Holding(inPort, outPort)
           h1 == Holding(inPort, got.out)
<1>1. name \in [created -> Systems \ Held(inPort, outPort)]
  <2>1. IsFiniteSet(created)
    BY RunAssumption, FS_Subset
  <2> HIDE DEF created
  <2> QED BY <2>1, HeldFinite, NamedIs
<1>h. /\ h \in [Places -> Systems \cup {NULL}]
      /\ \A s \in Streams : h[<<"in", m, s>>] = inPort[m][s]
      /\ \A p \in Places : h[p] # NULL => h[p] \in Held(inPort, outPort)
  <2>1. /\ h \in [Places -> Systems \cup {NULL}]
        /\ \A n \in Modules, s \in Streams :
             /\ <<"in", n, s>> \in Places /\ h[<<"in", n, s>>] = inPort[n][s]
             /\ <<"out", n, s>> \in Places /\ h[<<"out", n, s>>] = outPort[n][s]
        /\ \A p \in Places : h[p] # NULL => h[p] \in Held(inPort, outPort)
    BY HoldingIs, Zenon
  <2> HIDE DEF h
  <2> QED BY <2>1
<1>2. /\ y \in [used -> Systems]
      /\ \A s \in created : y[s] \notin Held(inPort, outPort)
      /\ \A s \in used : inPort[m][s] # NULL => y[s] = inPort[m][s]
  <2> HIDE DEF name
  <2>1. y = [s \in used |-> IF inPort[m][s] # NULL THEN inPort[m][s]
                            ELSE IF outPort[m][s] # NULL THEN outPort[m][s]
                            ELSE name[s]]
    BY DEF Obtained, name
  <2>2. \A s \in used : inPort[m][s] \in Systems \cup {NULL} /\ outPort[m][s] \in Systems \cup {NULL}
    BY DEF Ports, Port
  <2> QED BY <1>1, <2>1, <2>2
<1>4. got.out = [outPort EXCEPT ![m] = [s \in Streams |-> IF s \in write THEN y[s] ELSE @[s]]]
  BY DEF AfterGetData
<1>5. got.content =
        [z \in Systems |->
          (IF \E s \in used : y[s] = z /\ inPort[m][s] = NULL /\ outPort[m][s] = NULL
           THEN {} ELSE content[z])
          \cup (IF \E s \in write : y[s] = z THEN {m} ELSE {})]
  BY DEF AfterGetData
<1>6. ASSUME NEW p \in Places
      PROVE  IF p[1] = "out" /\ p[2] = m /\ p[3] \in write THEN h1[p] = y[p[3]] ELSE h1[p] = h[p]
  <2> HIDE DEF y, write
  <2>1. p[2] \in Modules /\ p[3] \in Streams
    BY DEF Places
  <2>2. got.out[p[2]][p[3]] = IF p[2] = m /\ p[3] \in write THEN y[p[3]] ELSE outPort[p[2]][p[3]]
    BY <1>4, <2>1 DEF Ports
  <2>3. h1[p] = IF p[1] = "in" THEN inPort[p[2]][p[3]] ELSE got.out[p[2]][p[3]]
    BY DEF Holding
  <2>4. h[p] = IF p[1] = "in" THEN inPort[p[2]][p[3]] ELSE outPort[p[2]][p[3]]
    BY DEF Holding
  <2>5. p[1] \in {"in", "out"}
    BY DEF Places
  <2> HIDE DEF got, h, h1
  <2> QED BY <2>2, <2>3, <2>4, <2>5
<1>7. /\ \A z \in Systems : z \in Held(inPort, outPort) => content[z] \subseteq got.content[z]
      /\ \A s \in write : m \in got.content[y[s]]
  <2>1. \A s \in used : inPort[m][s] = NULL /\ outPort[m][s] = NULL => s \in created
    OBVIOUS
  <2>2. \A s \in write : s \in used
    OBVIOUS
  <2> HIDE DEF y, write, created, got
  <2> QED BY <1>2, <1>5, <2>1, <2>2
<1>w. write = Outs(m)
  OBVIOUS
<1>a. Whole(h, C, content)
  OBVIOUS
<1> HIDE DEF created, name, y, write, got, h, h1
<1>8. ASSUME NEW p \in C, h[p] # NULL PROVE TrailTo(p) \subseteq got.content[h[p]]
  <2>1. h[p] \in Systems /\ h[p] \in Held(inPort, outPort)
    BY <1>h, <1>8
  <2> QED BY <1>7, <1>8, <1>a, <2>1 DEF Whole
<1>9. ASSUME NEW p \in C, h1[p] # NULL PROVE TrailTo(p) \subseteq got.content[h1[p]]
  <2>1. ~ (p[1] = "out" /\ p[2] = m)
    BY DEF Itself
  <2>2. h1[p] = h[p]
    BY <1>6, <2>1
  <2> QED BY <1>8, <1>9, <2>2
<1>10. ASSUME NEW s \in Outs(m) PROVE TrailTo(<<"out", m, s>>) \subseteq got.content[h1[<<"out", m, s>>]]
  <2> DEFINE o == <<"out", m, s>>
             i == <<"in", m, s>>
  <2>1. s \in Streams /\ s \in used /\ s \in write
    BY <1>w
  <2>2. i \in C /\ o \in Places /\ o[1] = "out" /\ o[2] = m /\ o[3] = s /\ Itself(o) = {m}
        /\ Feeding(o) = Feeding(i)
    BY <2>1 DEF Places, Itself, Feeding
  <2>3. \A l \in Feeding(o) : l \in net.links /\ l.dst = m /\ l.in = s
    BY DEF Feeding
  <2>i. h[i] = inPort[m][s]
    BY <1>h, <2>1
  <2> HIDE DEF o, i
  <2>4. h1[o] = y[s] /\ m \in got.content[y[s]]
    BY <1>6, <1>7, <2>1, <2>2
  <2>5. ASSUME NEW l \in Feeding(o) PROVE TrailTo(From(l)) \subseteq got.content[y[s]]
    <3>1. inPort[m][s] # NULL
      BY <2>3 DEF InPortsSet
    <3>2. y[s] = h[i] /\ h[i] # NULL
      BY <1>2, <2>1, <2>i, <3>1
    <3>3. TrailTo(From(l)) \subseteq TrailTo(i)
      BY <2>2, TrailSettles
    <3> QED BY <1>8, <2>2, <3>2, <3>3
  <2>6. TrailTo(o) \subseteq {m} \cup UNION {TrailTo(From(l)) : l \in Feeding(o)}
    BY <2>2, TrailComes
  <2>7. TrailTo(o) \subseteq got.content[h1[o]]
    BY <2>4, <2>5, <2>6
  <2> QED BY <2>7 DEF o
<1> QED BY <1>9, <1>10 DEF Whole, got, h1

(* In a clean run in which every module writes its streams, all in-ports   *)
(* are whole, and the out-ports of a group once all that feed them are     *)
(* done: what they hold before may be left over from an earlier run.       *)
Settled(ran) ==
  {p \in Places : p[1] = "in" \/ (IsGroup(p[2]) /\ \A l \in Feeding(p) : l.src \in ran)}
WholeInv ==
  clean /\ pc # "idle" /\ WellFormed /\ AllWritten /\ FedOnce =>
    Whole(Holding(inPort, outPort), Settled(done), content)

LEMMA WholeNext ==
  ASSUME net' = net,
         clean' /\ WellFormed /\ AllWritten' /\ FedOnce =>
           Whole(Holding(inPort', outPort'), Settled(done'), content')
  PROVE  WholeInv'
<1>1. (WellFormed' <=> WellFormed) /\ (FedOnce' <=> FedOnce)
  BY WellFormedStays DEF FedOnce, Feeding, IsGroup, IsOutOfGroup
<1>2. Settled(done)' = Settled(done')
  BY DEF Settled, Feeding, IsGroup, IsOutOfGroup
<1>3. Trail' = Trail
  BY DEF Trail, Itself, Feeding, From, IsGroup, IsOutOfGroup, IsIntoGroup
<1>4. ASSUME NEW p PROVE TrailTo(p)' = TrailTo(p)
  BY <1>3 DEF TrailTo, Rounds
<1> DEFINE h2 == Holding(inPort', outPort')
           C2 == Settled(done')
<1>5. Holding(inPort, outPort)' = h2
  BY DEF Holding
<1>6. Whole(Holding(inPort, outPort), Settled(done), content)' <=> Whole(h2, C2, content')
  <2> HIDE DEF h2, C2
  <2> QED BY <1>2, <1>4, <1>5 DEF Whole, C2
<1> QED BY <1>1, <1>6 DEF WholeInv

LEMMA SettledIs ==
  ASSUME NEW ran
  PROVE  /\ Settled(ran) \in SUBSET Places /\ \A p \in Settled(ran) : Itself(p) = {}
         /\ \A m \in Modules, s \in Streams : <<"in", m, s>> \in Settled(ran)
<1>1. \A p : p[1] = "in" => p[1] # "out"
  OBVIOUS
<1>2. \A p \in Settled(ran) : Itself(p) = {}
  BY <1>1 DEF Settled, Itself
<1> QED BY <1>2 DEF Settled, Places

LEMMA StartRunWhole ==
  ASSUME RunInv, StartRun
  PROVE  WholeInv'
<1> SUFFICES ASSUME clean', FedOnce
             PROVE  Whole(Holding(inPort', outPort'), Settled(done'), content')
  BY WholeNext DEF StartRun
<1>1. inPort' = NoData /\ done' = {} /\ net \in Nets
  BY Known DEF StartRun, ports
<1> SUFFICES ASSUME NEW p \in Settled(done'), Holding(inPort', outPort')[p] # NULL
             PROVE  TrailTo(p) = {}
  BY DEF Whole
<1>2. p \in Places /\ Itself(p) = {}
  BY SettledIs
<1>3. p[1] # "in"
  BY <1>1, <1>2 DEF Holding, NoData, Places
<1>4. Feeding(p) = {}
  BY <1>1, <1>3 DEF Settled
<1> QED BY <1>1, <1>2, <1>4, TrailComes

LEMMA StillWhole ==
  ASSUME WholeInv, net' = net, inPort' = inPort, outPort' = outPort, content' = content,
         done' = done, wrote' = wrote, clean' = clean, pc # "idle"
  PROVE  WholeInv'
<1>1. AllWritten' <=> AllWritten
  BY DEF AllWritten, Outs
<1> QED BY <1>1, WholeNext DEF WholeInv

LEMMA FinishModuleWhole ==
  ASSUME ~ IsFiniteSet(Systems), RunInv, OrderInv, ProgressInv, WholeInv, Plain(net),
         NEW m \in Modules, NEW used \in SUBSET Streams, FinishModule(m, used)
  PROVE  WholeInv'
<1> DEFINE got == AfterGetData(m, used)
           C == Settled(done)
           C1 == C \cup {<<"out", m, s>> : s \in Outs(m)}
           C2 == Settled(done')
<1>0. /\ net \in Nets /\ inPort \in Ports /\ outPort \in Ports
      /\ content \in [Systems -> SUBSET Modules]
  BY Known
<1>1. /\ net' = net /\ clean' = clean /\ pc = "exec" /\ done' = done \cup {m}
      /\ wrote' = wrote \cup ({m} \X (used \cap Outs(m)))
      /\ m = current /\ ShiftModuleOutput(m, got.out, got.content, worklist)
  BY DEF FinishModule
<1>2. ~IsGroup(m) /\ m # Root
  BY <1>0, <1>1, PlainIs DEF RunInv, Phased, IsGroup
<1>3. got.out \in Ports /\ got.content \in [Systems -> SUBSET Modules]
  BY <1>0, AfterGetDataIs
<1>4. \A s \in used \cap Outs(m) : got.out[m][s] # NULL
  BY <1>0, AfterGetDataIs
<1> HIDE DEF got
<1> SUFFICES ASSUME clean, WellFormed, AllWritten', FedOnce
             PROVE  Whole(Holding(inPort', outPort'), C2, content')
  BY <1>1, WholeNext
<1>w. AllWritten
  <2> SUFFICES ASSUME NEW n \in done \ net.groups, NEW s \in Outs(n) PROVE <<n, s>> \in wrote
    BY DEF AllWritten
  <2>1. n # m
    BY <1>1, <1>2 DEF OrderInv, Ordered, Once, Waiting
  <2>2. <<n, s>> \in wrote'
    BY <1>1 DEF AllWritten, Outs
  <2> QED BY <1>1, <2>1, <2>2
<1>5. Outs(m) \subseteq used
  <2> SUFFICES ASSUME NEW s \in Outs(m) PROVE s \in used
    OBVIOUS
  <2>1. m \notin done
    BY <1>1, <1>2 DEF OrderInv, Ordered, Once, Waiting
  <2>2. Recorded
    BY <1>1, <1>w DEF ProgressInv, Progressing
  <2>3. <<m, s>> \notin wrote
    BY <2>1, <2>2 DEF Recorded
  <2>4. <<m, s>> \in wrote'
    BY <1>1, <1>2 DEF AllWritten, Outs, IsGroup
  <2> QED BY <1>1, <2>3, <2>4
<1>6. InPortsSet(m, inPort)
  BY <1>1, <1>2 DEF RunInv, WorklistReady
<1>7. \A l \in net.links : l.dst = m => l.in \in Ins(m) /\ l.in \in Streams
  BY <1>0, <1>2, PlainIs DEF IsGroup
<1>8. Whole(Holding(inPort, outPort), C, content)
  BY <1>1, <1>w DEF WholeInv
<1>9. /\ C \in SUBSET Places /\ C2 \in SUBSET Places
      /\ \A p \in C \cup C2 : Itself(p) = {}
      /\ \A s \in Streams : <<"in", m, s>> \in C
  <2>1. C2 \in SUBSET Places /\ \A p \in C2 : Itself(p) = {}
    BY SettledIs
  <2>2. /\ C \in SUBSET Places /\ \A p \in C : Itself(p) = {}
        /\ \A s \in Streams : <<"in", m, s>> \in C
    BY SettledIs
  <2> HIDE DEF C, C2
  <2> QED BY <2>1, <2>2
<1>10. Outs(m) \in SUBSET Streams /\ C1 \in SUBSET Places
  <2>1. Outs(m) \in SUBSET Streams
    BY <1>5
  <2>2. \A s \in Streams : <<"out", m, s>> \in Places
    BY DEF Places
  <2> QED BY <1>9, <2>1, <2>2
<1>11. Whole(Holding(inPort, got.out), C1, got.content)
  <2> HIDE DEF C
  <2> QED BY <1>0, <1>2, <1>5, <1>6, <1>7, <1>8, <1>9, AfterGetDataWhole DEF got
<1> DEFINE ls == Branches(m, got.out)
           h == Holding(inPort, got.out)
           h2 == Holding(inPort', outPort')
           con2 == content'
<1>12. PICK new, D : ModuleMoves(m, got.out, got.content, new, D)
  BY <1>0, <1>1, <1>3, ShiftModuleOutputMoves
<1>13. Handed(ls, new, D, h, h2, got.content, con2)
  BY <1>12 DEF ModuleMoves
<1>14. h \in [Places -> Systems \cup {NULL}]
  BY <1>0, <1>3, HoldingIs
<1>15. \A l \in ls : From(l) \in C1
  <2> TAKE l \in ls
  <2>1. l \in net.links /\ l.src = m /\ ~IsIntoGroup(l)
    BY DEF Branches, Outgoing
  <2>2. l.out \in Outs(m)
    BY <1>0, <2>1, LinkIs
  <2> QED BY <2>1, <2>2 DEF From
(* The out-ports that settle are those of a group that the module feeds.   *)
<1>16. \A p \in C2 : p \in C1 \/ ls \cap Feeding(p) # {}
  <2> SUFFICES ASSUME NEW p \in C2, p \notin C PROVE ls \cap Feeding(p) # {}
    OBVIOUS
  <2>1. PICK l \in Feeding(p) : l.src \notin done
    BY DEF Settled
  <2>2. /\ l \in net.links /\ l.src = m /\ IsOutOfGroup(l)
    BY <1>1, <2>1 DEF Settled, Feeding, Places
  <2>3. ~IsIntoGroup(l) /\ l.out \in Outs(m)
    BY <1>0, <2>2, LinkIs
  <2>4. l \in ls
    BY <1>4, <1>5, <2>2, <2>3 DEF Branches, Outgoing
  <2> QED BY <2>1, <2>4
<1>17. \A p \in C2 : Itself(p) = {}
  BY <1>9
<1>18. Whole(h, C1, got.content)
  BY <1>11
<1>19. C1 \in SUBSET Places /\ C2 \in SUBSET Places
  BY <1>9, <1>10
<1> HIDE DEF C1, C2, ls, h, h2, con2
<1>20. Whole(h2, C2, con2)
  BY <1>0, <1>13, <1>14, <1>15, <1>16, <1>17, <1>18, <1>19, MovesWhole
<1> QED BY <1>20 DEF h2, con2

LEMMA EnterGroupWhole ==
  ASSUME ~ IsFiniteSet(Systems), RunInv, WholeInv, Plain(net), NEW g \in Modules, EnterGroup(g)
  PROVE  WholeInv'
<1> DEFINE out == [m \in Modules |-> IF m \in Members(g) THEN NoData[m] ELSE outPort[m]]
           h0 == Holding(inPort, outPort)
           h == Holding(inPort, out)
           h2 == Holding(inPort', outPort')
           C == Settled(done)
           ls == Inward(g)
           con == content
           con2 == content'
<1>0. /\ net \in Nets /\ inPort \in Ports /\ outPort \in Ports
      /\ content \in [Systems -> SUBSET Modules]
  BY Known
<1>1. /\ net' = net /\ clean' = clean /\ pc = "loop" /\ IsGroup(g)
      /\ done' = done /\ wrote' = wrote
      /\ ShiftGroupInput(g, out, Tail(worklist))
  BY DEF EnterGroup, Takes, history
<1>2. out \in Ports
  <2>1. \A m \in Modules : NoData[m] \in Port /\ outPort[m] \in Port
    BY <1>0 DEF NoData, Ports, Port
  <2> QED BY <2>1 DEF Ports
<1> SUFFICES ASSUME clean, WellFormed, AllWritten, FedOnce
             PROVE  Whole(h2, C, con2)
  <2>1. AllWritten' <=> AllWritten
    BY <1>1 DEF AllWritten, Outs
  <2> QED BY <1>1, <2>1, WholeNext
<1>3. Whole(h0, C, con)
  BY <1>1 DEF WholeInv
<1>4. \A p \in Places : h[p] # NULL => h[p] = h0[p]
  <2> SUFFICES ASSUME NEW p \in Places, h[p] # NULL PROVE h[p] = h0[p]
    OBVIOUS
  <2>1. CASE p[1] = "in"
    BY <2>1 DEF Holding
  <2>2. CASE p[1] # "in"
    <3>1. h[p] = out[p[2]][p[3]] /\ h0[p] = outPort[p[2]][p[3]]
      BY <2>2 DEF Holding
    <3>2. p[2] \in Modules /\ p[3] \in Streams
      BY DEF Places
    <3>3. NoData[p[2]][p[3]] = NULL
      BY <3>2 DEF NoData
    <3> QED BY <3>1, <3>2, <3>3
  <2> QED BY <2>1, <2>2
<1>5. C \in SUBSET Places /\ \A p \in C : Itself(p) = {}
  BY SettledIs
<1>6. Whole(h, C, con)
  <2> HIDE DEF h, h0, C, con
  <2> QED BY <1>3, <1>4, <1>5 DEF Whole
<1>7. PICK new, D : GroupMoves(g, out, new, D)
  BY <1>0, <1>1, <1>2, ShiftGroupInputMoves
<1>8. Handed(ls, new, D, h, h2, con, con2)
  BY <1>7 DEF GroupMoves
<1>9. h \in [Places -> Systems \cup {NULL}]
  BY <1>0, <1>2, HoldingIs
<1>10. \A l \in ls : From(l) \in C
  <2> TAKE l \in ls
  <2>1. l.src = g /\ IsIntoGroup(l) /\ l.out \in Streams
    BY <1>0, NetAssumption DEF Inward, IntoGroup, IsNet, Link
  <2> QED BY <2>1, SettledIs DEF From
<1> HIDE DEF C, ls, h, h2, con, con2
<1> QED BY <1>0, <1>5, <1>6, <1>8, <1>9, <1>10, MovesWhole

LEMMA FinishGroupWhole ==
  ASSUME ~ IsFiniteSet(Systems), RunInv, OrderInv, ProgressInv, WholeInv, Plain(net), Forward(net),
         NEW g \in Modules, FinishGroup(g)
  PROVE  WholeInv'
<1> DEFINE h == Holding(inPort, outPort)
           h2 == Holding(inPort', outPort')
           C == Settled(done)
           C2 == Settled(done')
           ls == Branches(g, outPort)
           con == content
           con2 == content'
<1>0. /\ net \in Nets /\ inPort \in Ports /\ outPort \in Ports
      /\ content \in [Systems -> SUBSET Modules]
  BY Known
<1>1. /\ net' = net /\ clean' = clean /\ pc = "loop" /\ g \in net.groups /\ ~armed[g]
      /\ done' = done \cup {g} /\ wrote' = wrote /\ Takes(g) /\ ~MustWait(g, Tail(worklist))
      /\ ShiftModuleOutput(g, outPort, content, Tail(worklist))
  BY DEF FinishGroup, Takes, IsGroup
<1> SUFFICES ASSUME clean, WellFormed, AllWritten', FedOnce
             PROVE  Whole(h2, C2, con2)
  BY <1>1, WholeNext
<1>w. AllWritten
  BY <1>1 DEF AllWritten, Outs
<1>2. Whole(h, C, con)
  BY <1>1, <1>w DEF WholeInv
<1>3. Progressing
  BY <1>1, <1>w DEF ProgressInv
<1>4. Members(g) \subseteq done
  <2>1. \A n \in Members(g) : n \notin Waiting
    BY <1>1, <1>3, NoMemberWaits DEF Progressing
  <2> QED BY <1>1, <1>3, <2>1, MembersDone
<1>5. C \in SUBSET Places /\ C2 \in SUBSET Places /\ \A p \in C2 : Itself(p) = {}
  BY SettledIs
<1>6. \A p \in C2 : p \in C
  <2> SUFFICES ASSUME NEW p \in C2, p[1] # "in", NEW l \in Feeding(p), l.src = g PROVE FALSE
    BY <1>1 DEF Settled
  <2>1. l \in net.links /\ IsOutOfGroup(l) /\ net.owner[l.src] = l.dst /\ l.dst \in Modules
    BY <1>0, PlainIs DEF Settled, Feeding, Places, IsOutOfGroup
  <2> QED BY <1>0, <1>1, <2>1, PlainIs
<1>7. PICK new, D : ModuleMoves(g, outPort, content, new, D)
  BY <1>0, <1>1, ShiftModuleOutputMoves
<1>8. Handed(ls, new, D, h, h2, con, con2)
  BY <1>7 DEF ModuleMoves
<1>9. h \in [Places -> Systems \cup {NULL}]
  BY <1>0, HoldingIs
<1>10. \A l \in ls : From(l) \in C
  <2> TAKE l \in ls
  <2>1. l \in net.links /\ l.src = g /\ ~IsIntoGroup(l) /\ l.out \in Streams
    BY <1>0, PlainIs DEF Branches, Outgoing
  <2> DEFINE o == <<"out", g, l.out>>
  <2>2. o \in Places /\ IsGroup(o[2]) /\ From(l) = o
    BY <1>1, <2>1 DEF From, IsGroup, Places
  <2>3. \A k \in Feeding(o) : k \in net.links /\ k.dst = g /\ IsOutOfGroup(k)
    BY <1>1 DEF Feeding, IsGroup
  <2>4. \A k \in Feeding(o) : k.src \in done
    BY <1>0, <1>4, <2>3, LinkIs DEF Members, IsOutOfGroup
  <2> HIDE DEF o
  <2> QED BY <2>2, <2>4 DEF Settled
<1> HIDE DEF C, C2, ls, h, h2, con, con2
<1> QED BY <1>0, <1>2, <1>5, <1>6, <1>8, <1>9, <1>10, MovesWhole

LEMMA WholeInductive ==
  ASSUME ~ IsFiniteSet(Systems), RunInv, OrderInv, ProgressInv, WholeInv,
         Plain(net), Forward(net), [Next]_vars
  PROVE  WholeInv'
<1>1. ASSUME NEW m \in Modules, Postpone(m) PROVE WholeInv'
  BY <1>1, StillWhole DEF Postpone, Takes, ports, history
<1>2. ASSUME NEW m \in Modules, StartModule(m) PROVE WholeInv'
  BY <1>2, StillWhole DEF StartModule, Takes, ports, history
<1>3. ASSUME NEW m \in Modules, NEW used \in SUBSET Streams, FinishModule(m, used) PROVE WholeInv'
  BY <1>3, FinishModuleWhole
<1>4. ASSUME NEW m \in Modules, NEW used \in SUBSET Streams, FailModule(m, used) PROVE WholeInv'
  BY <1>4 DEF FailModule, WholeInv
<1>5. ASSUME NEW g \in Modules, EnterGroup(g) PROVE WholeInv'
  BY <1>5, EnterGroupWhole
<1>6. ASSUME NEW g \in Modules, FinishGroup(g) PROVE WholeInv'
  BY <1>6, FinishGroupWhole
<1>7. CASE StartRun
  BY <1>7, StartRunWhole
<1>8. CASE EndRun \/ EndCanceled \/ Reset
  BY <1>8 DEF EndRun, EndCanceled, Reset, WholeInv
<1>9. CASE Cancel \/ UNCHANGED vars
  <2>1. UNCHANGED <<net, ports, pc, history>>
    BY <1>9 DEF Cancel, vars
  <2>2. CASE pc = "idle"
    BY <2>1, <2>2 DEF WholeInv
  <2>3. CASE pc # "idle"
    BY <2>1, <2>3, StillWhole DEF ports, history
  <2> QED BY <2>2, <2>3
<1> QED BY <1>1, <1>2, <1>3, <1>4, <1>5, <1>6, <1>7, <1>8, <1>9 DEF Next, RunStep

(* In every plain network whose links lead forward, and that is well       *)
(* formed, a module finds on its in-ports all that was written on the way  *)
(* there, if the run started without data, each port has one link, and     *)
(* every module that has executed wrote its streams.                       *)
THEOREM SpecSeesAllUpstream ==
  ASSUME ~ IsFiniteSet(Systems), \A n \in Nets : Plain(n) /\ Forward(n)
  PROVE  Spec => [](WellFormed => SeesAllUpstream)
<1>1. RunInv => Plain(net) /\ Forward(net)
  BY Known
<1>2. Init => ProgressInv /\ WholeInv
  BY DEF Init, ProgressInv, WholeInv
<1>3. RunInv /\ OrderInv /\ ProgressInv /\ [Next]_vars => ProgressInv'
  BY <1>1, ProgressInductive
<1>4. RunInv /\ OrderInv /\ ProgressInv /\ WholeInv /\ [Next]_vars => WholeInv'
  BY <1>1, WholeInductive
<1>5. RunInv /\ WholeInv => (WellFormed => SeesAllUpstream)
  <2> SUFFICES ASSUME RunInv, WholeInv, WellFormed, pc = "exec", clean, AllWritten, FedOnce,
                      NEW s \in Ins(current)
               PROVE  Upstream(current, s) \subseteq content[inPort[current][s]]
    BY DEF SeesAllUpstream
  <2> DEFINE h == Holding(inPort, outPort)
             C == Settled(done)
             p == <<"in", current, s>>
  <2>1. net \in Nets /\ inPort \in Ports /\ outPort \in Ports
    BY Known
  <2>2. current \in Modules /\ current # Root
    BY <2>1, NetIs, RunAssumption DEF RunInv, Phased
  <2>3. s \in Streams /\ inPort[current][s] # NULL
    <3>1. InPortsSet(current, inPort)
      BY <2>2 DEF RunInv, WorklistReady
    <3> QED BY <2>1, <2>2, <3>1, InsAre DEF InPortsSet
  <2>4. p \in C /\ h[p] = inPort[current][s]
    BY <2>2, <2>3, SettledIs DEF Holding, Places
  <2>5. Whole(h, C, content)
    BY DEF WholeInv
  <2>6. TrailTo(p) \subseteq content[h[p]]
    <3> HIDE DEF h, C, p
    <3> QED BY <2>3, <2>4, <2>5 DEF Whole
  <2> QED BY <2>4, <2>6 DEF TrailTo, Rounds, Upstream
<1>6. \A n \in Nets : Plain(n)
  OBVIOUS
<1> QED BY <1>2, <1>3, <1>4, <1>5, <1>6, SpecRunInv, SpecOrderInv, PTL DEF Spec
=============================================================================
