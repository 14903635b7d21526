------------------------------ MODULE Lineage ------------------------------
(***************************************************************************)
(* A System knows its predecessor, and many functions of the program walk  *)
(* from one predecessor to the next.  SystemGraph, Successors and          *)
(* SystemLifetime describe that walk with recursive functions; this module *)
(* has the lemmas about them that their proofs share.  par maps a system   *)
(* to its predecessor, or to none; a system is younger than that.  It also *)
(* has the recursion on 0..n that loops and rounds of other specifications *)
(* are.                                                                    *)
(***************************************************************************)
EXTENDS Integers, WellFoundedInduction, TLAPS

(* s and all its predecessors: what every set has that contains s and with *)
(* a system its predecessor.                                               *)
Closed(T, par, none) == \A t \in T : par[t] # none => par[t] \in T
Lineage(s, par, none) ==
  {p \in DOMAIN par : \A T \in SUBSET DOMAIN par : s \in T /\ Closed(T, par, none) => p \in T}

(* The recursive functions that the specifications have.                   *)
AllPredecessors(S, par, none) ==
  CHOOSE f : f = [s \in S |-> IF par[s] # none THEN {par[s]} \cup f[par[s]] ELSE {}]
AllLineages(S, par, none) ==
  CHOOSE f : f = [s \in S |-> {s} \cup (IF par[s] = none THEN {} ELSE f[par[s]])]

Tree(par, none, S) ==
  /\ S \subseteq Nat /\ none \notin S
  /\ par \in [S -> S \cup {none}]
  /\ \A s \in S : par[s] # none => par[s] < s

(* k, nobody's predecessor, gets one. *)
Adopted(par, par2, k, none, S) ==
  /\ Tree(par, none, S) /\ Tree(par2, none, S)
  /\ \A t \in S : par[t] # k
  /\ \A t \in S \ {k} : par2[t] = par[t]

-----------------------------------------------------------------------------
(* Least and largest elements: what induction comes down to here. *)

LessThan == {ss \in Nat \X Nat : ss[1] < ss[2]}
LEMMA LessThanWellFounded == IsWellFoundedOn(LessThan, Nat)
  BY NatLessThanWellFounded, Zenon DEF OpToRel, LessThan

LEMMA LeastExists ==
  ASSUME NEW T \in SUBSET Nat, T # {}
  PROVE  \E x \in T : \A y \in T : x <= y
<1>1. PICK x \in T : \A y \in T : ~ (<<y, x>> \in LessThan)
  BY LessThanWellFounded, WFMin
<1>2. \A y \in T : <<y, x>> \in Nat \X Nat /\ (y < x => <<y, x>> \in LessThan)
  BY DEF LessThan
<1>3. \A y \in T : ~ (y < x)
  BY <1>1, <1>2
<1> QED BY <1>3

LEMMA LargestExists ==
  ASSUME NEW n \in Nat, NEW S \in SUBSET (0..n), S # {}
  PROVE  \E m \in S : \A k \in S : k <= m
<1> DEFINE T == {n - k : k \in S}
<1>1. T \in SUBSET Nat /\ T # {}
  <2>1. \A k \in S : n - k \in Nat
    OBVIOUS
  <2>2. PICK k \in S : TRUE
    OBVIOUS
  <2> QED BY <2>1, <2>2
<1>2. PICK x \in T : \A y \in T : x <= y
  <2> HIDE DEF T
  <2> QED BY <1>1, LeastExists
<1>3. PICK m \in S : x = n - m
  BY <1>2
<1>4. \A k \in S : n - m <= n - k
  BY <1>2, <1>3
<1> QED BY <1>4

-----------------------------------------------------------------------------
(* A loop is a recursive function on 0..N.  When each turn takes S[n - 1]  *)
(* into S[n], there is a function that satisfies the recursion, and every  *)
(* one that does stays in S.                                               *)

LEMMA Induction ==
  ASSUME NEW N \in Nat, NEW S, NEW f, f[0] \in S[0],
         \A n \in 1..N : f[n - 1] \in S[n - 1] => f[n] \in S[n]
  PROVE  \A n \in 0..N : f[n] \in S[n]
<1> DEFINE Bad == {n \in 0..N : f[n] \notin S[n]}
<1>1. ASSUME Bad # {} PROVE FALSE
  <2>1. PICK n \in Bad : \A m \in Bad : n <= m
    <3>1. Bad \in SUBSET Nat
      OBVIOUS
    <3> HIDE DEF Bad
    <3> QED BY <1>1, <3>1, LeastExists
  <2>2. n \in 1..N /\ n - 1 \in 0..N /\ ~ (n <= n - 1)
    BY <2>1
  <2>3. f[n - 1] \in S[n - 1]
    BY <2>1, <2>2
  <2> QED BY <2>1, <2>2, <2>3
<1> QED BY <1>1

(* The same for a set of numbers.                                          *)
LEMMA StepByStep ==
  ASSUME NEW N \in Nat, NEW T, 0 \in T, \A n \in 1..N : n - 1 \in T => n \in T
  PROVE  0..N \subseteq T
<1> DEFINE id == [n \in 0..N |-> n]
           S  == [n \in 0..N |-> T]
<1>1. \A n \in 0..N : id[n] = n /\ S[n] = T
  OBVIOUS
<1>2. 0 \in 0..N /\ \A n \in 1..N : n \in 0..N /\ n - 1 \in 0..N
  OBVIOUS
<1> HIDE DEF id, S
<1>3. \A n \in 0..N : id[n] \in S[n]
  BY <1>1, <1>2, Induction
<1> QED BY <1>1, <1>3

Loop(f, N, b, step) == f = [n \in 0..N |-> IF n = 0 THEN b ELSE step[n][f[n - 1]]]

LEMMA Recursion ==
  ASSUME NEW N \in Nat, NEW S, NEW b, b \in S[0], NEW step,
         \A n \in 1..N : \A x \in S[n - 1] : step[n][x] \in S[n]
  PROVE  \E f : Loop(f, N, b, step) /\ \A n \in 0..N : f[n] \in S[n]
<1> DEFINE Stays(f, m) == \A n \in 0..m : f[n] \in S[n]
           Bad == {m \in 0..N : ~ \E f : Loop(f, m, b, step) /\ Stays(f, m)}
<1>1. ASSUME Bad # {} PROVE FALSE
  <2>1. PICK m \in Bad : \A l \in Bad : m <= l
    <3>1. Bad \in SUBSET Nat
      OBVIOUS
    <3> HIDE DEF Bad
    <3> QED BY <1>1, <3>1, LeastExists
  <2>m. m \in 0..N
    BY <2>1
  <2>2. m # 0
    <3> DEFINE f == [n \in {0} |-> b]
    <3>1. 0..0 = {0}
      OBVIOUS
    <3>2. Loop(f, 0, b, step) /\ Stays(f, 0)
      BY <3>1 DEF Loop
    <3> HIDE DEF f, Stays
    <3> QED BY <2>1, <3>2
  <2>3. m - 1 \in 0..N /\ m \in 1..N /\ ~ (m <= m - 1) /\ m - 1 \in 0..(m - 1)
    BY <2>m, <2>2
  <2>4. PICK f : Loop(f, m - 1, b, step) /\ Stays(f, m - 1)
    BY <2>1, <2>3
  <2>5. step[m][f[m - 1]] \in S[m]
    BY <2>3, <2>4
  <2> DEFINE g == [n \in 0..m |-> IF n = m THEN step[m][f[m - 1]] ELSE f[n]]
  <2>6. \A n \in 0..m : n # m => n \in 0..(m - 1) /\ g[n] = f[n]
    BY <2>m
  <2>7. Stays(g, m)
    BY <2>4, <2>5, <2>6
  <2>8. \A n \in 0..m : g[n] = IF n = 0 THEN b ELSE step[n][g[n - 1]]
    <3> TAKE n \in 0..m
    <3>1. CASE n = 0
      <4>1. f[0] = b /\ 0 # m /\ 0 \in 0..m
        BY <2>m, <2>2, <2>4 DEF Loop
      <4> QED BY <2>6, <3>1, <4>1
    <3>2. CASE n # 0
      <4>1. n - 1 \in 0..m /\ n - 1 # m
        BY <2>m, <3>2
      <4>2. g[n - 1] = f[n - 1]
        BY <2>6, <4>1
      <4>3. n = m => g[n] = step[n][f[n - 1]]
        OBVIOUS
      <4>4. n # m => g[n] = f[n] /\ f[n] = step[n][f[n - 1]]
        BY <2>4, <2>6, <3>2 DEF Loop
      <4> QED BY <3>2, <4>2, <4>3, <4>4
    <3> QED BY <3>1, <3>2
  <2>9. Loop(g, m, b, step)
    <3> DEFINE h == [n \in 0..m |-> IF n = 0 THEN b ELSE step[n][g[n - 1]]]
    <3>1. \A n \in 0..m : g[n] = h[n]
      BY <2>8
    <3>2. g = h
      BY <3>1
    <3> QED BY <3>2 DEF Loop
  <2> HIDE DEF g, Stays
  <2> QED BY <2>1, <2>7, <2>9
<1>2. N \notin Bad
  BY <1>1
<1> QED BY <1>2

(* The same for a function on all numbers, with one set to stay in.        *)
Iterates(f, b, step) == f = [n \in Nat |-> IF n = 0 THEN b ELSE step[f[n - 1]]]

LEMMA RecursionOnNat ==
  ASSUME NEW S, NEW b \in S, NEW step, \A x \in S : step[x] \in S
  PROVE  \E f : Iterates(f, b, step) /\ \A n \in Nat : f[n] \in S
<1> DEFINE all  == [n \in Nat |-> step]
           T    == [n \in Nat |-> S]
           Is(h, m) == Loop(h, m, b, all) /\ \A n \in 0..m : h[n] \in S
           upto == [m \in Nat |-> CHOOSE h : Is(h, m)]
           f    == [n \in Nat |-> upto[n][n]]
<1>1. \A m \in Nat : Is(upto[m], m)
  <2> SUFFICES ASSUME NEW m \in Nat PROVE \E h : Is(h, m)
    <3> HIDE DEF Is
    <3> QED OBVIOUS
  <2>1. \A n \in 1..m : \A x \in T[n - 1] : all[n][x] \in T[n]
    OBVIOUS
  <2>2. b \in T[0] /\ \A n \in 0..m : T[n] = S
    OBVIOUS
  <2> HIDE DEF all, T
  <2>3. \E h : Loop(h, m, b, all) /\ \A n \in 0..m : h[n] \in T[n]
    BY <2>1, <2>2, Recursion
  <2> QED BY <2>2, <2>3
<1>2. \A m \in Nat : \A n \in 0..m : upto[m][n] = f[n]
  <2> SUFFICES ASSUME NEW m \in Nat, NEW k \in 0..m PROVE upto[m][k] = upto[k][k]
    <3>1. \A n \in Nat : f[n] = upto[n][n]
      OBVIOUS
    <3> HIDE DEF f, upto
    <3> QED BY <3>1
  <2> DEFINE h == upto[m]
             i == upto[k]
             Same == [n \in 0..k |-> {h[n]}]
  <2>1. Is(h, m) /\ Is(i, k)
    BY <1>1
  <2> HIDE DEF h, i, upto
  <2>2. /\ \A n \in 0..m : h[n] = IF n = 0 THEN b ELSE step[h[n - 1]]
        /\ \A n \in 0..k : i[n] = IF n = 0 THEN b ELSE step[i[n - 1]]
    <3>1. \A n \in Nat : all[n] = step
      OBVIOUS
    <3>2. 0..m \subseteq Nat /\ 0..k \subseteq Nat
      OBVIOUS
    <3>3. Loop(h, m, b, all) /\ Loop(i, k, b, all)
      BY <2>1
    <3> HIDE DEF all
    <3>4. \A n \in 0..m : h[n] = IF n = 0 THEN b ELSE step[h[n - 1]]
      BY <3>1, <3>2, <3>3 DEF Loop
    <3>5. \A n \in 0..k : i[n] = IF n = 0 THEN b ELSE step[i[n - 1]]
      BY <3>1, <3>2, <3>3 DEF Loop
    <3> QED BY <3>4, <3>5
  <2>3. i[0] \in Same[0]
    <3>1. 0 \in 0..k /\ 0 \in 0..m
      OBVIOUS
    <3>2. i[0] = h[0]
      BY <2>2, <3>1
    <3> QED BY <3>1, <3>2
  <2>4. ASSUME NEW n \in 1..k, i[n - 1] \in Same[n - 1] PROVE i[n] \in Same[n]
    BY <2>2, <2>4
  <2>5. \A n \in 0..k : i[n] \in Same[n]
    <3> HIDE DEF Same
    <3> QED BY <2>3, <2>4, Induction
  <2>6. i[k] = h[k]
    BY <2>5
  <2> QED BY <2>6 DEF h, i
<1>3. \A n \in Nat : f[n] = (IF n = 0 THEN b ELSE step[f[n - 1]]) /\ f[n] \in S
  <2> SUFFICES ASSUME NEW n \in Nat
               PROVE  f[n] = (IF n = 0 THEN b ELSE step[f[n - 1]]) /\ f[n] \in S
    OBVIOUS
  <2> DEFINE h == upto[n]
  <2>1. Is(h, n) /\ f[n] = h[n] /\ n \in 0..n
    BY <1>1
  <2>2. n # 0 => n - 1 \in 0..n /\ h[n - 1] = f[n - 1]
    <3>1. n # 0 => n - 1 \in 0..n
      OBVIOUS
    <3>2. \A j \in 0..n : upto[n][j] = f[j]
      BY <1>2
    <3> HIDE DEF f, upto
    <3> QED BY <3>1, <3>2
  <2> HIDE DEF h, f
  <2> QED BY <2>1, <2>2 DEF Loop
<1>4. f = [n \in Nat |-> IF n = 0 THEN b ELSE step[f[n - 1]]]
  <2> DEFINE g == [n \in Nat |-> IF n = 0 THEN b ELSE step[f[n - 1]]]
  <2>1. \A n \in Nat : f[n] = g[n]
    <3> HIDE DEF f
    <3> QED BY <1>3
  <2>2. f = g
    <3> HIDE DEF upto
    <3> QED BY <2>1
  <2> QED BY <2>2
<1> HIDE DEF f
<1>5. Iterates(f, b, step) /\ \A n \in Nat : f[n] \in S
  <2> HIDE DEF f
  <2> QED BY <1>3, <1>4 DEF Iterates
<1> HIDE DEF f
<1> QED BY <1>5

-----------------------------------------------------------------------------
(* A lineage is a system and the lineage of its predecessor. *)
LEMMA LineageUnfolds ==
  ASSUME NEW S, NEW none, NEW par, Tree(par, none, S), NEW s \in S
  PROVE  /\ Lineage(s, par, none) \in SUBSET S
         /\ Lineage(s, par, none) =
              {s} \cup (IF par[s] # none THEN Lineage(par[s], par, none) ELSE {})
<1> DEFINE L(t) == Lineage(t, par, none)
           M == {s} \cup (IF par[s] # none THEN L(par[s]) ELSE {})
<1>1. \A t \in S : L(t) \in SUBSET S /\ t \in L(t) /\ Closed(L(t), par, none)
  <2>1. DOMAIN par = S /\ \A t \in S : par[t] # none => par[t] \in S
    BY DEF Tree
  <2>2. \A t \in S : L(t) \in SUBSET S /\ t \in L(t)
    BY <2>1 DEF Lineage
  <2>3. ASSUME NEW t \in S, NEW p \in L(t), par[p] # none
        PROVE  par[p] \in L(t)
    BY <2>1, <2>3 DEF Lineage, Closed
  <2> QED BY <2>2, <2>3 DEF Closed
<1>2. par[s] # none => par[s] \in S
  BY DEF Tree
<1>3. L(s) \subseteq M
  <2>1. Closed(M, par, none) /\ s \in M
    BY <1>1, <1>2 DEF Closed
  <2>2. M \in SUBSET DOMAIN par
    BY <1>1, <1>2 DEF Tree
  <2> QED BY <2>1, <2>2 DEF Lineage
<1>4. M \subseteq L(s)
  <2>1. par[s] # none => par[s] \in L(s)
    BY <1>1 DEF Closed
  <2>2. L(s) \in SUBSET DOMAIN par
    BY <1>1 DEF Tree
  <2>3. par[s] # none => L(par[s]) \subseteq L(s)
    BY <2>1, <2>2, <1>1 DEF Lineage
  <2> QED BY <2>3, <1>1
<1> QED BY <1>1, <1>3, <1>4

(* A predecessor is older. *)
LEMMA LineageOlder ==
  ASSUME NEW S, NEW none, NEW par, Tree(par, none, S), NEW s \in S,
         NEW p \in Lineage(s, par, none)
  PROVE  p <= s
<1> DEFINE T == {t \in S : t <= s}
<1>1. T \in SUBSET DOMAIN par /\ s \in T
  BY DEF Tree
<1>2. Closed(T, par, none)
  <2> SUFFICES ASSUME NEW t \in S, t <= s, par[t] # none PROVE par[t] \in S /\ par[t] <= s
    BY DEF Closed
  <2>1. par[t] \in S /\ par[t] < t
    BY DEF Tree
  <2>2. {s, t, par[t]} \subseteq Nat
    BY <2>1 DEF Tree
  <2> QED BY <2>1, <2>2
<1> QED BY <1>1, <1>2 DEF Lineage

(* The lineage of a predecessor is part of the lineage. *)
LEMMA LineageTransitive ==
  ASSUME NEW S, NEW none, NEW par, Tree(par, none, S), NEW s \in S,
         NEW p \in Lineage(s, par, none)
  PROVE  Lineage(p, par, none) \subseteq Lineage(s, par, none)
<1>1. Closed(Lineage(s, par, none), par, none)
  BY DEF Lineage, Closed, Tree
<1>2. Lineage(s, par, none) \in SUBSET DOMAIN par
  BY DEF Lineage
<1> QED BY <1>1, <1>2 DEF Lineage

(* Of two predecessors the older one is a predecessor of the younger one. *)
LEMMA LineageChain ==
  ASSUME NEW S, NEW none, NEW par, Tree(par, none, S), NEW s \in S,
         NEW p \in Lineage(s, par, none), NEW q \in Lineage(s, par, none), p <= q
  PROVE  p \in Lineage(q, par, none)
<1> DEFINE L(t) == Lineage(t, par, none)
           T == {t \in S : q \in L(t)} \cup L(q)
<1>1. p \in S /\ q \in S
  BY LineageUnfolds
<1>2. L(q) \in SUBSET S /\ q \in L(q)
  BY <1>1, LineageUnfolds
<1>3. Closed(T, par, none)
  <2> SUFFICES ASSUME NEW t \in T, par[t] # none PROVE par[t] \in T
    BY DEF Closed
  <2>1. t \in S /\ par[t] \in S
    BY <1>2 DEF Tree
  <2>2. L(t) = {t} \cup L(par[t])
    BY <2>1, LineageUnfolds
  <2>3. CASE q \in L(t)
    <3>1. CASE q = t
      BY <2>2, <2>1, <3>1, LineageUnfolds
    <3>2. CASE q # t
      BY <2>1, <2>2, <2>3, <3>2
    <3> QED BY <3>1, <3>2
  <2>4. CASE t \in L(q)
    <3>1. L(t) \subseteq L(q)
      BY <1>1, <2>4, LineageTransitive
    <3>2. par[t] \in L(par[t])
      BY <2>1, LineageUnfolds
    <3> QED BY <2>2, <3>1, <3>2
  <2> QED BY <2>3, <2>4
<1>4. T \in SUBSET DOMAIN par /\ s \in T
  BY <1>2 DEF Tree
<1>5. p \in T
  <2> HIDE DEF T
  <2> QED BY <1>3, <1>4 DEF Lineage
<1>6. CASE q \in L(p)
  <2>1. q <= p
    BY <1>1, <1>6, LineageOlder
  <2>2. p = q
    BY <1>1, <2>1 DEF Tree
  <2> QED BY <2>2, <1>2
<1> QED BY <1>5, <1>6

(* Who is nobody's predecessor is in no other lineage. *)
LEMMA LeafIsNoPredecessor ==
  ASSUME NEW S, NEW none, NEW par, Tree(par, none, S),
         NEW leaf \in S, \A t \in S : par[t] # leaf,
         NEW s \in S, s # leaf
  PROVE  leaf \notin Lineage(s, par, none)
<1> DEFINE T == S \ {leaf}
<1>1. T \in SUBSET DOMAIN par /\ s \in T
  BY DEF Tree
<1>2. Closed(T, par, none)
  BY DEF Closed, Tree
<1> QED BY <1>1, <1>2 DEF Lineage

(* When k, nobody's predecessor, gets one, no other lineage changes.       *)
LEMMA LineageExtends ==
  ASSUME NEW S, NEW none, NEW par, NEW par2,
         NEW k, Adopted(par, par2, k, none, S),
         NEW s \in S, s # k
  PROVE  Lineage(s, par2, none) = Lineage(s, par, none)
<1> USE DEF Adopted
<1> DEFINE N == S \ {k}
<1>1. Closed(N, par, none) /\ Closed(N, par2, none)
  BY DEF Closed, Tree
<1>2. DOMAIN par = S /\ DOMAIN par2 = S
  BY DEF Tree
<1>3. ASSUME NEW T \in SUBSET S
      PROVE  Closed(T, par, none) => Closed(T \cap N, par2, none)
  BY <1>1 DEF Closed
<1>4. ASSUME NEW T \in SUBSET S
      PROVE  Closed(T, par2, none) => Closed(T \cap N, par, none)
  BY <1>1 DEF Closed
<1>5. ASSUME NEW p \in Lineage(s, par2, none)
      PROVE  p \in Lineage(s, par, none)
  <2> SUFFICES ASSUME NEW T \in SUBSET S, s \in T, Closed(T, par, none)
               PROVE  p \in T
    BY <1>2 DEF Lineage
  <2>1. T \cap N \in SUBSET S /\ s \in T \cap N
    OBVIOUS
  <2>2. Closed(T \cap N, par2, none)
    BY <1>3
  <2> QED BY <1>2, <2>1, <2>2 DEF Lineage
<1>6. ASSUME NEW p \in Lineage(s, par, none)
      PROVE  p \in Lineage(s, par2, none)
  <2> SUFFICES ASSUME NEW T \in SUBSET S, s \in T, Closed(T, par2, none)
               PROVE  p \in T
    BY <1>2 DEF Lineage
  <2>1. T \cap N \in SUBSET S /\ s \in T \cap N
    OBVIOUS
  <2>2. Closed(T \cap N, par, none)
    BY <1>4
  <2> QED BY <1>2, <2>1, <2>2 DEF Lineage
<1> QED BY <1>5, <1>6

-----------------------------------------------------------------------------
(* What the recursive functions of the specifications are. *)
LEMMA AllPredecessorsAre ==
  ASSUME NEW S, NEW none, NEW par, Tree(par, none, S), NEW s \in S
  PROVE  AllPredecessors(S, par, none)[s] =
           IF par[s] # none THEN Lineage(par[s], par, none) ELSE {}
<1> DEFINE L(t) == Lineage(t, par, none)
           P == AllPredecessors(S, par, none)
           F(f) == [t \in S |-> IF par[t] # none THEN {par[t]} \cup f[par[t]] ELSE {}]
           G == [t \in S |-> IF par[t] # none THEN L(par[t]) ELSE {}]
           Differ == {t \in S : P[t] # G[t]}
<1>1. ASSUME NEW t \in S, par[t] # none
      PROVE  par[t] \in S /\ ~ (t <= par[t])
  <2>1. par[t] \in S /\ S \subseteq Nat /\ par[t] < t
    BY <1>1 DEF Tree
  <2>2. t \in Nat /\ par[t] \in Nat
    BY <2>1
  <2> QED BY <2>1, <2>2
<1>2. G = F(G)
  <2> SUFFICES ASSUME NEW t \in S, par[t] # none PROVE L(par[t]) = {par[t]} \cup G[par[t]]
    OBVIOUS
  <2> QED BY <1>1, LineageUnfolds
<1>3. P = F(P)
  <2>1. P = CHOOSE f : f = F(f)
    BY DEF AllPredecessors
  <2> HIDE DEF F, G, P
  <2> QED BY <1>2, <2>1
<1>4. ASSUME Differ # {} PROVE FALSE
  <2>1. PICK t \in Differ : \A u \in Differ : t <= u
    <3>1. Differ \in SUBSET Nat
      BY DEF Tree
    <3> HIDE DEF Differ
    <3> QED BY <3>1, <1>4, LeastExists
  <2>2. t \in S /\ P[t] # G[t]
    OBVIOUS
  <2>3. par[t] # none => P[par[t]] = G[par[t]]
    <3>1. par[t] # none => par[t] \in S /\ ~ (t <= par[t])
      BY <1>1, <2>2
    <3> QED BY <2>1, <3>1
  <2>4. P[t] = F(P)[t] /\ G[t] = F(G)[t]
    <3> HIDE DEF F, G, P
    <3> QED BY <1>2, <1>3
  <2> QED BY <2>2, <2>3, <2>4
<1> QED BY <1>4

LEMMA AllLineagesAre ==
  ASSUME NEW S, NEW none, NEW par, Tree(par, none, S), NEW s \in S
  PROVE  AllLineages(S, par, none)[s] = Lineage(s, par, none)
<1> DEFINE L(t) == Lineage(t, par, none)
           P == AllLineages(S, par, none)
           F(f) == [t \in S |-> {t} \cup (IF par[t] = none THEN {} ELSE f[par[t]])]
           G == [t \in S |-> L(t)]
           Differ == {t \in S : P[t] # G[t]}
<1>1. ASSUME NEW t \in S, par[t] # none
      PROVE  par[t] \in S /\ ~ (t <= par[t])
  <2>1. par[t] \in S /\ S \subseteq Nat /\ par[t] < t
    BY <1>1 DEF Tree
  <2>2. t \in Nat /\ par[t] \in Nat
    BY <2>1
  <2> QED BY <2>1, <2>2
<1>2. G = F(G)
  <2> SUFFICES ASSUME NEW t \in S
               PROVE  L(t) = {t} \cup (IF par[t] = none THEN {} ELSE G[par[t]])
    OBVIOUS
  <2> QED BY <1>1, LineageUnfolds
<1>3. P = F(P)
  <2>1. P = CHOOSE f : f = F(f)
    BY DEF AllLineages
  <2> HIDE DEF F, G, P
  <2> QED BY <1>2, <2>1
<1>4. ASSUME Differ # {} PROVE FALSE
  <2>1. PICK t \in Differ : \A u \in Differ : t <= u
    <3>1. Differ \in SUBSET Nat
      BY DEF Tree
    <3> HIDE DEF Differ
    <3> QED BY <3>1, <1>4, LeastExists
  <2>2. t \in S /\ P[t] # G[t]
    OBVIOUS
  <2>3. par[t] # none => P[par[t]] = G[par[t]]
    <3>1. par[t] # none => par[t] \in S /\ ~ (t <= par[t])
      BY <1>1, <2>2
    <3> QED BY <2>1, <3>1
  <2>4. P[t] = F(P)[t] /\ G[t] = F(G)[t]
    <3> HIDE DEF F, G, P
    <3> QED BY <1>2, <1>3
  <2> QED BY <2>2, <2>3, <2>4
<1> QED BY <1>4
=============================================================================
