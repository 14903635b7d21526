------------------------ MODULE SimulationFileProofs ------------------------
(***************************************************************************)
(* What holds of a network that is edited, saved and loaded, for any       *)
(* modules, groups, ports and files.                                       *)
(***************************************************************************)
EXTENDS SimulationFile, Lineage, FiniteSetTheorems, SequenceTheorems

-----------------------------------------------------------------------------
(* A part of a sequence, in its order. *)

(* f[n] is what is kept of the first n elements. *)
Keeping(f, s, S) ==
  /\ f[0] = <<>>
  /\ \A n \in 1..Len(s) : f[n] = IF s[n] \in S THEN Append(f[n - 1], s[n]) ELSE f[n - 1]

LEMMA KeptKeeps ==
  ASSUME NEW X, NEW s \in Seq(X), NEW S
  PROVE  \E f : /\ Keeping(f, s, S) /\ Kept(s, S) = f[Len(s)]
                /\ \A n \in 0..Len(s) : f[n] \in Seq(X)
<1> DEFINE N == Len(s)
           T == [n \in 0..N |-> Seq(X)]
           Longer(n, w) == IF s[n] \in S THEN Append(w, s[n]) ELSE w
           step == [n \in 1..N |-> [w \in Seq(X) |-> Longer(n, w)]]
           Upto == CHOOSE f : f = [n \in 0..N |->
                     IF n = 0 THEN <<>>
                     ELSE IF s[n] \in S THEN Append(f[n - 1], s[n]) ELSE f[n - 1]]
<1>n. N \in Nat
  OBVIOUS
<1>1. \A n \in 0..N : T[n] = Seq(X)
  OBVIOUS
<1>2. \A n \in 1..N : \A w \in Seq(X) : step[n][w] = Longer(n, w) /\ step[n][w] \in Seq(X)
  <2>1. \A n \in 1..N : s[n] \in X
    OBVIOUS
  <2>2. \A n \in 1..N : \A w \in Seq(X) : Longer(n, w) \in Seq(X)
    BY <2>1
  <2> HIDE DEF Longer
  <2> QED BY <2>2
<1>3. \A n \in 1..N : n \in 0..N /\ n - 1 \in 0..N /\ n # 0
  BY <1>n
<1> HIDE DEF N, T, step
<1>4. <<>> \in T[0] /\ \A n \in 1..N : \A w \in T[n - 1] : step[n][w] \in T[n]
  <2>1. 0 \in 0..N /\ <<>> \in Seq(X)
    BY <1>n
  <2>2. <<>> \in T[0]
    BY <1>1, <2>1
  <2>3. \A n \in 1..N : T[n] = Seq(X) /\ T[n - 1] = Seq(X)
    BY <1>1, <1>3
  <2> HIDE DEF Longer
  <2>4. \A n \in 1..N : \A w \in Seq(X) : step[n][w] \in Seq(X)
    BY <1>2
  <2> QED BY <2>2, <2>3, <2>4
<1>5. PICK h : Loop(h, N, <<>>, step) /\ \A n \in 0..N : h[n] \in T[n]
  BY <1>n, <1>4, Recursion
<1>6. h = [n \in 0..N |-> IF n = 0 THEN <<>>
                          ELSE IF s[n] \in S THEN Append(h[n - 1], s[n]) ELSE h[n - 1]]
  <2> DEFINE k == [n \in 0..N |-> IF n = 0 THEN <<>> ELSE Longer(n, h[n - 1])]
  <2>1. \A n \in 0..N : n = 0 \/ n \in 1..N
    BY <1>n
  <2>2. \A n \in 1..N : step[n][h[n - 1]] = Longer(n, h[n - 1])
    <3> HIDE DEF Longer
    <3> QED BY <1>1, <1>2, <1>3, <1>5
  <2>3. \A n \in 0..N : h[n] = k[n]
    <3> HIDE DEF Longer
    <3> QED BY <1>5, <2>1, <2>2 DEF Loop
  <2>4. h = k
    <3> HIDE DEF Longer
    <3> QED BY <1>5, <2>3 DEF Loop
  <2> QED BY <2>4
<1>7. Upto = [n \in 0..N |-> IF n = 0 THEN <<>>
                ELSE IF s[n] \in S THEN Append(Upto[n - 1], s[n]) ELSE Upto[n - 1]]
  BY <1>6
<1>8. Kept(s, S) = Upto[N]
  BY DEF Kept, N
<1> HIDE DEF Upto
<1>9. Keeping(Upto, s, S)
  <2>1. 0 \in 0..N
    BY <1>n
  <2>2. Upto[0] = <<>>
    BY <1>7, <2>1
  <2>3. \A n \in 1..N : Upto[n] = Longer(n, Upto[n - 1])
    BY <1>3, <1>7
  <2> QED BY <2>2, <2>3 DEF Keeping, N
<1>10. \A n \in 0..N : Upto[n] \in T[n]
  <2>1. Upto[0] \in T[0]
    BY <1>4, <1>9 DEF Keeping
  <2>2. ASSUME NEW n \in 1..N, Upto[n - 1] \in T[n - 1] PROVE Upto[n] \in T[n]
    <3>1. Upto[n] = Longer(n, Upto[n - 1])
      BY <1>9 DEF Keeping, N
    <3> HIDE DEF Longer
    <3> QED BY <1>1, <1>2, <1>3, <2>2, <3>1
  <2> QED BY <1>n, <2>1, <2>2, Induction
<1> QED BY <1>1, <1>8, <1>9, <1>10 DEF N

(* What Kept returns: the elements that are in S, each as often.           *)
LEMMA KeptIs ==
  ASSUME NEW X, NEW s \in Seq(X), NEW S
  PROVE  /\ Kept(s, S) \in Seq(X) /\ ToSet(Kept(s, S)) = ToSet(s) \cap S
         /\ IsInjective(s) => IsInjective(Kept(s, S))
<1>1. PICK f : /\ Keeping(f, s, S) /\ Kept(s, S) = f[Len(s)]
               /\ \A n \in 0..Len(s) : f[n] \in Seq(X)
  BY KeptKeeps
<1> DEFINE N == Len(s)
           First(n) == {s[i] : i \in 1..n}
           Good(n) == {w \in Seq(X) : /\ ToSet(w) = First(n) \cap S
                                      /\ IsInjective(s) => IsInjective(w)}
           T == [n \in 0..N |-> Good(n)]
<1>2. N \in Nat /\ ToSet(s) = First(N)
  BY DEF ToSet
<1>3. f[0] \in T[0]
  <2>1. f[0] = <<>> /\ <<>> \in Seq(X) /\ 0 \in 0..N
    BY <1>1, <1>2 DEF Keeping
  <2>2. ToSet(<<>>) = {} /\ First(0) = {} /\ IsInjective(<<>>)
    BY DEF ToSet, IsInjective
  <2> QED BY <2>1, <2>2
<1>4. ASSUME NEW n \in 1..N, f[n - 1] \in T[n - 1] PROVE f[n] \in T[n]
  <2>1. n - 1 \in 0..N /\ n \in 0..N /\ s[n] \in X
    BY <1>2
  <2> DEFINE w == f[n - 1]
  <2>2. w \in Seq(X) /\ ToSet(w) = First(n - 1) \cap S /\ (IsInjective(s) => IsInjective(w))
    BY <1>4, <2>1
  <2>3. First(n) = First(n - 1) \cup {s[n]}
    <3>1. 1..n = (1..(n - 1)) \cup {n}
      BY <1>2
    <3> QED BY <3>1
  <2>4. CASE s[n] \in S
    <3>1. f[n] = Append(w, s[n])
      BY <1>1, <2>4 DEF Keeping
    <3>2. f[n] \in Seq(X) /\ ToSet(f[n]) = ToSet(w) \cup {s[n]}
      <4>1. Append(w, s[n]) \in Seq(X) /\ Len(Append(w, s[n])) = Len(w) + 1
        BY <2>1, <2>2
      <4>2. \A i \in 1..Len(w) : Append(w, s[n])[i] = w[i]
        BY <2>1, <2>2
      <4>3. Append(w, s[n])[Len(w) + 1] = s[n] /\ Len(w) \in Nat
        BY <2>1, <2>2
      <4> HIDE DEF w
      <4>4. ToSet(Append(w, s[n])) \subseteq ToSet(w) \cup {s[n]}
        <5>1. \A i \in 1..(Len(w) + 1) : i \in 1..Len(w) \/ i = Len(w) + 1
          BY <4>3
        <5> QED BY <2>2, <4>1, <4>2, <4>3, <5>1 DEF ToSet
      <4>5. ToSet(w) \cup {s[n]} \subseteq ToSet(Append(w, s[n]))
        <5>1. /\ \A i \in 1..Len(w) : i \in 1..(Len(w) + 1)
              /\ Len(w) + 1 \in 1..(Len(w) + 1)
          BY <4>3
        <5> QED BY <2>2, <4>1, <4>2, <4>3, <5>1 DEF ToSet
      <4> QED BY <3>1, <4>1, <4>4, <4>5
    <3>3. ASSUME IsInjective(s) PROVE IsInjective(f[n])
      <4>1. s[n] \notin First(n - 1)
        <5>1. \A i \in 1..(n - 1) : i \in DOMAIN s /\ n \in DOMAIN s /\ i # n
          BY <1>2
        <5> QED BY <3>3, <5>1 DEF IsInjective
      <4>2. s[n] \notin ToSet(w) /\ IsInjective(w)
        BY <2>2, <3>3, <4>1
      <4> HIDE DEF w
      <4>3. IsInjective(Append(w, s[n]))
        BY <2>1, <2>2, <4>2 DEF IsInjective, ToSet
      <4> QED BY <3>1, <4>3
    <3> QED BY <2>1, <2>2, <2>3, <2>4, <3>2, <3>3
  <2>5. CASE s[n] \notin S
    <3>1. f[n] = w
      BY <1>1, <2>5 DEF Keeping
    <3> HIDE DEF w, First
    <3> QED BY <2>1, <2>2, <2>3, <2>5, <3>1
  <2> QED BY <2>4, <2>5
<1>5. \A n \in 0..N : f[n] \in T[n]
  <2> HIDE DEF T, N
  <2> QED BY <1>2, <1>3, <1>4, Induction
<1>6. f[N] \in Good(N)
  BY <1>2, <1>5
<1> QED BY <1>1, <1>2, <1>6

-----------------------------------------------------------------------------
(* Types of what the check of one module or one port is made of. *)

Ported(sv) == DOMAIN sv = Ports /\ \A p \in Ports : sv[p] = NULL \/ sv[p] \subseteq Views
Carried(ls) == UNION {[D -> SUBSET Views] : D \in SUBSET ls}
Calls(ls)   == [of : Modules, ok : BOOLEAN, carry : Carried(ls)]

(* Both ports of a link are there, as isLinkingValid has it.               *)
Fits(own, l) ==
  /\ l.out \in IF own[l.dst] = l.src THEN InPorts[l.src] ELSE OutPorts[l.src]
  /\ l.in \in IF own[l.src] = l.dst THEN OutPorts[l.dst] ELSE InPorts[l.dst]

LEMMA InPortIs == ASSUME NEW m \in Modules, NEW s \in InPorts[m] PROVE <<"in", m, s>> \in Ports
<1> DEFINE P(n) == {<<"in", n, r>> : r \in InPorts[n]}
<1>1. <<"in", m, s>> \in P(m)
  OBVIOUS
<1>2. P(m) \in {P(n) : n \in Modules}
  OBVIOUS
<1>3. P(m) \subseteq Ports
  BY <1>2, Zenon DEF Ports
<1> QED BY <1>1, <1>3

LEMMA OutPortIs == ASSUME NEW g \in Groups, NEW s \in OutPorts[g] PROVE <<"out", g, s>> \in Ports
<1> DEFINE P(n) == {<<"out", n, r>> : r \in OutPorts[n]}
<1>1. <<"out", g, s>> \in P(g)
  OBVIOUS
<1>2. P(g) \in {P(n) : n \in Groups}
  OBVIOUS
<1>3. P(g) \subseteq Ports
  <2>1. P(g) \subseteq UNION {P(n) : n \in Groups}
    BY <1>2, Zenon
  <2> QED BY <2>1, Zenon DEF Ports
<1> QED BY <1>1, <1>3

LEMMA EnteredIs ==
  ASSUME NEW sv, Ported(sv), NEW p \in Ports PROVE Entered(sv[p]) \in SUBSET Views
BY DEF Ported, Entered

LEMMA UpdatedIs ==
  ASSUME NEW sv, Ported(sv), NEW m \in Modules, NEW s
  PROVE  Updated(sv, m, s) \in SUBSET Views
BY EnteredIs, InPortIs DEF Updated

LEMMA VerdictIs == ASSUME NEW sv, NEW m PROVE Verdict(sv, m) \in Status
BY DEF Verdict, Status

LEMMA ModuleCallIs ==
  ASSUME NEW ls \in SUBSET Link, NEW sv, Ported(sv), NEW m \in Modules
  PROVE  ModuleCall(ls, sv, m) \in Calls(ls)
<1> DEFINE D == {k \in Outgoing(ls, m) : Updated(sv, m, k.out) # {}}
           f == [l \in D |-> Updated(sv, m, l.out)]
<1>1. D \in SUBSET ls
  BY DEF Outgoing
<1>2. f \in [D -> SUBSET Views]
  BY UpdatedIs
<1>3. f \in Carried(ls)
  <2> HIDE DEF D, f
  <2> QED BY <1>1, <1>2 DEF Carried
<1>4. ModuleCall(ls, sv, m) = [of |-> m, ok |-> TRUE, carry |-> f]
  BY DEF ModuleCall
<1> HIDE DEF D, f
<1> QED BY <1>3, <1>4 DEF Calls

LEMMA GroupCallIs ==
  ASSUME NEW ls \in SUBSET Link, NEW sv, Ported(sv), NEW g \in Modules, NEW s, NEW side,
         <<side, g, s>> \in Ports
  PROVE  GroupCall(ls, sv, g, s, side) \in Calls(ls)
<1> DEFINE D == IF side = "in" THEN IntoGroupAt(ls, g, s)
                ELSE {k \in Outgoing(ls, g) : k.out = s}
           f == [l \in D |-> Entered(sv[<<side, g, s>>])]
<1>1. D \in SUBSET ls
  BY DEF Outgoing, IntoGroupAt
<1>2. f \in [D -> SUBSET Views]
  BY EnteredIs
<1>3. f \in Carried(ls)
  <2> HIDE DEF D, f
  <2> QED BY <1>1, <1>2 DEF Carried
<1>4. GroupCall(ls, sv, g, s, side) = [of |-> g, ok |-> TRUE, carry |-> f]
  BY DEF GroupCall
<1> HIDE DEF D, f
<1> QED BY <1>3, <1>4 DEF Calls

LEMMA ToldIs ==
  ASSUME NEW C, NEW ok \in BOOLEAN, NEW stack \in Seq([of : Modules, ok : BOOLEAN, carry : C])
  PROVE  Told(stack, ok) \in Seq([of : Modules, ok : BOOLEAN, carry : C])
<1> DEFINE R == [of : Modules, ok : BOOLEAN, carry : C]
<1>1. CASE stack = <<>>
  BY <1>1 DEF Told
<1>2. CASE stack # <<>>
  <2> DEFINE c == [Head(stack) EXCEPT !.ok = @ /\ ok]
  <2>1. Head(stack) \in R /\ Tail(stack) \in Seq(R)
    <3> HIDE DEF R, c
    <3>1. stack \in Seq(R)
      BY DEF R
    <3> QED BY <1>2, <3>1
  <2>2. c \in R
    <3> DEFINE h == Head(stack)
               b == h.ok /\ ok
    <3>1. b \in BOOLEAN
      OBVIOUS
    <3>2. h.of \in Modules /\ h.carry \in C /\ DOMAIN h = {"of", "ok", "carry"}
      BY <2>1
    <3>3. c = [h EXCEPT !.ok = b]
      OBVIOUS
    <3> HIDE DEF h, b
    <3>4. [h EXCEPT !.ok = b] \in R
      BY <2>1, <3>1, <3>2 DEF h
    <3> QED BY <3>3, <3>4
  <2>3. Told(stack, ok) = <<c>> \o Tail(stack)
    BY <1>2 DEF Told
  <2> HIDE DEF c, R
  <2>4. <<c>> \in Seq(R)
    BY <2>2
  <2> QED BY <2>1, <2>3, <2>4 DEF R
<1> QED BY <1>1, <1>2

(* checkModuleStreamForward and checkGroupStreamForward.                   *)
LEMMA CheckModuleIs ==
  ASSUME NEW ls \in SUBSET Link, NEW sv, Ported(sv), NEW st \in [Modules -> Status],
         NEW m \in Modules, NEW stack \in Seq(Calls(ls)), CheckModule(ls, sv, st, m, stack)
  PROVE  /\ status' = [st EXCEPT ![m] = Verdict(sv, m)] /\ status' \in [Modules -> Status]
         /\ todo' \in Seq(Calls(ls))
<1> DEFINE v == Verdict(sv, m)
<1>1. status' = [st EXCEPT ![m] = v] /\ v \in Status
  BY VerdictIs DEF CheckModule, Judged
<1>2. todo' = IF v = "checked" THEN <<ModuleCall(ls, sv, m)>> \o stack
              ELSE Told(stack, v # "error")
  BY DEF CheckModule
<1>3. <<ModuleCall(ls, sv, m)>> \in Seq(Calls(ls))
  BY ModuleCallIs
<1>4. Told(stack, v # "error") \in Seq(Calls(ls))
  BY ToldIs DEF Calls
<1> HIDE DEF v
<1>5. todo' \in Seq(Calls(ls))
  BY <1>2, <1>3, <1>4
<1> QED BY <1>1, <1>5 DEF v

LEMMA CheckGroupIs ==
  ASSUME NEW ls \in SUBSET Link, NEW sv, Ported(sv), NEW g \in Modules, NEW s, NEW side,
         <<side, g, s>> \in Ports, NEW stack \in Seq(Calls(ls)),
         CheckGroup(ls, sv, g, s, side, stack)
  PROVE  status' = status /\ todo' \in Seq(Calls(ls))
<1>1. todo' = <<GroupCall(ls, sv, g, s, side)>> \o stack /\ status' = status
  BY DEF CheckGroup
<1>2. <<GroupCall(ls, sv, g, s, side)>> \in Seq(Calls(ls))
  BY GroupCallIs
<1> QED BY <1>1, <1>2

(* checkStream *)
LEMMA CheckStreamIs ==
  ASSUME NEW ls \in SUBSET Link, NEW sv, Ported(sv), NEW st \in [Modules -> Status],
         modules \in Seq(Modules), CheckStream(ls, sv, st)
  PROVE  /\ status' \in [Modules -> Status]
         /\ \A m \in Modules : InPorts[m] # {} => status'[m] = st[m]
         /\ todo' \in Seq(Calls(ls))
<1>1. Sources \in Seq(Modules) /\ \A m \in ToSet(Sources) : InPorts[m] = {}
  BY KeptIs DEF Sources
<1>2. todo' = [i \in DOMAIN Sources |-> ModuleCall(ls, sv, Sources[i])]
  BY DEF CheckStream
<1>3. todo' \in Seq(Calls(ls))
  <2> DEFINE call == [i \in 1..Len(Sources) |-> ModuleCall(ls, sv, Sources[i])]
  <2>1. \A i \in 1..Len(Sources) : call[i] \in Calls(ls)
    BY <1>1, ModuleCallIs
  <2>2. todo' = call /\ Len(Sources) \in Nat
    BY <1>1, <1>2
  <2> HIDE DEF call
  <2> QED BY <2>1, <2>2 DEF call
<1>4. status' = [m \in Modules |-> IF m \in ToSet(Sources) THEN "checked" ELSE st[m]]
  BY DEF CheckStream
<1>5. status' \in [Modules -> Status]
  BY <1>4 DEF Status
<1> QED BY <1>1, <1>3, <1>4, <1>5

-----------------------------------------------------------------------------
(* The network: types, links with both their ports, and every module with  *)
(* the status that the views on its in-ports give it.                      *)

Judgements(sv, st) == \A m \in Modules \ Groups : InPorts[m] # {} => st[m] = Verdict(sv, m)
Linked(ls, own, list) == \A l \in ls : {l.src, l.dst} \subseteq ToSet(list) /\ Fits(own, l)

Typed ==
  /\ modules \in Seq(Modules) /\ IsInjective(modules)
  /\ owner \in [Modules -> Groups \cup {Root}]
  /\ links \in SUBSET Link
  /\ status \in [Modules -> Status]
  /\ todo \in Seq(Calls(links)) /\ patched \in BOOLEAN
NetInv == /\ Typed /\ Ported(streamViews)
          /\ Linked(links, owner, modules) /\ Judgements(streamViews, status)

(* A verdict depends on the in-ports only.                                 *)
LEMMA VerdictSame ==
  ASSUME NEW sv, NEW sv2, NEW m \in Modules,
         \A s \in InPorts[m] : sv[<<"in", m, s>>] = sv2[<<"in", m, s>>]
  PROVE  Verdict(sv, m) = Verdict(sv2, m)
<1>1. \A a \in Asks[m] : a[1] \in InPorts[m]
  BY PortAssumption
<1> QED BY <1>1 DEF Verdict

LEMMA VerdictOfNothing ==
  ASSUME NEW sv, NEW m \in Modules, InPorts[m] # {},
         \A s \in InPorts[m] : sv[<<"in", m, s>>] = NULL
  PROVE  Verdict(sv, m) = "untouched"
BY DEF Verdict

LEMMA NoViewsIs == Ported(NoViews) /\ \A m \in Modules : InPorts[m] # {} =>
                                       Verdict(NoViews, m) = "untouched"
<1>1. Ported(NoViews)
  BY DEF Ported, NoViews
<1>2. \A m \in Modules : \A s \in InPorts[m] : NoViews[<<"in", m, s>>] = NULL
  BY InPortIs DEF NoViews
<1> QED BY <1>1, <1>2, VerdictOfNothing

(* The port a link leads to.                                               *)
LEMMA TargetIs ==
  ASSUME NEW l \in Link, owner \in [Modules -> Groups \cup {Root}], Fits(owner, l)
  PROVE  /\ Target(l) \in Ports
         /\ Target(l) = <<Target(l)[1], l.dst, l.in>>
         /\ l.dst \notin Groups => Target(l) = <<"in", l.dst, l.in>>
<1>1. l.dst \in Modules /\ l.src \in Modules /\ Root \notin Modules
  BY NetworkAssumption DEF Link
<1>2. CASE owner[l.src] = l.dst
  <2>1. l.dst \in Groups /\ l.in \in OutPorts[l.dst]
    BY <1>1, <1>2 DEF Fits
  <2>2. Target(l) = <<"out", l.dst, l.in>>
    BY <1>2 DEF Target, IsOutOfGroup
  <2> QED BY <2>1, <2>2, OutPortIs
<1>3. CASE owner[l.src] # l.dst
  <2>1. l.in \in InPorts[l.dst]
    BY <1>3 DEF Fits
  <2>2. Target(l) = <<"in", l.dst, l.in>>
    BY <1>3 DEF Target, IsOutOfGroup
  <2> QED BY <1>1, <2>1, <2>2, InPortIs
<1> QED BY <1>2, <1>3

(* The module m is judged anew, all others have the views they had.        *)
LEMMA JudgedAnew ==
  ASSUME NEW sv, NEW sv2, NEW st \in [Modules -> Status], NEW st2, NEW m \in Modules,
         Judgements(sv, st), st2 = [st EXCEPT ![m] = Verdict(sv2, m)],
         \A n \in Modules \ {m} : \A s \in InPorts[n] : sv2[<<"in", n, s>>] = sv[<<"in", n, s>>]
  PROVE  Judgements(sv2, st2)
<1> SUFFICES ASSUME NEW n \in Modules \ Groups, InPorts[n] # {}
             PROVE  st2[n] = Verdict(sv2, n)
  BY DEF Judgements
<1>1. CASE n = m
  BY <1>1
<1>2. CASE n # m
  <2>1. Verdict(sv2, n) = Verdict(sv, n)
    BY <1>2, VerdictSame
  <2> QED BY <1>2, <2>1 DEF Judgements
<1> QED BY <1>1, <1>2

LEMMA JudgedStill ==
  ASSUME NEW sv, NEW sv2, NEW st, NEW st2, Judgements(sv, st),
         \A n \in Modules \ Groups : InPorts[n] # {} => st2[n] = st[n],
         \A n \in Modules \ Groups : \A s \in InPorts[n] :
           sv2[<<"in", n, s>>] = sv[<<"in", n, s>>]
  PROVE  Judgements(sv2, st2)
BY VerdictSame DEF Judgements

-----------------------------------------------------------------------------
(* The walk along the links *)

LEMMA HeadIs ==
  ASSUME NEW ls, NEW stack \in Seq(Calls(ls)), stack # <<>>
  PROVE  /\ Head(stack) \in Calls(ls) /\ Tail(stack) \in Seq(Calls(ls))
         /\ Head(stack).carry \in Carried(ls)
         /\ \A l \in DOMAIN Head(stack).carry : l \in ls /\ Head(stack).carry[l] \in SUBSET Views
<1>1. Head(stack) \in Calls(ls) /\ Tail(stack) \in Seq(Calls(ls))
  OBVIOUS
<1>2. Head(stack).carry \in Carried(ls)
  BY <1>1 DEF Calls
<1>3. PICK D \in SUBSET ls : Head(stack).carry \in [D -> SUBSET Views]
  BY <1>2 DEF Carried
<1> QED BY <1>1, <1>2, <1>3

(* What is left of a call when one of its links is served.                 *)
Served(top, l) == [top EXCEPT !.carry = [k \in DOMAIN @ \ {l} |-> @[k]]]
LEMMA ServedIs ==
  ASSUME NEW ls, NEW c \in Calls(ls), NEW l
  PROVE  Served(c, l) \in Calls(ls)
<1> DEFINE f == [k \in DOMAIN c.carry \ {l} |-> c.carry[k]]
<1>1. PICK D \in SUBSET ls : c.carry \in [D -> SUBSET Views]
  BY DEF Calls, Carried
<1>2. f \in [D \ {l} -> SUBSET Views] /\ D \ {l} \in SUBSET ls
  BY <1>1
<1>3. f \in Carried(ls)
  <2> HIDE DEF f
  <2> QED BY <1>2 DEF Carried
<1>4. Served(c, l) = [c EXCEPT !.carry = f]
  BY DEF Served
<1> HIDE DEF f
<1> QED BY <1>3, <1>4 DEF Calls

LEMMA DeliverNet ==
  ASSUME NetInv, NEW l \in links, Deliver(l)
  PROVE  NetInv'
<1> DEFINE top == Head(todo)
           sv == [streamViews EXCEPT ![Target(l)] = top.carry[l]]
           stack == <<Served(top, l)>> \o Tail(todo)
<1>0. /\ Typed /\ Ported(streamViews) /\ Linked(links, owner, modules)
      /\ Judgements(streamViews, status) /\ l \in Link
  BY DEF NetInv, Typed
<1>1. /\ todo # <<>> /\ l \in DOMAIN top.carry /\ streamViews' = sv
      /\ UNCHANGED <<modules, owner, links, patched>>
  BY DEF Deliver, Received
<1>2. IF l.dst \in Groups
      THEN CheckGroup(links, sv, l.dst, l.in, Target(l)[1], stack)
      ELSE CheckModule(links, sv, status, l.dst, stack)
  BY DEF Deliver, Received, Served
<1>3. top \in Calls(links) /\ Tail(todo) \in Seq(Calls(links)) /\ top.carry[l] \in SUBSET Views
  BY <1>0, <1>1, HeadIs DEF Typed
<1>4. stack \in Seq(Calls(links))
  <2>1. <<Served(top, l)>> \in Seq(Calls(links))
    BY <1>3, ServedIs
  <2> QED BY <1>3, <2>1
<1>5. Target(l) \in Ports /\ Target(l) = <<Target(l)[1], l.dst, l.in>> /\ l.dst \in Modules
      /\ (l.dst \notin Groups => Target(l) = <<"in", l.dst, l.in>>)
  BY <1>0, TargetIs DEF Typed, Linked, Link
<1>6. Ported(sv)
  BY <1>0, <1>3, <1>5 DEF Ported
<1>7. \A n \in Modules \ {l.dst} : \A s \in InPorts[n] :
        sv[<<"in", n, s>>] = streamViews[<<"in", n, s>>]
  <2>1. \A n \in Modules \ {l.dst} : \A s \in InPorts[n] : <<"in", n, s>> # Target(l)
    BY <1>5
  <2> QED BY <1>0, <2>1, InPortIs DEF Ported
<1> HIDE DEF sv, stack, top
<1>8. /\ status' \in [Modules -> Status] /\ todo' \in Seq(Calls(links))
      /\ Judgements(sv, status')
  <2>1. CASE l.dst \in Groups
    <3>1. status' = status /\ todo' \in Seq(Calls(links))
      BY <1>0, <1>2, <1>4, <1>5, <1>6, <2>1, CheckGroupIs DEF Typed
    <3>2. Judgements(sv, status')
      BY <1>0, <1>7, <2>1, <3>1, JudgedStill
    <3> QED BY <1>0, <3>1, <3>2 DEF Typed
  <2>2. CASE l.dst \notin Groups
    <3>1. /\ status' = [status EXCEPT ![l.dst] = Verdict(sv, l.dst)]
          /\ status' \in [Modules -> Status] /\ todo' \in Seq(Calls(links))
      BY <1>0, <1>2, <1>4, <1>5, <1>6, <2>2, CheckModuleIs DEF Typed
    <3>2. Judgements(sv, status')
      <4>1. status \in [Modules -> Status] /\ Judgements(streamViews, status)
        BY <1>0 DEF Typed
      <4>2. status' = [status EXCEPT ![l.dst] = Verdict(sv, l.dst)] /\ l.dst \in Modules
        BY <1>5, <3>1
      <4>3. \A n \in Modules \ {l.dst} : \A s \in InPorts[n] :
              sv[<<"in", n, s>>] = streamViews[<<"in", n, s>>]
        BY <1>7
      <4> DEFINE m == l.dst
      <4> HIDE DEF m
      <4>4. /\ status' = [status EXCEPT ![m] = Verdict(sv, m)] /\ m \in Modules
            /\ \A n \in Modules \ {m} : \A s \in InPorts[n] :
                 sv[<<"in", n, s>>] = streamViews[<<"in", n, s>>]
        BY <4>2, <4>3 DEF m
      <4> QED BY <4>1, <4>4, JudgedAnew
    <3> QED BY <3>1, <3>2
  <2> QED BY <2>1, <2>2
<1> QED BY <1>0, <1>1, <1>6, <1>8 DEF NetInv, Typed

LEMMA ReturnNet ==
  ASSUME NetInv, Return
  PROVE  NetInv'
<1> DEFINE top == Head(todo)
<1>0. /\ Typed /\ Ported(streamViews) /\ Linked(links, owner, modules)
      /\ Judgements(streamViews, status) /\ todo # <<>>
  BY DEF NetInv, Return
<1>1. /\ status' = IF top.of \in Groups
                   THEN [status EXCEPT ![top.of] = IF top.ok THEN "checked" ELSE "error"]
                   ELSE status
      /\ todo' = Told(Tail(todo), top.ok)
      /\ UNCHANGED <<modules, owner, links, streamViews, patched>>
  BY DEF Return, Judged
<1>2. top \in Calls(links) /\ Tail(todo) \in Seq(Calls(links))
  BY <1>0, HeadIs DEF Typed
<1>3. top.of \in Modules /\ top.ok \in BOOLEAN
  BY <1>2 DEF Calls
<1>4. todo' \in Seq(Calls(links))
  BY <1>1, <1>2, <1>3, ToldIs DEF Calls
<1>5. /\ status' \in [Modules -> Status]
      /\ \A n \in Modules \ Groups : status'[n] = status[n]
  BY <1>0, <1>1, <1>3 DEF Typed, Status
<1>6. Judgements(streamViews, status')
  BY <1>0, <1>5, JudgedStill
<1> QED BY <1>0, <1>1, <1>4, <1>5, <1>6 DEF NetInv, Typed

-----------------------------------------------------------------------------
(* Edits *)

LEMMA NewModuleNet ==
  ASSUME NetInv, NEW m \in Modules \ Present, NEW parent \in Groups \cup {Root},
         modules' = Append(modules, m), owner' = [owner EXCEPT ![m] = parent],
         UNCHANGED <<links, streamViews, status, todo, patched>>
  PROVE  NetInv' /\ Present' = Present \cup {m}
<1>0. /\ Typed /\ Ported(streamViews) /\ Linked(links, owner, modules)
      /\ Judgements(streamViews, status)
  BY DEF NetInv
<1>1. /\ modules' \in Seq(Modules) /\ IsInjective(modules')
      /\ ToSet(modules') = ToSet(modules) \cup {m}
  <2>1. /\ modules \in Seq(Modules) /\ IsInjective(modules) /\ Len(modules) \in Nat
        /\ modules' \in Seq(Modules) /\ Len(modules') = Len(modules) + 1
        /\ modules'[Len(modules) + 1] = m
    BY <1>0 DEF Typed
  <2>2. \A i \in 1..Len(modules) : modules'[i] = modules[i] /\ modules[i] # m
    BY <2>1 DEF Present, ToSet
  <2>3. \A i \in 1..Len(modules) + 1 : i \in 1..Len(modules) \/ i = Len(modules) + 1
    BY <2>1
  <2>4. IsInjective(modules')
    BY <2>1, <2>2, <2>3 DEF IsInjective
  <2>5. ToSet(modules') \subseteq ToSet(modules) \cup {m}
    BY <2>1, <2>2, <2>3 DEF ToSet
  <2>6. ToSet(modules) \cup {m} \subseteq ToSet(modules')
    <3>1. /\ Len(modules) + 1 \in 1..Len(modules) + 1
          /\ \A i \in 1..Len(modules) : i \in 1..Len(modules) + 1
      BY <2>1
    <3> QED BY <2>1, <2>2, <3>1 DEF ToSet
  <2> QED BY <2>1, <2>4, <2>5, <2>6
<1>2. owner' \in [Modules -> Groups \cup {Root}]
  BY <1>0 DEF Typed
<1>3. Linked(links, owner', modules')
  <2> SUFFICES ASSUME NEW l \in links
               PROVE  {l.src, l.dst} \subseteq ToSet(modules') /\ Fits(owner', l)
    BY DEF Linked
  <2>1. {l.src, l.dst} \subseteq ToSet(modules) /\ Fits(owner, l)
    BY <1>0 DEF Linked
  <2>2. owner'[l.src] = owner[l.src] /\ owner'[l.dst] = owner[l.dst]
    BY <1>0, <2>1 DEF Present, Typed
  <2> QED BY <1>1, <2>1, <2>2 DEF Fits
<1> QED BY <1>0, <1>1, <1>2, <1>3 DEF NetInv, Typed, Present

LEMMA AddLinkNet ==
  ASSUME NetInv, NEW l \in Link, AddLink(l)
  PROVE  NetInv'
<1> DEFINE ls == links \cup {l}
           side == IF IsIntoGroup(l) THEN "in" ELSE "out"
           from == <<side, l.src, l.out>>
<1>0. /\ Typed /\ Ported(streamViews) /\ Linked(links, owner, modules)
      /\ Judgements(streamViews, status) /\ l.src \in Modules /\ l.dst \in Modules
  BY DEF NetInv, Link
<1>1. /\ links' = ls /\ todo = <<>> /\ IsLinkingValid(l)
      /\ UNCHANGED <<modules, owner, patched>>
      /\ IF l.src \in Groups
         THEN /\ streamViews' = [streamViews EXCEPT ![from] = Entered(@)]
              /\ CheckGroup(links', streamViews, l.src, l.out, side, <<>>)
         ELSE /\ streamViews' = streamViews
              /\ CheckModule(links', streamViews, status, l.src, <<>>)
  BY DEF AddLink
<1>2. ls \in SUBSET Link /\ <<>> \in Seq(Calls(ls))
  BY <1>0 DEF Typed
<1>3. Linked(ls, owner, modules)
  BY <1>0, <1>1 DEF Linked, IsLinkingValid, Fits, IsIntoGroup, IsOutOfGroup, Present
<1>4. CASE l.src \in Groups
  <2>1. from \in Ports
    <3>1. Fits(owner, l)
      BY <1>3 DEF Linked
    <3>2. l.out \in IF IsIntoGroup(l) THEN InPorts[l.src] ELSE OutPorts[l.src]
      BY <3>1 DEF Fits, IsIntoGroup
    <3> QED BY <1>0, <1>4, <3>2, InPortIs, OutPortIs
  <2>2. CheckGroup(ls, streamViews, l.src, l.out, side, <<>>)
    BY <1>1, <1>4
  <2> HIDE DEF side, ls
  <2>3. status' = status /\ todo' \in Seq(Calls(ls))
    BY <1>0, <1>2, <2>1, <2>2, CheckGroupIs
  <2>4. streamViews' = [streamViews EXCEPT ![from] = Entered(@)]
    BY <1>1, <1>4
  <2>5. Ported(streamViews')
    BY <1>0, <2>1, <2>4, EnteredIs DEF Ported
  <2>6. Judgements(streamViews', status')
    <3>1. \A n \in Modules \ Groups : \A s \in InPorts[n] :
            streamViews'[<<"in", n, s>>] = streamViews[<<"in", n, s>>]
      <4>1. \A n \in Modules \ Groups : \A s \in InPorts[n] :
              <<"in", n, s>> # from /\ <<"in", n, s>> \in DOMAIN streamViews
        BY <1>0, <1>4, InPortIs DEF Ported
      <4> QED BY <2>4, <4>1
    <3> QED BY <1>0, <2>3, <3>1, JudgedStill
  <2> QED BY <1>0, <1>1, <1>2, <1>3, <2>3, <2>5, <2>6 DEF NetInv, Typed
<1>5. CASE l.src \notin Groups
  <2>1. CheckModule(ls, streamViews, status, l.src, <<>>) /\ streamViews' = streamViews
    BY <1>1, <1>5
  <2> HIDE DEF ls
  <2>2. status \in [Modules -> Status] /\ l.src \in Modules
    BY <1>0 DEF Typed
  <2>3. /\ status' = [status EXCEPT ![l.src] = Verdict(streamViews, l.src)]
        /\ status' \in [Modules -> Status] /\ todo' \in Seq(Calls(ls))
    BY <1>0, <1>2, <2>1, <2>2, CheckModuleIs
  <2>4. Judgements(streamViews, status')
    BY <1>0, <2>2, <2>3, JudgedAnew
  <2> QED BY <1>0, <1>1, <1>2, <1>3, <2>1, <2>3, <2>4 DEF NetInv, Typed
<1> QED BY <1>4, <1>5

LEMMA RemoveLinkNet ==
  ASSUME NetInv, NEW l \in links, RemoveLink(l)
  PROVE  NetInv'
<1> DEFINE ls == links \ {l}
           sv == [streamViews EXCEPT ![<<"in", l.dst, l.in>>] = NULL]
<1>0. /\ Typed /\ Ported(streamViews) /\ Linked(links, owner, modules)
      /\ Judgements(streamViews, status) /\ l.dst \in Modules
      /\ status \in [Modules -> Status]
  BY DEF NetInv, Typed, Link
<1>1. /\ links' = ls /\ todo = <<>> /\ streamViews' = sv
      /\ CheckModule(ls, sv, status, l.dst, <<>>)
      /\ patched' \in BOOLEAN /\ UNCHANGED <<modules, owner>>
  BY <1>0 DEF RemoveLink, Forgotten, Typed
<1>2. ls \in SUBSET Link /\ <<>> \in Seq(Calls(ls)) /\ Linked(ls, owner, modules)
  BY <1>0 DEF Typed, Linked
<1>3. Ported(sv)
  BY <1>0 DEF Ported
<1>4. \A n \in Modules \ {l.dst} : \A s \in InPorts[n] :
        sv[<<"in", n, s>>] = streamViews[<<"in", n, s>>]
  BY <1>0, InPortIs DEF Ported
<1> HIDE DEF ls, sv
<1>5. /\ status' = [status EXCEPT ![l.dst] = Verdict(sv, l.dst)]
      /\ status' \in [Modules -> Status] /\ todo' \in Seq(Calls(ls))
  BY <1>0, <1>1, <1>2, <1>3, CheckModuleIs
<1>6. Judgements(sv, status')
  BY <1>0, <1>4, <1>5, JudgedAnew
<1> QED BY <1>0, <1>1, <1>2, <1>3, <1>5, <1>6 DEF NetInv, Typed

LEMMA RemoveModuleNet ==
  ASSUME NetInv, NEW m \in Modules, RemoveModule(m)
  PROVE  NetInv' /\ todo = <<>> /\ Present' = Present \ {m}
<1>0. /\ Typed /\ Ported(streamViews) /\ Linked(links, owner, modules)
      /\ Judgements(streamViews, status) /\ modules \in Seq(Modules) /\ IsInjective(modules)
  BY DEF NetInv, Typed
<1>1. /\ links' = links \ LinksOf(m) /\ todo = <<>> /\ todo' = <<>>
      /\ modules' = Kept(modules, Present \ {m})
      /\ streamViews' = [p \in Ports |-> IF p[2] = m THEN NULL ELSE streamViews[p]]
      /\ status' = [status EXCEPT ![m] = "untouched"]
      /\ owner' = [owner EXCEPT ![m] = Root]
      /\ patched' \in BOOLEAN
  BY <1>0 DEF RemoveModule, Typed
<1>2. modules' \in Seq(Modules) /\ IsInjective(modules') /\ ToSet(modules') = Present \ {m}
  BY <1>0, <1>1, KeptIs DEF Present
<1>3. /\ owner' \in [Modules -> Groups \cup {Root}] /\ status' \in [Modules -> Status]
      /\ links' \in SUBSET Link
  BY <1>0, <1>1 DEF Typed, Status
<1>4. Linked(links', owner', modules')
  <2> SUFFICES ASSUME NEW l \in links'
               PROVE  {l.src, l.dst} \subseteq ToSet(modules') /\ Fits(owner', l)
    BY DEF Linked
  <2>1. l \in links /\ m \notin {l.src, l.dst}
    BY <1>1 DEF LinksOf
  <2>2. {l.src, l.dst} \subseteq Present /\ Fits(owner, l) /\ Present \subseteq Modules
    BY <1>0, <2>1 DEF Linked, Present, ToSet
  <2>3. owner'[l.src] = owner[l.src] /\ owner'[l.dst] = owner[l.dst]
    BY <1>0, <1>1, <2>1, <2>2 DEF Typed
  <2> QED BY <1>2, <2>1, <2>2, <2>3 DEF Fits
<1>5. Ported(streamViews')
  BY <1>0, <1>1 DEF Ported
<1>6. Judgements(streamViews', status')
  <2>1. \A n \in Modules : \A s \in InPorts[n] :
          streamViews'[<<"in", n, s>>] = IF n = m THEN NULL ELSE streamViews[<<"in", n, s>>]
    BY <1>1, InPortIs
  <2>2. InPorts[m] # {} => Verdict(streamViews', m) = "untouched"
    BY <2>1, VerdictOfNothing
  <2>3. status' = [status EXCEPT ![m] = Verdict(streamViews', m)] \/ InPorts[m] = {}
    BY <1>1, <2>2
  <2> SUFFICES ASSUME NEW n \in Modules \ Groups, InPorts[n] # {}
               PROVE  status'[n] = Verdict(streamViews', n)
    BY DEF Judgements
  <2>4. CASE n = m
    BY <1>0, <1>1, <2>2, <2>4 DEF Typed
  <2>5. CASE n # m
    <3>1. Verdict(streamViews', n) = Verdict(streamViews, n)
      BY <2>1, <2>5, VerdictSame
    <3>2. status'[n] = status[n]
      BY <1>0, <1>1, <2>5 DEF Typed
    <3> QED BY <1>0, <3>1, <3>2 DEF Judgements
  <2> QED BY <2>4, <2>5
<1>7. todo' \in Seq(Calls(links'))
  BY <1>1
<1> QED BY <1>1, <1>2, <1>3, <1>4, <1>5, <1>6, <1>7 DEF NetInv, Typed, Present

LEMMA RecheckNet ==
  ASSUME NetInv, CheckStream(links, streamViews, status),
         UNCHANGED <<modules, owner, links, streamViews, patched>>
  PROVE  NetInv'
<1>0. /\ Typed /\ Ported(streamViews) /\ Linked(links, owner, modules)
      /\ Judgements(streamViews, status)
  BY DEF NetInv
<1>1. /\ status' \in [Modules -> Status] /\ todo' \in Seq(Calls(links))
      /\ \A m \in Modules : InPorts[m] # {} => status'[m] = status[m]
  BY <1>0, CheckStreamIs DEF Typed
<1>2. Judgements(streamViews, status')
  BY <1>0, <1>1, JudgedStill
<1> QED BY <1>0, <1>1, <1>2 DEF NetInv, Typed

LEMMA ResetNet ==
  ASSUME NetInv, ResetNetwork
  PROVE  NetInv'
<1> DEFINE st == [m \in Modules |-> "untouched"]
<1>0. /\ Typed /\ Ported(streamViews) /\ Linked(links, owner, modules)
  BY DEF NetInv
<1>1. /\ streamViews' = Cleared /\ CheckStream(links, Cleared, st)
      /\ patched' = FALSE /\ UNCHANGED <<modules, owner, links>>
  BY DEF ResetNetwork
<1>2. Ported(Cleared) /\ st \in [Modules -> Status]
  BY <1>0 DEF Ported, Cleared, Status
<1>3. /\ status' \in [Modules -> Status] /\ todo' \in Seq(Calls(links))
      /\ \A m \in Modules : InPorts[m] # {} => status'[m] = st[m]
  BY <1>0, <1>1, <1>2, CheckStreamIs DEF Typed
<1>4. \A m \in Modules : InPorts[m] # {} => Verdict(Cleared, m) = "untouched"
  <2>1. \A m \in Modules : \A s \in InPorts[m] : Cleared[<<"in", m, s>>] = NULL
    BY InPortIs DEF Cleared
  <2> QED BY <2>1, VerdictOfNothing
<1>5. Judgements(Cleared, status')
  BY <1>3, <1>4 DEF Judgements
<1> QED BY <1>0, <1>1, <1>2, <1>3, <1>5 DEF NetInv, Typed

-----------------------------------------------------------------------------
(* Saving and loading.  No call runs but while the users edit or after the *)
(* load; no entry that is left names a module that is there.               *)

FileTyped ==
  /\ phase \in {"edit", "saved", "cleared", "entries", "links", "loaded"}
  /\ IsFile(file)
  /\ entries \in Seq(Entry) /\ ToSet(entries) \subseteq ToSet(file.entries)
  /\ waitingForGroup \in Int /\ linkEntries \subseteq file.links
  /\ changes \in 0..MaxChanges
Unlike(es) == \A i, j \in DOMAIN es : es[i].id = es[j].id => i = j
Pending == Unlike(entries) /\ \A e \in ToSet(entries) : e.id \notin Present
FileInv ==
  /\ NetInv /\ FileTyped
  /\ phase \notin {"edit", "loaded"} => todo = <<>>
  /\ phase = "cleared" => modules = <<>>
  /\ phase \in {"cleared", "entries"} => links = {}
  /\ IF phase = "entries" THEN Pending ELSE entries = <<>>
  /\ phase \notin {"entries", "links"} => linkEntries = {}

LEMMA InitFile == Init => FileInv
<1> SUFFICES ASSUME Init PROVE FileInv
  OBVIOUS
<1> USE DEF Init, NetworkInit
<1>1. /\ modules \in Seq(Modules) /\ IsInjective(modules)
      /\ owner \in [Modules -> Groups \cup {Root}]
  BY FileAssumption
<1>2. status \in [Modules -> Status] /\ links \in SUBSET Link /\ patched \in BOOLEAN
      /\ todo \in Seq(Calls(links))
  <2>1. status \in [Modules -> Status]
    BY DEF Status
  <2>2. <<>> \in Seq(Calls(links))
    OBVIOUS
  <2> QED BY <2>1, <2>2
<1>3. Ported(streamViews) /\ Judgements(streamViews, status) /\ Linked(links, owner, modules)
  BY NoViewsIs DEF Judgements, Linked
<1>4. IsFile(file)
  BY DEF NoFile, IsFile
<1>5. FileTyped
  BY <1>4, FileAssumption DEF FileTyped, ToSet
<1> QED BY <1>1, <1>2, <1>3, <1>5 DEF FileInv, NetInv, Typed

LEMMA PresentIs == Typed => Present \subseteq Modules
BY DEF Typed, Present, ToSet

LEMMA EditFile ==
  ASSUME FileInv, Edit
  PROVE  FileInv'
<1>1. NetInv /\ FileTyped /\ Typed
  BY DEF FileInv, NetInv
<1>2. /\ phase' = "edit" /\ file' = NoFile /\ IsFile(NoFile)
      /\ UNCHANGED <<entries, waitingForGroup, linkEntries>> /\ changes' \in 0..MaxChanges
  <2>1. Editing /\ changes' \in 0..MaxChanges
    BY <1>1, FileAssumption DEF Edit, Counted, FileTyped
  <2>2. IsFile(NoFile)
    BY DEF NoFile, IsFile
  <2> QED BY <2>1, <2>2 DEF Editing
<1>3. NetInv'
  <2>1. ASSUME NEW m \in Modules, NEW parent \in Parents[m], AddModule(m, parent) PROVE NetInv'
    <3>1. m \in Modules \ Present /\ parent \in Groups \cup {Root}
      BY <2>1 DEF AddModule
    <3> QED BY <1>1, <2>1, <3>1, NewModuleNet DEF AddModule
  <2>2. ASSUME NEW m \in Modules, RemoveModule(m) PROVE NetInv'
    BY <1>1, <2>2, RemoveModuleNet
  <2>3. ASSUME NEW l \in Offers, AddLink(l) PROVE NetInv'
    BY <1>1, <2>3, AddLinkNet, FileAssumption
  <2>4. ASSUME NEW l \in links, RemoveLink(l) PROVE NetInv'
    BY <1>1, <2>4, RemoveLinkNet
  <2>5. Recheck => NetInv'
    BY <1>1, RecheckNet DEF Recheck
  <2>6. ResetNetwork => NetInv'
    BY <1>1, ResetNet
  <2> QED BY <2>1, <2>2, <2>3, <2>4, <2>5, <2>6 DEF Edit
<1>4. entries = <<>> /\ linkEntries = {} /\ FileTyped'
  <2>1. entries = <<>> /\ linkEntries = {}
    BY DEF FileInv, Edit, Editing
  <2> QED BY <1>1, <1>2, <2>1 DEF FileTyped, ToSet
<1> QED BY <1>2, <1>3, <1>4 DEF FileInv

LEMMA SaveFile ==
  ASSUME FileInv, Save
  PROVE  FileInv'
<1> DEFINE es == [i \in 1..Len(modules) |->
                    [id |-> modules[i], group |-> owner[modules[i]], known |-> TRUE]]
<1>1. /\ NetInv /\ FileTyped /\ Typed /\ entries = <<>> /\ linkEntries = {} /\ todo = <<>>
      /\ modules \in Seq(Modules) /\ IsInjective(modules) /\ links \in SUBSET Link
      /\ owner \in [Modules -> Groups \cup {Root}]
  BY DEF FileInv, NetInv, Typed, Save
<1>2. /\ phase' = "saved" /\ file' = [entries |-> es, links |-> links]
      /\ UNCHANGED <<network, entries, waitingForGroup, linkEntries>>
      /\ changes' \in 0..MaxChanges
  <2>1. DOMAIN modules = 1..Len(modules)
    BY <1>1
  <2>2. changes' \in 0..MaxChanges
    BY <1>1, FileAssumption DEF Save, Counted, FileTyped
  <2> QED BY <2>1, <2>2 DEF Save
<1>3. IsFile(file')
  <2>1. \A i \in 1..Len(modules) : es[i] \in Entry /\ es[i].id = modules[i]
    BY <1>1 DEF Entry
  <2>2. es \in Seq(Entry) /\ DOMAIN es = DOMAIN modules
    <3>1. Len(modules) \in Nat /\ DOMAIN modules = 1..Len(modules)
      BY <1>1
    <3> QED BY <2>1, <3>1
  <2>3. \A i, j \in DOMAIN modules : modules[i] = modules[j] => i = j
    BY <1>1 DEF IsInjective
  <2>4. \A i, j \in DOMAIN es : es[i].id = es[j].id => i = j
    <3>1. \A i \in DOMAIN es : es[i].id = modules[i]
      OBVIOUS
    <3> HIDE DEF es
    <3> QED BY <2>2, <2>3, <3>1
  <2> HIDE DEF es
  <2> QED BY <1>1, <1>2, <2>2, <2>4 DEF IsFile
<1>4. FileTyped'
  BY <1>1, <1>2, <1>3 DEF FileTyped, ToSet
<1>5. NetInv'
  BY <1>1, <1>2 DEF NetInv, Typed, network
<1> QED BY <1>1, <1>2, <1>4, <1>5 DEF FileInv, network

LEMMA ClearFile ==
  ASSUME FileInv, Clear
  PROVE  FileInv'
<1>1. FileTyped /\ Typed /\ entries = <<>> /\ linkEntries = {} /\ todo = <<>>
  BY DEF FileInv, NetInv, Clear
<1>2. /\ phase' = "cleared" /\ modules' = <<>> /\ links' = {} /\ streamViews' = NoViews
      /\ status' = [m \in Modules |-> "untouched"]
      /\ owner' = [m \in Modules |-> Root] /\ patched' = FALSE
      /\ UNCHANGED <<todo, file, entries, waitingForGroup, linkEntries, changes>>
  BY DEF Clear
<1>3. /\ modules' \in Seq(Modules) /\ IsInjective(modules')
      /\ owner' \in [Modules -> Groups \cup {Root}] /\ status' \in [Modules -> Status]
      /\ todo' \in Seq(Calls(links'))
  BY <1>1, <1>2 DEF IsInjective, Status
<1>4. /\ Ported(streamViews') /\ Judgements(streamViews', status')
      /\ Linked(links', owner', modules')
  BY <1>2, NoViewsIs DEF Judgements, Linked
<1>5. NetInv'
  BY <1>2, <1>3, <1>4 DEF NetInv, Typed
<1>6. FileTyped'
  BY <1>1, <1>2 DEF FileTyped
<1> QED BY <1>1, <1>2, <1>5, <1>6 DEF FileInv

LEMMA LoadFile ==
  ASSUME FileInv, NEW f \in Files \cup {file}, Load(f)
  PROVE  FileInv'
<1>1. /\ NetInv /\ FileTyped /\ todo = <<>> /\ links = {} /\ modules = <<>>
  BY DEF FileInv, Load
<1>2. /\ phase' = "entries" /\ file' = f /\ entries' = f.entries /\ waitingForGroup' = 0
      /\ linkEntries' = f.links /\ UNCHANGED <<network, changes>>
  BY DEF Load
<1>3. IsFile(f)
  BY <1>1, FileAssumption DEF FileTyped
<1>4. FileTyped'
  BY <1>1, <1>2, <1>3 DEF FileTyped, IsFile
<1>5. Pending'
  BY <1>1, <1>2, <1>3 DEF Pending, Unlike, IsFile, Present, ToSet, network
<1>6. NetInv'
  BY <1>1, <1>2 DEF NetInv, Typed, network
<1> QED BY <1>1, <1>2, <1>4, <1>5, <1>6 DEF FileInv, network

(* The first entry is taken off; it may go to the end.                     *)
LEMMA EntriesTurn ==
  ASSUME entries \in Seq(Entry), entries # <<>>, Unlike(entries)
  PROVE  LET turned == Append(Tail(entries), Head(entries)) IN
         /\ Head(entries) \in Entry /\ Head(entries) \in ToSet(entries)
         /\ Tail(entries) \in Seq(Entry) /\ Unlike(Tail(entries))
         /\ ToSet(Tail(entries)) = ToSet(entries) \ {Head(entries)}
         /\ \A e \in ToSet(Tail(entries)) : e.id # Head(entries).id
         /\ turned \in Seq(Entry) /\ Unlike(turned) /\ ToSet(turned) = ToSet(entries)
<1> DEFINE n == Len(entries)
           h == Head(entries)
           w == Tail(entries)
           turned == Append(w, h)
<1>1. /\ n \in Nat \ {0} /\ DOMAIN entries = 1..n /\ h = entries[1] /\ h \in Entry
      /\ w \in Seq(Entry) /\ Len(w) = n - 1 /\ DOMAIN w = 1..(n - 1)
      /\ \A i \in 1..(n - 1) : w[i] = entries[i + 1]
      /\ turned \in Seq(Entry) /\ Len(turned) = n /\ DOMAIN turned = 1..n
      /\ turned[n] = h /\ \A i \in 1..(n - 1) : turned[i] = w[i]
  OBVIOUS
<1> HIDE DEF n, h, w, turned
<1>2. \A i, j \in 1..n : entries[i].id = entries[j].id => i = j
  BY <1>1 DEF Unlike
<1>3. /\ \A i \in 1..(n - 1) : i + 1 \in 1..n /\ i + 1 # 1 /\ i \in 1..n /\ i # n
      /\ \A i \in 1..n : (i = 1 \/ i - 1 \in 1..(n - 1)) /\ (i = n \/ i \in 1..(n - 1))
      /\ 1 \in 1..n /\ n \in 1..n
      /\ \A i \in 1..n : (i - 1) + 1 = i
  BY <1>1
<1>4. Unlike(w)
  <2> SUFFICES ASSUME NEW i \in 1..(n - 1), NEW j \in 1..(n - 1), w[i].id = w[j].id
               PROVE  i = j
    BY <1>1 DEF Unlike
  <2>1. i + 1 = j + 1
    BY <1>1, <1>2, <1>3
  <2> QED BY <2>1
<1>5. \A e \in ToSet(w) : e.id # h.id
  BY <1>1, <1>2, <1>3 DEF ToSet
<1>6. ToSet(entries) = ToSet(w) \cup {h}
  <2>1. ToSet(entries) \subseteq ToSet(w) \cup {h}
    <3> SUFFICES ASSUME NEW i \in 1..n PROVE entries[i] \in ToSet(w) \cup {h}
      BY <1>1 DEF ToSet
    <3>1. CASE i = 1
      BY <1>1, <3>1
    <3>2. CASE i # 1
      <4>1. i - 1 \in 1..(n - 1) /\ w[i - 1] = entries[i]
        BY <1>1, <1>3, <3>2
      <4> QED BY <1>1, <4>1 DEF ToSet
    <3> QED BY <3>1, <3>2
  <2>2. \A i \in 1..(n - 1) : w[i] \in ToSet(entries)
    <3>1. \A i \in 1..(n - 1) : i + 1 \in DOMAIN entries /\ w[i] = entries[i + 1]
      BY <1>1, <1>3
    <3> HIDE DEF w
    <3> QED BY <3>1 DEF ToSet
  <2>3. h \in ToSet(entries)
    BY <1>1, <1>3 DEF ToSet
  <2>4. ToSet(w) \cup {h} \subseteq ToSet(entries)
    BY <1>1, <2>2, <2>3 DEF ToSet
  <2> QED BY <2>1, <2>4
<1>7. h \notin ToSet(w)
  BY <1>5
<1>8. ToSet(turned) = ToSet(w) \cup {h}
  <2>1. \A i \in 1..(n - 1) : w[i] \in ToSet(w)
    BY <1>1 DEF ToSet
  <2>2. ToSet(turned) \subseteq ToSet(w) \cup {h}
    BY <1>1, <1>3, <2>1 DEF ToSet
  <2>3. \A i \in 1..(n - 1) : w[i] \in ToSet(turned)
    BY <1>1, <1>3 DEF ToSet
  <2>4. h \in ToSet(turned)
    BY <1>1, <1>3 DEF ToSet
  <2>5. ToSet(w) \cup {h} \subseteq ToSet(turned)
    BY <1>1, <2>3, <2>4 DEF ToSet
  <2> QED BY <2>2, <2>5
<1>9. Unlike(turned)
  <2> SUFFICES ASSUME NEW i \in 1..n, NEW j \in 1..n, turned[i].id = turned[j].id
               PROVE  i = j
    BY <1>1 DEF Unlike
  <2>1. \A k \in 1..(n - 1) : w[k] \in ToSet(w)
    BY <1>1 DEF ToSet
  <2>2. CASE i \in 1..(n - 1) /\ j \in 1..(n - 1)
    BY <1>1, <1>4, <2>2 DEF Unlike
  <2>3. CASE i = n \/ j = n
    BY <1>1, <1>3, <1>5, <2>1, <2>3
  <2> QED BY <1>3, <2>2, <2>3
<1> QED BY <1>1, <1>4, <1>5, <1>6, <1>7, <1>8, <1>9 DEF h, w, turned

LEMMA PostponeFile ==
  ASSUME FileInv, PostponeEntry
  PROVE  FileInv'
<1>1. /\ NetInv /\ FileTyped /\ todo = <<>> /\ links = {} /\ Pending /\ entries # <<>>
      /\ phase = "entries"
  BY DEF FileInv, PostponeEntry, Taking
<1>2. /\ entries' = Append(Tail(entries), Head(entries)) /\ waitingForGroup' \in Int
      /\ UNCHANGED <<network, phase, file, linkEntries, changes>>
  BY <1>1 DEF PostponeEntry, OneMore, FileTyped
<1>3. entries' \in Seq(Entry) /\ Unlike(entries') /\ ToSet(entries') = ToSet(entries)
  BY <1>1, <1>2, EntriesTurn DEF FileTyped, Pending
<1>4. NetInv' /\ FileTyped' /\ Pending'
  BY <1>1, <1>2, <1>3 DEF NetInv, Typed, FileTyped, Pending, Present, network
<1> QED BY <1>1, <1>2, <1>4 DEF FileInv, network

LEMMA CreateFile ==
  ASSUME FileInv, CreateEntry
  PROVE  FileInv'
<1> DEFINE e == Head(entries)
<1>1. /\ NetInv /\ FileTyped /\ Typed /\ todo = <<>> /\ links = {} /\ Pending /\ entries # <<>>
      /\ phase = "entries" /\ entries \in Seq(Entry)
  BY DEF FileInv, NetInv, CreateEntry, Taking, FileTyped
<1>2. /\ waitingForGroup' = IF e.group = Root THEN waitingForGroup ELSE waitingForGroup - 1
      /\ modules' = IF e.known THEN Append(modules, e.id) ELSE modules
      /\ owner' = IF e.known THEN [owner EXCEPT ![e.id] = e.group] ELSE owner
      /\ entries' = Tail(entries)
      /\ UNCHANGED <<links, streamViews, status, todo, patched, phase, file, linkEntries, changes>>
  BY DEF CreateEntry
<1>3. /\ e \in Entry /\ e \in ToSet(entries) /\ entries' \in Seq(Entry) /\ Unlike(entries')
      /\ ToSet(entries') \subseteq ToSet(entries) /\ \A x \in ToSet(entries') : x.id # e.id
  BY <1>1, <1>2, EntriesTurn DEF Pending
<1>4. e.id \in Modules \ Present /\ e.group \in Groups \cup {Root}
  BY <1>1, <1>3 DEF Pending, Entry
<1> HIDE DEF e
<1>5. NetInv' /\ Present' \subseteq Present \cup {e.id}
  <2>1. CASE e.known
    BY <1>1, <1>2, <1>4, <2>1, NewModuleNet
  <2>2. CASE ~e.known
    BY <1>1, <1>2, <2>2 DEF NetInv, Typed, Present
  <2> QED BY <2>1, <2>2
<1>6. FileTyped'
  BY <1>1, <1>2, <1>3 DEF FileTyped
<1>7. Pending'
  BY <1>1, <1>3, <1>5 DEF Pending
<1> QED BY <1>1, <1>2, <1>5, <1>6, <1>7 DEF FileInv

LEMMA LoadLinkFile ==
  ASSUME FileInv, NEW l \in linkEntries, LoadLink(l)
  PROVE  FileInv'
<1>1. /\ NetInv /\ FileTyped /\ Typed /\ todo = <<>> /\ entries = <<>> /\ phase = "links"
      /\ links \in SUBSET Link /\ l \in Link /\ Linked(links, owner, modules)
  BY DEF FileInv, NetInv, Typed, LoadLink, FileTyped, IsFile
<1>2. /\ linkEntries' = linkEntries \ {l}
      /\ links' = IF IsLinkingValid(l) THEN links \cup {l} ELSE links
      /\ UNCHANGED <<modules, owner, streamViews, status, todo, patched, phase, file, entries,
                     waitingForGroup, changes>>
  BY DEF LoadLink
<1>3. Linked(links', owner, modules) /\ links' \in SUBSET Link
  BY <1>1, <1>2 DEF Linked, IsLinkingValid, Fits, IsIntoGroup, IsOutOfGroup, Present
<1>4. todo' \in Seq(Calls(links'))
  BY <1>1, <1>2
<1>5. NetInv'
  BY <1>1, <1>2, <1>3, <1>4 DEF NetInv, Typed
<1>6. FileTyped'
  BY <1>1, <1>2 DEF FileTyped
<1> QED BY <1>1, <1>2, <1>5, <1>6 DEF FileInv

LEMMA FileInvInductive == FileInv /\ [Next]_vars => FileInv'
<1> SUFFICES ASSUME FileInv, [Next]_vars PROVE FileInv'
  OBVIOUS
<1>0. NetInv /\ FileTyped
  BY DEF FileInv
<1>1. CASE Edit
  BY <1>1, EditFile
<1>2. CASE Save
  BY <1>2, SaveFile
<1>3. CASE Clear
  BY <1>3, ClearFile
<1>4. CASE \E f \in Files \cup {file} : Load(f)
  BY <1>4, LoadFile
<1>5. CASE Walk
  <2>1. todo # <<>> /\ UNCHANGED <<loader, changes>>
    BY <1>5 DEF Walk, NetworkStep, Deliver, Return
  <2>2. NetInv'
    BY <1>0, <1>5, DeliverNet, ReturnNet DEF Walk, NetworkStep
  <2>3. phase \in {"edit", "loaded"}
    BY <2>1 DEF FileInv
  <2>4. FileTyped'
    BY <1>0, <2>1 DEF FileTyped, loader
  <2> QED BY <2>1, <2>2, <2>3, <2>4 DEF FileInv, loader
<1>6. CASE PostponeEntry
  BY <1>6, PostponeFile
<1>7. CASE CreateEntry
  BY <1>7, CreateFile
<1>8. CASE EndEntries
  <2>1. /\ phase = "entries" /\ phase' = "links" /\ entries' = <<>>
        /\ UNCHANGED <<network, file, waitingForGroup, linkEntries, changes>>
    BY <1>8 DEF EndEntries
  <2>2. NetInv'
    BY <1>0, <2>1 DEF NetInv, Typed, network
  <2>3. FileTyped'
    BY <1>0, <2>1 DEF FileTyped, ToSet
  <2> QED BY <2>1, <2>2, <2>3 DEF FileInv, network
<1>9. CASE \E l \in linkEntries : LoadLink(l)
  BY <1>9, LoadLinkFile
<1>10. CASE EndLoad
  <2>1. /\ phase = "links" /\ linkEntries = {} /\ phase' = "loaded" /\ entries = <<>>
        /\ UNCHANGED <<modules, owner, links, streamViews, patched, file, entries,
                       waitingForGroup, linkEntries, changes>>
    BY <1>10 DEF EndLoad, FileInv
  <2>2. NetInv'
    BY <1>0, <1>10, <2>1, RecheckNet DEF EndLoad
  <2>3. FileTyped'
    BY <1>0, <2>1 DEF FileTyped
  <2> QED BY <2>1, <2>2, <2>3 DEF FileInv
<1>11. CASE UNCHANGED vars
  BY <1>0, <1>11 DEF FileInv, NetInv, Typed, FileTyped, Pending, Present, vars, network, loader
<1> QED BY <1>1, <1>2, <1>3, <1>4, <1>5, <1>6, <1>7, <1>8, <1>9, <1>10, <1>11
        DEF Next, Step, LoadStep

THEOREM SpecFileInv == Spec => []FileInv
BY InitFile, FileInvInductive, PTL DEF Spec

(* Types: every edit, every walk along the links and every file keeps the  *)
(* network one that isLinkingValid accepts, with views on its ports only.  *)
THEOREM SpecTypeOK == Spec => []TypeOK
<1>1. FileInv => TypeOK
  <2> SUFFICES ASSUME FileInv PROVE TypeOK
    OBVIOUS
  <2>1. Typed /\ Ported(streamViews) /\ Linked(links, owner, modules) /\ FileTyped
    BY DEF FileInv, NetInv
  <2>2. \A i \in DOMAIN todo :
          /\ todo[i].of \in Modules /\ todo[i].ok \in BOOLEAN
          /\ DOMAIN todo[i].carry \subseteq links
          /\ \A l \in DOMAIN todo[i].carry : todo[i].carry[l] \subseteq Views
    <3> SUFFICES ASSUME NEW i \in DOMAIN todo
                 PROVE  /\ todo[i].of \in Modules /\ todo[i].ok \in BOOLEAN
                        /\ DOMAIN todo[i].carry \subseteq links
                        /\ \A l \in DOMAIN todo[i].carry : todo[i].carry[l] \subseteq Views
      OBVIOUS
    <3>1. todo[i] \in Calls(links)
      BY <2>1 DEF Typed
    <3>2. PICK D \in SUBSET links : todo[i].carry \in [D -> SUBSET Views]
      BY <3>1 DEF Calls, Carried
    <3> QED BY <3>1, <3>2 DEF Calls
  <2>3. links \subseteq {l \in Link : l.src \in Present /\ l.dst \in Present}
    BY <2>1 DEF Typed, Linked, Present
  <2> QED BY <2>1, <2>2, <2>3 DEF TypeOK, NetworkTypeOK, Typed, Ported, FileTyped
<1> QED BY <1>1, SpecFileInv, PTL

(* Between two edits the status of a module is the verdict on the views it *)
(* has now, whatever was added, removed, reset, saved and loaded before.   *)
THEOREM SpecChecksCurrent == Spec => []ChecksCurrent
<1>1. FileInv => ChecksCurrent
  BY PresentIs DEF FileInv, NetInv, Judgements, ChecksCurrent
<1> QED BY <1>1, SpecFileInv, PTL

-----------------------------------------------------------------------------
(* The places views pass through: a module, or one side of a port of a     *)
(* group.  A link is followed by those that leave the place it leads to.   *)
(* Where no walk goes round, the places can be ranked so that every link   *)
(* leads down.                                                             *)

Nodes == {"in", "out", "of"} \X Modules \X (Streams \cup {Root})
From(own, l) ==
  IF l.src \in Groups THEN <<IF own[l.dst] = l.src THEN "in" ELSE "out", l.src, l.out>>
  ELSE <<"of", l.src, Root>>
Into(own, l) ==
  IF l.dst \in Groups THEN <<IF own[l.src] = l.dst THEN "out" ELSE "in", l.dst, l.in>>
  ELSE <<"of", l.dst, Root>>
Ranks(own, ls) == {r \in [Nodes -> Nat] : \A l \in ls : r[Into(own, l)] < r[From(own, l)]}

LEMMA NodesAre ==
  ASSUME NEW own, NEW l \in Link
  PROVE  From(own, l) \in Nodes /\ Into(own, l) \in Nodes
BY DEF From, Into, Nodes, Link

LEMMA FollowsIs ==
  ASSUME NEW own, NEW k \in Link, NEW l \in Link
  PROVE  FollowsIn(own, k, l) <=> From(own, k) = Into(own, l)
<1>1. CASE l.dst \in Groups
  <2>1. CASE k.src \in Groups
    BY <1>1, <2>1 DEF FollowsIn, From, Into
  <2>2. CASE k.src \notin Groups
    <3>1. From(own, k) = <<"of", k.src, Root>>
      BY <2>2 DEF From
    <3>2. Into(own, l) = <<IF own[l.src] = l.dst THEN "out" ELSE "in", l.dst, l.in>>
      BY <1>1 DEF Into
    <3>3. From(own, k)[1] # Into(own, l)[1]
      BY <3>1, <3>2
    <3> QED BY <1>1, <2>2, <3>3 DEF FollowsIn
  <2> QED BY <2>1, <2>2
<1>2. CASE l.dst \notin Groups
  <2>1. Into(own, l) = <<"of", l.dst, Root>>
    BY <1>2 DEF Into
  <2>2. CASE k.src \in Groups
    <3>1. From(own, k)[1] # Into(own, l)[1]
      BY <2>1, <2>2 DEF From
    <3> QED BY <1>2, <2>2, <3>1 DEF FollowsIn
  <2>3. CASE k.src \notin Groups
    BY <1>2, <2>1, <2>3 DEF FollowsIn, From
  <2> QED BY <2>2, <2>3
<1> QED BY <1>1, <1>2

(* The rank of a place is the number of links that can be followed from it *)
(* one after the other, at most.                                           *)
LEMMA RanksExist ==
  ASSUME NEW own, NEW ls \in SUBSET Link, IsFiniteSet(ls), EndsIn(own, ls)
  PROVE  \E r : r \in Ranks(own, ls)
<1> DEFINE Longer(S) == {l \in S : \E k \in S : FollowsIn(own, k, l)}
           step == [S \in SUBSET Link |-> Longer(S)]
           Onward == CHOOSE f : f = [n \in Nat |->
             IF n = 0 THEN ls
             ELSE LET next == f[n - 1]
                  IN {l \in next : \E k \in next : FollowsIn(own, k, l)}]
           N == Cardinality(ls)
<1>1. \A S \in SUBSET Link : step[S] = Longer(S) /\ step[S] \in SUBSET Link
  OBVIOUS
<1>2. PICK f : /\ f = [n \in Nat |-> IF n = 0 THEN ls ELSE step[f[n - 1]]]
               /\ \A n \in Nat : f[n] \in SUBSET Link
  <2> HIDE DEF step, Longer
  <2>1. \A S \in SUBSET Link : step[S] \in SUBSET Link
    BY <1>1
  <2> DEFINE S == SUBSET Link
  <2>2. ls \in S /\ \A x \in S : step[x] \in S
    BY <2>1
  <2> HIDE DEF S
  <2>3. \E f : Iterates(f, ls, step) /\ \A n \in Nat : f[n] \in S
    BY <2>2, RecursionOnNat
  <2> QED BY <2>3 DEF S, Iterates
<1>3. f = [n \in Nat |-> IF n = 0 THEN ls ELSE Longer(f[n - 1])]
  <2> DEFINE g == [n \in Nat |-> IF n = 0 THEN ls ELSE Longer(f[n - 1])]
  <2>1. \A n \in Nat : n # 0 => step[f[n - 1]] = Longer(f[n - 1])
    <3>1. \A n \in Nat : n # 0 => f[n - 1] \in SUBSET Link
      <4>1. \A n \in Nat : n # 0 => n - 1 \in Nat
        OBVIOUS
      <4> QED BY <1>2, <4>1
    <3> HIDE DEF step, Longer
    <3> QED BY <1>1, <3>1
  <2>2. \A n \in Nat : f[n] = g[n]
    <3> HIDE DEF step, Longer
    <3> QED BY <1>2, <2>1
  <2>3. f = g
    <3> HIDE DEF step, Longer
    <3> QED BY <1>2, <2>2
  <2> QED BY <2>3
<1>4. Onward = [n \in Nat |-> IF n = 0 THEN ls ELSE Longer(Onward[n - 1])]
  BY <1>3
<1>5. N \in Nat /\ Onward[N] = {}
  <2>1. N \in Nat
    BY FS_CardinalityType
  <2>2. Onward[Cardinality(ls)] = {}
    BY Zenon DEF EndsIn
  <2> QED BY <2>1, <2>2
<1> HIDE DEF Onward, N
<1>6. /\ Onward[0] = ls
      /\ \A n \in Nat : Onward[n + 1] = Longer(Onward[n])
  <2>1. \A n \in Nat : n + 1 \in Nat /\ n + 1 # 0 /\ (n + 1) - 1 = n
    OBVIOUS
  <2> HIDE DEF Longer
  <2>2. \A n \in Nat : Onward[n] = IF n = 0 THEN ls ELSE Longer(Onward[n - 1])
    BY <1>4
  <2> QED BY <2>1, <2>2
<1>7. \A n \in Nat : Onward[n] \in SUBSET Link
  <2> DEFINE T == {n \in Nat : Onward[n] \in SUBSET Link}
  <2>1. 0 \in T /\ \A n \in Nat : n \in T => n + 1 \in T
    BY <1>6
  <2>2. \A n \in Nat : \A j \in 1..n : j - 1 \in T => j \in T
    <3>1. \A n \in Nat : \A j \in 1..n : j - 1 \in Nat /\ (j - 1) + 1 = j
      OBVIOUS
    <3> HIDE DEF T
    <3> QED BY <2>1, <3>1
  <2> HIDE DEF T
  <2>3. \A n \in Nat : 0..n \subseteq T
    BY <2>1, <2>2, StepByStep
  <2>4. \A n \in Nat : n \in 0..n
    OBVIOUS
  <2> QED BY <2>3, <2>4 DEF T
<1> DEFINE Free(p) == {n \in Nat : \A k \in Onward[n] : From(own, k) # p}
           r == [p \in Nodes |-> CHOOSE n \in Free(p) : \A m \in Free(p) : n <= m]
<1>8. \A p \in Nodes : r[p] \in Free(p) /\ \A m \in Free(p) : r[p] <= m
  <2> SUFFICES ASSUME NEW p \in Nodes
               PROVE  \E n \in Free(p) : \A m \in Free(p) : n <= m
    <3> HIDE DEF Free
    <3> QED OBVIOUS
  <2>1. Free(p) \in SUBSET Nat /\ N \in Free(p)
    BY <1>5
  <2> HIDE DEF Free
  <2> QED BY <2>1, LeastExists
<1>9. ASSUME NEW l \in ls PROVE r[Into(own, l)] < r[From(own, l)]
  <2> DEFINE p == Into(own, l)
             q == From(own, l)
             d == r[p]
  <2>1. p \in Nodes /\ q \in Nodes
    BY NodesAre
  <2>2. d \in Nat /\ r[q] \in Nat /\ \A n \in Nat : n < d => n \notin Free(p)
    BY <1>8, <2>1
  <2>3. \A n \in 0..d : l \in Onward[n]
    <3> DEFINE T == {n \in Nat : l \in Onward[n]}
    <3>1. 0 \in T
      BY <1>6
    <3>2. ASSUME NEW n \in 1..d, n - 1 \in T PROVE n \in T
      <4>1. n - 1 \in Nat /\ n - 1 < d /\ (n - 1) + 1 = n /\ l \in Onward[n - 1]
        BY <2>2, <3>2
      <4>2. PICK k \in Onward[n - 1] : From(own, k) = p
        BY <2>2, <4>1
      <4>3. k \in Link /\ l \in Link
        BY <1>7, <4>1, <4>2
      <4>4. FollowsIn(own, k, l)
        BY <4>2, <4>3, FollowsIs
      <4>5. l \in Longer(Onward[n - 1])
        BY <4>1, <4>2, <4>4
      <4> HIDE DEF Longer
      <4> QED BY <1>6, <2>2, <4>1, <4>5
    <3> HIDE DEF T, d
    <3>3. 0..d \subseteq T
      BY <2>2, <3>1, <3>2, StepByStep
    <3> QED BY <3>3 DEF T
  <2>4. \A n \in 0..d : n \notin Free(q)
    BY <2>3
  <2>5. r[q] \in Free(q) /\ (r[q] <= d => r[q] \in 0..d)
    BY <1>8, <2>1, <2>2
  <2>6. ~ (r[q] <= d)
    BY <2>4, <2>5
  <2> HIDE DEF d, r
  <2> QED BY <2>2, <2>6 DEF d
<1>10. r \in [Nodes -> Nat]
  <2>1. \A p \in Nodes : r[p] \in Nat
    BY <1>8
  <2> QED BY <2>1
<1> HIDE DEF r
<1> QED BY <1>9, <1>10 DEF Ranks

(* What a link offers, and the port it leads to, as Offered and Target.    *)
Offer(own, sv, l) ==
  IF l.src \in Groups THEN Entered(sv[From(own, l)]) ELSE Updated(sv, l.src, l.out)
Port(own, l) == <<IF own[l.src] = l.dst THEN "out" ELSE "in", l.dst, l.in>>

LEMMA OfferedIs ==
  ASSUME NEW l
  PROVE  /\ Offered(l) = Offer(owner, streamViews, l) /\ Target(l) = Port(owner, l)
         /\ Offered(l)' = Offer(owner', streamViews', l)
         /\ Target(l)' = Port(owner', l)
BY DEF Offered, Offer, From, Target, Port, IsIntoGroup, IsOutOfGroup

(* A call that is not the innermost one hands on what comes from further   *)
(* up, and what it has still to deliver is what the links offer now.       *)
Awaits(stack, l) == \E i \in DOMAIN stack : l \in DOMAIN stack[i].carry
Nested(r, own, stack) ==
  \A i, j \in DOMAIN stack : i <= j =>
    \A k \in DOMAIN stack[i].carry, l \in DOMAIN stack[j].carry :
      r[From(own, k)] <= r[From(own, l)] \/ InPorts[l.src] = {}
Ready(own, sv, stack) ==
  \A i \in DOMAIN stack : \A l \in DOMAIN stack[i].carry :
    stack[i].carry[l] = Offer(own, sv, l)

(* s2 holds less than s1 does, but for d calls.                            *)
Thins(s2, s1, d) ==
  \A i \in DOMAIN s2 :
    /\ i + d \in DOMAIN s1
    /\ \A l \in DOMAIN s2[i].carry :
         l \in DOMAIN s1[i + d].carry /\ s2[i].carry[l] = s1[i + d].carry[l]

LEMMA ThinsWalks ==
  ASSUME NEW R, NEW s1, NEW s2 \in Seq(R), NEW d \in Nat, Thins(s2, s1, d),
         NEW r, NEW own, NEW sv, Nested(r, own, s1), Ready(own, sv, s1)
  PROVE  Nested(r, own, s2) /\ Ready(own, sv, s2)
<1>1. \A i, j \in DOMAIN s2 : i <= j => i + d <= j + d
  OBVIOUS
<1>2. Nested(r, own, s2)
  BY <1>1 DEF Nested, Thins
<1>3. Ready(own, sv, s2)
  BY DEF Ready, Thins
<1> QED BY <1>2, <1>3

LEMMA ToldCarries ==
  ASSUME NEW ls, NEW s \in Seq(Calls(ls)), NEW ok
  PROVE  /\ DOMAIN Told(s, ok) = DOMAIN s
         /\ \A i \in DOMAIN s : Told(s, ok)[i].carry = s[i].carry
<1>1. CASE s = <<>>
  BY <1>1 DEF Told
<1>2. CASE s # <<>>
  <2> DEFINE c == [Head(s) EXCEPT !.ok = @ /\ ok]
             t == <<c>> \o Tail(s)
  <2>1. Told(s, ok) = t
    BY <1>2 DEF Told
  <2>2. Head(s) = s[1] /\ Len(s) \in Nat \ {0} /\ DOMAIN s = 1..Len(s)
        /\ Tail(s) \in Seq(Calls(ls)) /\ Len(Tail(s)) = Len(s) - 1
        /\ \A i \in 1..(Len(s) - 1) : Tail(s)[i] = s[i + 1]
        /\ Head(s) \in Calls(ls)
    BY <1>2
  <2>3. c.carry = Head(s).carry
    BY <2>2 DEF Calls
  <2> HIDE DEF c
  <2>4. DOMAIN t = 1..Len(s) /\ t[1] = c /\ \A i \in 2..Len(s) : t[i] = Tail(s)[i - 1]
    BY <2>2
  <2> HIDE DEF t
  <2>5. \A i \in 2..Len(s) : i - 1 \in 1..(Len(s) - 1) /\ (i - 1) + 1 = i
    BY <2>2
  <2>6. \A i \in 2..Len(s) : t[i] = s[i]
    BY <2>2, <2>4, <2>5
  <2>7. \A i \in 1..Len(s) : i = 1 \/ i \in 2..Len(s)
    BY <2>2
  <2> QED BY <2>1, <2>2, <2>3, <2>4, <2>6, <2>7
<1> QED BY <1>1, <1>2

LEMMA ServedCarries ==
  ASSUME NEW ls, NEW s \in Seq(Calls(ls)), s # <<>>, NEW k
  PROVE  LET t == <<Served(Head(s), k)>> \o Tail(s) IN
         /\ t \in Seq(Calls(ls)) /\ Thins(t, s, 0)
         /\ \A l : Awaits(s, l) /\ l # k => Awaits(t, l)
<1> DEFINE c == Served(Head(s), k)
           t == <<c>> \o Tail(s)
           f == [x \in DOMAIN s[1].carry \ {k} |-> s[1].carry[x]]
<1>1. Head(s) = s[1] /\ Len(s) \in Nat \ {0} /\ DOMAIN s = 1..Len(s)
      /\ Tail(s) \in Seq(Calls(ls)) /\ Len(Tail(s)) = Len(s) - 1
      /\ \A i \in 1..(Len(s) - 1) : Tail(s)[i] = s[i + 1]
      /\ Head(s) \in Calls(ls)
  OBVIOUS
<1>2. c \in Calls(ls)
  BY <1>1, ServedIs
<1>3. c.carry = f
  <2>1. Head(s) = s[1] /\ DOMAIN Head(s) = {"of", "ok", "carry"}
    <3> DEFINE h == Head(s)
    <3>1. h = s[1] /\ h \in Calls(ls)
      BY <1>1
    <3> HIDE DEF h
    <3>2. DOMAIN h = {"of", "ok", "carry"}
      BY <3>1 DEF Calls
    <3> QED BY <3>1, <3>2 DEF h
  <2> QED BY <2>1 DEF Served
<1>4. DOMAIN f = DOMAIN s[1].carry \ {k} /\ \A x \in DOMAIN f : f[x] = s[1].carry[x]
  OBVIOUS
<1> HIDE DEF c, f
<1>5. /\ t \in Seq(Calls(ls)) /\ DOMAIN t = 1..Len(s) /\ t[1] = c
      /\ \A i \in 2..Len(s) : t[i] = Tail(s)[i - 1]
  BY <1>1, <1>2
<1> HIDE DEF t
<1>6. \A i \in 2..Len(s) : i - 1 \in 1..(Len(s) - 1) /\ (i - 1) + 1 = i
  BY <1>1
<1>7. \A i \in 2..Len(s) : t[i] = s[i]
  BY <1>1, <1>5, <1>6
<1>8. \A i \in 1..Len(s) : (i = 1 \/ i \in 2..Len(s)) /\ i + 0 = i
  BY <1>1
<1>9. Thins(t, s, 0)
  BY <1>1, <1>3, <1>4, <1>5, <1>7, <1>8 DEF Thins
<1>10. ASSUME NEW l, Awaits(s, l), l # k PROVE Awaits(t, l)
  <2>1. PICK i \in 1..Len(s) : l \in DOMAIN s[i].carry
    BY <1>1, <1>10 DEF Awaits
  <2>2. l \in DOMAIN t[i].carry
    BY <1>3, <1>4, <1>5, <1>7, <1>8, <1>10, <2>1
  <2> QED BY <1>5, <2>1, <2>2 DEF Awaits
<1> QED BY <1>5, <1>9, <1>10 DEF t, c

(* A call goes on from a place, with all that its links offer; or there is *)
(* none, since the module there does not pass.                             *)
Hands(c, own, ls, sv, p) ==
  /\ DOMAIN c.carry = {l \in ls : From(own, l) = p}
  /\ \A l \in DOMAIN c.carry : c.carry[l] = Offer(own, sv, l)
Stops(sv, p) == p[1] = "of" /\ Verdict(sv, p[2]) # "checked"
Enters(own, ls, sv, p, s1, s2) ==
  \/ \E c : s2 = <<c>> \o s1 /\ Hands(c, own, ls, sv, p)
  \/ Stops(sv, p) /\ \E ok \in BOOLEAN : s2 = Told(s1, ok)

LEMMA EntersWalks ==
  ASSUME NEW own, NEW ls \in SUBSET Link, NEW r \in Ranks(own, ls), NEW sv, NEW p \in Nodes,
         NEW s1 \in Seq(Calls(ls)), NEW s2 \in Seq(Calls(ls)), Enters(own, ls, sv, p, s1, s2),
         Nested(r, own, s1), Ready(own, sv, s1),
         \A l : Awaits(s1, l) => r[p] <= r[From(own, l)] \/ InPorts[l.src] = {}
  PROVE  /\ Nested(r, own, s2) /\ Ready(own, sv, s2)
         /\ \A l : Awaits(s1, l) => Awaits(s2, l)
         /\ \A l \in ls : From(own, l) = p => Awaits(s2, l) \/ Stops(sv, p)
<1>1. ASSUME NEW c, s2 = <<c>> \o s1, Hands(c, own, ls, sv, p)
      PROVE  /\ Nested(r, own, s2) /\ Ready(own, sv, s2)
             /\ \A l : Awaits(s1, l) => Awaits(s2, l)
             /\ \A l \in ls : From(own, l) = p => Awaits(s2, l)
  <2> DEFINE n == Len(s1)
  <2>1. /\ n \in Nat /\ DOMAIN s1 = 1..n /\ DOMAIN s2 = 1..(n + 1) /\ s2[1] = c
        /\ \A i \in 2..(n + 1) : s2[i] = s1[i - 1] /\ i - 1 \in 1..n
    BY <1>1
  <2>2. /\ \A i \in 1..(n + 1) : i = 1 \/ i \in 2..(n + 1)
        /\ \A i \in 1..n : i + 1 \in 2..(n + 1) /\ (i + 1) - 1 = i /\ i + 1 \in 1..(n + 1)
        /\ 1 \in 1..(n + 1)
    BY <2>1
  <2> HIDE DEF n
  <2>3. Nested(r, own, s2)
    <3> SUFFICES ASSUME NEW i \in 1..(n + 1), NEW j \in 1..(n + 1), i <= j,
                        NEW k \in DOMAIN s2[i].carry, NEW l \in DOMAIN s2[j].carry
                 PROVE  r[From(own, k)] <= r[From(own, l)] \/ InPorts[l.src] = {}
      BY <2>1 DEF Nested
    <3>0. r[p] \in Nat
      BY DEF Ranks
    <3>1. CASE i = 1 /\ j = 1
      <4>1. From(own, k) = p /\ From(own, l) = p
        BY <2>1, <1>1, <3>1 DEF Hands
      <4> QED BY <3>0, <4>1
    <3>2. CASE i = 1 /\ j \in 2..(n + 1)
      <4>1. From(own, k) = p /\ Awaits(s1, l)
        BY <2>1, <1>1, <3>2 DEF Hands, Awaits
      <4> QED BY <4>1
    <3>3. CASE i \in 2..(n + 1) /\ j \in 2..(n + 1)
      <4>1. i - 1 \in DOMAIN s1 /\ j - 1 \in DOMAIN s1 /\ i - 1 <= j - 1
        BY <2>1, <3>3
      <4>2. k \in DOMAIN s1[i - 1].carry /\ l \in DOMAIN s1[j - 1].carry
        BY <2>1, <3>3
      <4> QED BY <4>1, <4>2 DEF Nested
    <3>4. ~ (i \in 2..(n + 1) /\ j = 1)
      BY <2>1
    <3> QED BY <2>2, <3>1, <3>2, <3>3, <3>4
  <2>4. Ready(own, sv, s2)
    <3> SUFFICES ASSUME NEW i \in 1..(n + 1), NEW l \in DOMAIN s2[i].carry
                 PROVE  s2[i].carry[l] = Offer(own, sv, l)
      BY <2>1 DEF Ready
    <3>1. CASE i = 1
      BY <1>1, <2>1, <3>1 DEF Hands
    <3>2. CASE i \in 2..(n + 1)
      <4>1. i - 1 \in DOMAIN s1 /\ s2[i] = s1[i - 1]
        BY <2>1, <3>2
      <4> QED BY <4>1 DEF Ready
    <3> QED BY <2>2, <3>1, <3>2
  <2>5. ASSUME NEW l, Awaits(s1, l) PROVE Awaits(s2, l)
    <3>1. PICK i \in 1..n : l \in DOMAIN s1[i].carry
      BY <2>1, <2>5 DEF Awaits
    <3>2. s2[i + 1] = s1[i]
      BY <2>1, <2>2
    <3> QED BY <2>1, <2>2, <3>1, <3>2 DEF Awaits
  <2>6. \A l \in ls : From(own, l) = p => Awaits(s2, l)
    BY <1>1, <2>1, <2>2 DEF Hands, Awaits
  <2> QED BY <2>3, <2>4, <2>5, <2>6
<1>2. ASSUME Stops(sv, p), NEW ok \in BOOLEAN, s2 = Told(s1, ok)
      PROVE  /\ Nested(r, own, s2) /\ Ready(own, sv, s2)
             /\ \A l : Awaits(s1, l) => Awaits(s2, l)
  <2>1. DOMAIN s2 = DOMAIN s1 /\ \A i \in DOMAIN s1 : s2[i].carry = s1[i].carry
    BY <1>2, ToldCarries
  <2>2. Thins(s2, s1, 0)
    BY <2>1 DEF Thins
  <2>3. Nested(r, own, s2) /\ Ready(own, sv, s2)
    BY <2>2, ThinsWalks
  <2> QED BY <2>1, <2>3 DEF Awaits
<1> QED BY <1>1, <1>2 DEF Enters

(* A module that passes hands on every link that leaves it.                *)
LEMMA ModuleCallHands ==
  ASSUME NEW ls \in SUBSET Link, NEW sv, NEW m \in Modules \ Groups,
         owner \in [Modules -> Groups \cup {Root}], \A l \in ls : Fits(owner, l),
         Verdict(sv, m) = "checked"
  PROVE  Hands(ModuleCall(ls, sv, m), owner, ls, sv, <<"of", m, Root>>)
<1> DEFINE p == <<"of", m, Root>>
           c == ModuleCall(ls, sv, m)
<1>2. \A l \in ls : l.src \in Modules /\ l.dst \in Modules
  BY DEF Link
<1>3. \A l \in ls : From(owner, l) = p <=> l.src = m
  <2> SUFFICES ASSUME NEW l \in ls PROVE From(owner, l) = p <=> l.src = m
    OBVIOUS
  <2>1. CASE l.src \in Groups
    <3>1. From(owner, l)[1] # "of"
      BY <2>1 DEF From
    <3> QED BY <2>1, <3>1
  <2>2. CASE l.src \notin Groups
    BY <2>2 DEF From
  <2> QED BY <2>1, <2>2
<1>4. Outgoing(ls, m) = {l \in ls : l.src = m}
  <2>1. \A l \in ls : owner[l.dst] \in Groups \cup {Root}
    BY <1>2
  <2>2. \A l \in ls : owner[l.dst] # m
    BY <2>1, NetworkAssumption
  <2> QED BY <2>2 DEF Outgoing, IsIntoGroup
<1>5. ASSUME NEW l \in ls, l.src = m PROVE Updated(sv, m, l.out) # {}
  <2>1. l.out \in OutPorts[m]
    <3>1. owner[l.dst] # m
      BY <1>2, NetworkAssumption
    <3> QED BY <1>5, <3>1 DEF Fits
  <2>2. PICK v \in Views : <<l.out, v>> \in Adds[m] \/ <<l.out, v>> \in Asks[m]
    BY <2>1, OfferAssumption
  <2>3. CASE <<l.out, v>> \in Adds[m]
    BY <2>3 DEF Updated
  <2>4. CASE <<l.out, v>> \in Asks[m]
    <3> DEFINE a == <<l.out, v>>
    <3>1. a[1] \in InPorts[m] /\ a[1] = l.out /\ a[2] = v
      BY <2>4, PortAssumption
    <3>2. a[2] \in sv[<<"in", m, a[1]>>] /\ sv[<<"in", m, a[1]>>] # NULL
      <4>1. ~ \E s \in InPorts[m] : sv[<<"in", m, s>>] = NULL
        BY DEF Verdict
      <4>2. ~ \E b \in Asks[m] : b[2] \notin sv[<<"in", m, b[1]>>]
        BY DEF Verdict
      <4> QED BY <2>4, <3>1, <4>1, <4>2
    <3>3. v \in Entered(sv[<<"in", m, l.out>>]) /\ l.out \in InPorts[m]
      BY <3>1, <3>2 DEF Entered
    <3> QED BY <3>3 DEF Updated
  <2> QED BY <2>2, <2>3, <2>4
<1>6. Hands(c, owner, ls, sv, p)
  <2> DEFINE D == {k \in Outgoing(ls, m) : Updated(sv, m, k.out) # {}}
  <2>1. D = {l \in ls : From(owner, l) = p}
    BY <1>3, <1>4, <1>5
  <2>2. c.carry = [l \in D |-> Updated(sv, m, l.out)]
    BY DEF ModuleCall
  <2>3. \A l \in D : Offer(owner, sv, l) = Updated(sv, m, l.out)
    BY <1>3, <2>1 DEF Offer
  <2> HIDE DEF D
  <2> QED BY <2>1, <2>2, <2>3 DEF Hands
<1> QED BY <1>6

(* checkModuleStreamForward of a module and checkGroupStreamForward go on  *)
(* with every link that leaves the place they were called for.             *)
LEMMA CheckModuleEnters ==
  ASSUME NEW ls \in SUBSET Link, NEW sv, NEW st, NEW m \in Modules \ Groups, NEW stack,
         owner \in [Modules -> Groups \cup {Root}], \A l \in ls : Fits(owner, l),
         Ported(sv), CheckModule(ls, sv, st, m, stack)
  PROVE  Enters(owner, ls, sv, <<"of", m, Root>>, stack, todo')
<1> DEFINE p == <<"of", m, Root>>
           c == ModuleCall(ls, sv, m)
<1>1. CASE Verdict(sv, m) = "checked"
  <2>1. todo' = <<c>> \o stack
    BY <1>1 DEF CheckModule
  <2>2. Hands(c, owner, ls, sv, p)
    BY <1>1, ModuleCallHands
  <2> QED BY <2>1, <2>2 DEF Enters
<1>2. CASE Verdict(sv, m) # "checked"
  <2>1. todo' = Told(stack, Verdict(sv, m) # "error")
    BY <1>2 DEF CheckModule
  <2>2. Stops(sv, p)
    BY <1>2 DEF Stops
  <2> QED BY <2>1, <2>2 DEF Enters
<1> QED BY <1>1, <1>2

LEMMA CheckGroupEnters ==
  ASSUME NEW ls \in SUBSET Link, NEW sv, NEW g \in Groups, NEW s, NEW side \in {"in", "out"},
         NEW stack, CheckGroup(ls, sv, g, s, side, stack)
  PROVE  Enters(owner, ls, sv, <<side, g, s>>, stack, todo')
<1> DEFINE p == <<side, g, s>>
           c == GroupCall(ls, sv, g, s, side)
           D == IF side = "in" THEN IntoGroupAt(ls, g, s)
                ELSE {k \in Outgoing(ls, g) : k.out = s}
<1>1. todo' = <<c>> \o stack
  BY DEF CheckGroup
<1>2. D = {l \in ls : From(owner, l) = p}
  <2>1. D = {l \in ls : /\ l.src = g /\ l.out = s
                        /\ side = IF owner[l.dst] = l.src THEN "in" ELSE "out"}
    BY DEF IntoGroupAt, Outgoing, IsIntoGroup
  <2>2. \A l \in ls : From(owner, l) = p <=>
                        /\ l.src = g /\ l.out = s
                        /\ side = IF owner[l.dst] = l.src THEN "in" ELSE "out"
    <3> SUFFICES ASSUME NEW l \in ls
                 PROVE  From(owner, l) = p <=>
                          /\ l.src = g /\ l.out = s
                          /\ side = IF owner[l.dst] = l.src THEN "in" ELSE "out"
      OBVIOUS
    <3>1. CASE l.src \in Groups
      BY <3>1 DEF From
    <3>2. CASE l.src \notin Groups
      <4>1. From(owner, l)[1] = "of"
        BY <3>2 DEF From
      <4> QED BY <3>2, <4>1
    <3> QED BY <3>1, <3>2
  <2> QED BY <2>1, <2>2
<1>3. c.carry = [l \in D |-> Entered(sv[p])]
  BY DEF GroupCall
<1>4. \A l \in D : Offer(owner, sv, l) = Entered(sv[p])
  <2> SUFFICES ASSUME NEW l \in D PROVE Offer(owner, sv, l) = Entered(sv[p])
    OBVIOUS
  <2>1. From(owner, l) = p
    BY <1>2
  <2>2. l.src \in Groups
    <3>1. l.src \notin Groups => From(owner, l)[1] = "of"
      BY DEF From
    <3> QED BY <2>1, <3>1
  <2> QED BY <2>1, <2>2 DEF Offer
<1>5. Hands(c, owner, ls, sv, p)
  <2> HIDE DEF D, c
  <2> QED BY <1>2, <1>3, <1>4 DEF Hands
<1> QED BY <1>1, <1>5 DEF Enters

(* The links in X have handed on what they offer: a link from a module     *)
(* that passes, and one that follows such a link, is in X, or a call has   *)
(* still to serve it.                                                      *)
Alone(own, ls, l) == \A k \in ls : Port(own, k) = Port(own, l) => k = l
Reaches(X, own, ls, sv, stack) ==
  \A l \in ls : ~Awaits(stack, l) =>
    IF l.src \in Groups THEN (\E x \in X : From(own, l) = Into(own, x)) => l \in X
    ELSE Verdict(sv, l.src) = "checked" => l \in X
Holds(X, own, ls, sv) ==
  \A l \in X : Offer(own, sv, l) # {} /\ Alone(own, ls, l) => sv[Port(own, l)] = Offer(own, sv, l)
Settled(own, ls, sv, stack) ==
  \E X \in SUBSET ls : Reaches(X, own, ls, sv, stack) /\ Holds(X, own, ls, sv)
Streaming(own, ls, sv, stack) ==
  \E r \in Ranks(own, ls) : Nested(r, own, stack) /\ Ready(own, sv, stack)

(* A link leads into a module that has in-ports.                           *)
LEMMA LinkLeads ==
  ASSUME NEW own \in [Modules -> Groups \cup {Root}], NEW k \in Link, Fits(own, k)
  PROVE  InPorts[k.dst] # {}
<1>1. k.dst \in Modules /\ k.src \in Modules
  BY DEF Link
<1>2. CASE own[k.src] = k.dst
  <2>1. k.dst \in Groups /\ k.in \in OutPorts[k.dst]
    BY <1>1, <1>2, NetworkAssumption DEF Fits
  <2> QED BY <2>1, PortAssumption
<1>3. CASE own[k.src] # k.dst
  BY <1>3 DEF Fits
<1> QED BY <1>2, <1>3

LEMMA AwaitsLinks ==
  ASSUME NEW ls, NEW s \in Seq(Calls(ls)), NEW l, Awaits(s, l)
  PROVE  l \in ls
<1>1. PICK i \in DOMAIN s : l \in DOMAIN s[i].carry
  BY DEF Awaits
<1>2. s[i] \in Calls(ls)
  OBVIOUS
<1>3. PICK D \in SUBSET ls : s[i].carry \in [D -> SUBSET Views]
  BY <1>2 DEF Calls, Carried
<1> QED BY <1>1, <1>3

(* What a link offers depends on the ports of the place it leaves.         *)
LEMMA FromPort ==
  ASSUME NEW own, NEW l \in Link, Fits(own, l), l.src \in Groups
  PROVE  From(own, l) \in Ports
<1>1. CASE own[l.dst] = l.src
  <2>1. From(own, l) = <<"in", l.src, l.out>> /\ l.out \in InPorts[l.src] /\ l.src \in Modules
    BY <1>1 DEF From, Fits, Link
  <2> QED BY <2>1, InPortIs
<1>2. CASE own[l.dst] # l.src
  <2>1. From(own, l) = <<"out", l.src, l.out>> /\ l.out \in OutPorts[l.src]
    BY <1>2 DEF From, Fits
  <2> QED BY <2>1, OutPortIs
<1> QED BY <1>1, <1>2

LEMMA OfferSame ==
  ASSUME NEW own, NEW k \in Link, NEW l \in Link, Fits(own, l),
         From(own, l) # Into(own, k), NEW sv, NEW sv2,
         \A p \in Ports : p # Port(own, k) => sv2[p] = sv[p]
  PROVE  Offer(own, sv2, l) = Offer(own, sv, l)
<1>1. CASE l.src \in Groups
  <2>1. From(own, l) # Port(own, k)
    <3>1. CASE k.dst \in Groups
      BY <3>1 DEF Into, Port
    <3>2. CASE k.dst \notin Groups
      <4>1. From(own, l)[2] = l.src /\ Port(own, k)[2] = k.dst
        BY <1>1 DEF From, Port
      <4> QED BY <1>1, <3>2, <4>1
    <3> QED BY <3>1, <3>2
  <2> QED BY <1>1, <2>1, FromPort DEF Offer
<1>2. CASE l.src \notin Groups
  <2> DEFINE p == <<"in", l.src, l.out>>
  <2>1. p # Port(own, k)
    <3>1. CASE l.src = k.dst
      BY <1>2, <3>1 DEF From, Into
    <3>2. CASE l.src # k.dst
      BY <3>2 DEF Port
    <3> QED BY <3>1, <3>2
  <2>2. l.out \in InPorts[l.src] => sv2[p] = sv[p]
    <3>1. l.out \in InPorts[l.src] => p \in Ports
      <4>1. l.src \in Modules
        BY DEF Link
      <4> QED BY <4>1, InPortIs
    <3> QED BY <2>1, <3>1
  <2> QED BY <1>2, <2>2 DEF Offer, Updated
<1> QED BY <1>1, <1>2

LEMMA DeliverStreams ==
  ASSUME NetInv, NEW k \in links, Deliver(k),
         Streaming(owner, links, streamViews, todo)
  PROVE  /\ Streaming(owner, links, streamViews', todo')
         /\ Settled(owner, links, streamViews, todo)
              => Settled(owner, links, streamViews', todo')
<1> DEFINE p  == Into(owner, k)
           q  == Port(owner, k)
           v  == Head(todo).carry[k]
           s0 == <<Served(Head(todo), k)>> \o Tail(todo)
<1>0. /\ Ported(streamViews) /\ Linked(links, owner, modules) /\ links \in SUBSET Link
      /\ owner \in [Modules -> Groups \cup {Root}] /\ todo \in Seq(Calls(links))
      /\ status \in [Modules -> Status]
  BY DEF NetInv, Typed
<1>1. /\ todo # <<>> /\ k \in DOMAIN Head(todo).carry
      /\ streamViews' = [streamViews EXCEPT ![q] = v]
      /\ IF k.dst \in Groups
         THEN CheckGroup(links, streamViews', k.dst, k.in, q[1], s0)
         ELSE CheckModule(links, streamViews', status, k.dst, s0)
  BY OfferedIs DEF Deliver, Received, Served
<1>2. /\ k \in Link /\ Fits(owner, k) /\ q \in Ports /\ p \in Nodes /\ k.dst \in Modules
      /\ \A l \in links : Fits(owner, l)
  BY <1>0, TargetIs, OfferedIs, NodesAre DEF Linked, Link
<1>3. PICK r \in Ranks(owner, links) : Nested(r, owner, todo) /\ Ready(owner, streamViews, todo)
  BY DEF Streaming
<1>5. /\ r[p] < r[From(owner, k)] /\ r \in [Nodes -> Nat] /\ From(owner, k) # p
      /\ r[p] \in Nat /\ r[From(owner, k)] \in Nat
  <2>1. r[p] < r[From(owner, k)] /\ r \in [Nodes -> Nat]
    BY <1>3 DEF Ranks
  <2>2. p \in Nodes /\ From(owner, k) \in Nodes
    BY <1>2, NodesAre
  <2>3. r[p] \in Nat /\ r[From(owner, k)] \in Nat
    BY <2>1, <2>2
  <2> QED BY <2>1, <2>3
<1>6. v = Offer(owner, streamViews, k)
  <2>1. 1 \in DOMAIN todo /\ Head(todo) = todo[1]
    BY <1>0, <1>1
  <2> QED BY <1>1, <1>3, <2>1 DEF Ready
<1>7. ASSUME NEW l, Awaits(todo, l)
      PROVE  /\ l \in links /\ From(owner, l) # p
             /\ r[p] <= r[From(owner, l)] \/ InPorts[l.src] = {}
  <2>1. l \in links /\ l \in Link
    BY <1>0, <1>7, AwaitsLinks
  <2>2. PICK j \in DOMAIN todo : l \in DOMAIN todo[j].carry
    BY <1>7 DEF Awaits
  <2>3. 1 \in DOMAIN todo /\ Head(todo) = todo[1] /\ 1 <= j
    BY <1>0, <1>1
  <2>4. r[From(owner, k)] <= r[From(owner, l)] \/ InPorts[l.src] = {}
    BY <1>1, <1>3, <2>2, <2>3 DEF Nested
  <2>5. r[From(owner, l)] \in Nat
    BY <1>5, <2>1, NodesAre
  <2>6. CASE r[From(owner, k)] <= r[From(owner, l)]
    <3>1. r[p] < r[From(owner, l)]
      BY <1>5, <2>5, <2>6
    <3> QED BY <1>5, <2>1, <2>5, <3>1
  <2>7. CASE InPorts[l.src] = {}
    <3>1. InPorts[k.dst] # {}
      BY <1>0, <1>2, LinkLeads
    <3>2. l.src # k.dst
      BY <2>7, <3>1
    <3>3. From(owner, l)[2] = l.src /\ p[2] = k.dst
      BY DEF From, Into
    <3> QED BY <2>1, <2>7, <3>2, <3>3
  <2> QED BY <2>4, <2>6, <2>7
<1>8. /\ DOMAIN streamViews = Ports
      /\ \A x \in Ports : x # q => streamViews'[x] = streamViews[x]
      /\ streamViews'[q] = v
  <2>1. DOMAIN streamViews = Ports
    BY <1>0 DEF Ported
  <2> HIDE DEF q, v
  <2> QED BY <1>1, <1>2, <2>1
<1>9. ASSUME NEW l \in links, From(owner, l) # p
      PROVE  Offer(owner, streamViews', l) = Offer(owner, streamViews, l)
  BY <1>0, <1>2, <1>8, <1>9, OfferSame
<1>10. \A m \in Modules \ Groups : m # k.dst => Verdict(streamViews', m) = Verdict(streamViews, m)
  <2>1. \A m \in Modules \ Groups : m # k.dst =>
          \A s \in InPorts[m] : <<"in", m, s>> # q
    BY DEF Port
  <2>2. \A m \in Modules \ Groups : m # k.dst =>
          \A s \in InPorts[m] : streamViews'[<<"in", m, s>>] = streamViews[<<"in", m, s>>]
    BY <1>8, <2>1, InPortIs
  <2> HIDE DEF q, v
  <2> QED BY <2>2, VerdictSame
<1>11. /\ s0 \in Seq(Calls(links)) /\ Thins(s0, todo, 0)
       /\ \A l : Awaits(todo, l) /\ l # k => Awaits(s0, l)
  BY <1>0, <1>1, ServedCarries
<1>12. Nested(r, owner, s0) /\ Ready(owner, streamViews, s0)
  <2> HIDE DEF s0
  <2> QED BY <1>3, <1>11, ThinsWalks
<1>13. \A l : Awaits(s0, l) => Awaits(todo, l)
  <2> HIDE DEF s0
  <2>1. \A i \in DOMAIN s0 : i + 0 = i
    BY <1>11
  <2> QED BY <1>11, <2>1 DEF Awaits, Thins
<1>14. Ready(owner, streamViews', s0)
  <2> HIDE DEF s0, p
  <2> SUFFICES ASSUME NEW i \in DOMAIN s0, NEW l \in DOMAIN s0[i].carry
               PROVE  s0[i].carry[l] = Offer(owner, streamViews', l)
    BY DEF Ready
  <2>1. Awaits(s0, l)
    BY DEF Awaits
  <2>2. l \in links /\ From(owner, l) # p
    BY <1>7, <1>13, <2>1
  <2> QED BY <1>9, <1>12, <2>2 DEF Ready
<1>15. Enters(owner, links, streamViews', p, s0, todo') /\ todo' \in Seq(Calls(links))
  <2>1. Ported(streamViews') /\ todo' \in Seq(Calls(links))
    <3>1. NetInv' /\ links' = links
      BY DeliverNet DEF Deliver
    <3> QED BY <3>1 DEF NetInv, Typed
  <2>2. CASE k.dst \in Groups
    <3>1. q[1] \in {"in", "out"} /\ p = <<q[1], k.dst, k.in>>
      BY <2>2 DEF Into, Port
    <3>2. CheckGroup(links, streamViews', k.dst, k.in, q[1], s0)
      BY <1>1, <2>2
    <3> HIDE DEF s0, p, q
    <3> DEFINE g == k.dst
               s == k.in
               side == q[1]
    <3>3. g \in Groups /\ side \in {"in", "out"} /\ CheckGroup(links, streamViews', g, s, side, s0)
      BY <2>2, <3>1, <3>2
    <3>4. p = <<side, g, s>>
      BY <3>1
    <3> HIDE DEF g, s, side
    <3>5. Enters(owner, links, streamViews', <<side, g, s>>, s0, todo')
      BY <1>0, <3>3, CheckGroupEnters
    <3> QED BY <2>1, <3>4, <3>5
  <2>3. CASE k.dst \notin Groups
    <3>1. p = <<"of", k.dst, Root>> /\ CheckModule(links, streamViews', status, k.dst, s0)
      BY <1>1, <2>3 DEF Into
    <3> HIDE DEF s0, p, q
    <3> DEFINE m == k.dst
    <3>2. m \in Modules \ Groups /\ CheckModule(links, streamViews', status, m, s0)
          /\ p = <<"of", m, Root>>
      BY <1>2, <2>3, <3>1
    <3> HIDE DEF m
    <3>3. Enters(owner, links, streamViews', <<"of", m, Root>>, s0, todo')
      BY <1>0, <1>2, <2>1, <3>2, CheckModuleEnters
    <3> QED BY <2>1, <3>2, <3>3
  <2> QED BY <2>2, <2>3
<1>16. /\ Nested(r, owner, todo') /\ Ready(owner, streamViews', todo')
       /\ \A l : Awaits(s0, l) => Awaits(todo', l)
       /\ \A l \in links : From(owner, l) = p => Awaits(todo', l) \/ Stops(streamViews', p)
  <2>1. \A l : Awaits(s0, l) => r[p] <= r[From(owner, l)] \/ InPorts[l.src] = {}
    BY <1>7, <1>13
  <2> HIDE DEF s0, p, q, v
  <2> QED BY <1>0, <1>2, <1>3, <1>11, <1>12, <1>14, <1>15, <2>1, EntersWalks
<1>4. Streaming(owner, links, streamViews', todo')
  BY <1>3, <1>16 DEF Streaming
<1> SUFFICES ASSUME NEW X \in SUBSET links, Reaches(X, owner, links, streamViews, todo),
                    Holds(X, owner, links, streamViews)
             PROVE  Settled(owner, links, streamViews', todo')
  BY <1>4 DEF Settled
<1> DEFINE Y == {l \in X : From(owner, l) # p} \cup {k}
<1>17. Reaches(Y, owner, links, streamViews', todo')
  <2> SUFFICES ASSUME NEW l \in links, ~ Awaits(todo', l), l # k
               PROVE  IF l.src \in Groups
                      THEN (\E x \in Y : From(owner, l) = Into(owner, x)) => l \in Y
                      ELSE Verdict(streamViews', l.src) = "checked" => l \in Y
    BY DEF Reaches
  <2>1. ~ Awaits(todo, l)
    BY <1>11, <1>16
  <2>2. From(owner, l) = p => Stops(streamViews', p)
    BY <1>16
  <2>3. l.src \in Groups => l.src \in Modules /\ (From(owner, l)[1] = "in" \/ From(owner, l)[1] = "out")
    BY NetworkAssumption DEF From
  <2>4. ASSUME l.src \in Groups, NEW x \in Y, From(owner, l) = Into(owner, x) PROVE l \in Y
    <3>1. From(owner, l) # p
      BY <2>2, <2>3, <2>4 DEF Stops
    <3>2. x \in X
      BY <2>4, <3>1
    <3>3. l \in X
      BY <2>1, <2>4, <3>2 DEF Reaches
    <3> QED BY <3>1, <3>3
  <2>5. ASSUME l.src \notin Groups, Verdict(streamViews', l.src) = "checked" PROVE l \in Y
    <3>1. From(owner, l) = <<"of", l.src, Root>> /\ From(owner, l)[2] = l.src
      BY <2>5 DEF From
    <3>2. From(owner, l) # p
      BY <2>2, <2>5, <3>1 DEF Stops
    <3>3. l.src # k.dst
      <4>1. l.src = k.dst => p = <<"of", l.src, Root>>
        BY <2>5 DEF Into
      <4> QED BY <3>1, <3>2, <4>1
    <3>4. l.src \in Modules \ Groups
      BY <1>0, <2>5 DEF Link
    <3>5. Verdict(streamViews, l.src) = "checked"
      BY <1>10, <2>5, <3>3, <3>4
    <3>6. l \in X
      BY <2>1, <2>5, <3>5 DEF Reaches
    <3> QED BY <3>2, <3>6
  <2> HIDE DEF Y
  <2> QED BY <2>4, <2>5
<1>18. Holds(Y, owner, links, streamViews')
  <2> SUFFICES ASSUME NEW l \in Y, Offer(owner, streamViews', l) # {},
                      Alone(owner, links, l)
               PROVE  streamViews'[Port(owner, l)] = Offer(owner, streamViews', l)
    BY DEF Holds
  <2>1. CASE l = k
    <3>1. Offer(owner, streamViews', k) = Offer(owner, streamViews, k)
      BY <1>5, <1>9
    <3> QED BY <1>6, <1>8, <2>1, <3>1
  <2>2. CASE l # k
    <3>1. l \in X /\ From(owner, l) # p /\ l \in links
      BY <2>2
    <3>2. Port(owner, l) # q
      BY <2>2 DEF Alone
    <3>3. Offer(owner, streamViews', l) = Offer(owner, streamViews, l)
      BY <1>9, <3>1
    <3>4. streamViews[Port(owner, l)] = Offer(owner, streamViews, l)
      <4>1. Alone(owner, links, l) /\ Offer(owner, streamViews, l) # {}
        BY <3>3
      <4> QED BY <3>1, <4>1 DEF Holds
    <3>5. Port(owner, l) \in Ports
      BY <1>0, <1>2, <3>1, TargetIs, OfferedIs
    <3> QED BY <1>8, <3>2, <3>3, <3>4, <3>5
  <2> QED BY <2>1, <2>2
<1>19. Y \in SUBSET links
  OBVIOUS
<1> HIDE DEF Y
<1> QED BY <1>17, <1>18, <1>19 DEF Settled

LEMMA ReturnStreams ==
  ASSUME NetInv, Return,
         Streaming(owner, links, streamViews, todo)
  PROVE  /\ Streaming(owner, links, streamViews, todo')
         /\ Settled(owner, links, streamViews, todo)
              => Settled(owner, links, streamViews, todo')
<1> DEFINE s == Tail(todo)
<1>1. /\ todo \in Seq(Calls(links)) /\ todo # <<>> /\ DOMAIN Head(todo).carry = {}
      /\ todo' = Told(s, Head(todo).ok)
  BY DEF NetInv, Typed, Return
<1>2. /\ s \in Seq(Calls(links)) /\ Head(todo) = todo[1]
      /\ \A i \in DOMAIN s : i + 1 \in DOMAIN todo /\ s[i] = todo[i + 1]
      /\ \A i \in DOMAIN todo : i = 1 \/ (i - 1 \in DOMAIN s /\ s[i - 1] = todo[i])
  BY <1>1
<1>3. todo' \in Seq(Calls(links))
  <2>1. NetInv' /\ links' = links
    BY ReturnNet DEF Return
  <2> QED BY <2>1 DEF NetInv, Typed
<1> HIDE DEF s
<1>4. DOMAIN todo' = DOMAIN s /\ \A i \in DOMAIN s : todo'[i].carry = s[i].carry
  BY <1>1, <1>2, ToldCarries
<1>5. Thins(todo', todo, 1)
  BY <1>2, <1>4 DEF Thins
<1>6. \A l : Awaits(todo, l) => Awaits(todo', l)
  BY <1>1, <1>2, <1>4 DEF Awaits
<1>7. Streaming(owner, links, streamViews, todo')
  BY <1>3, <1>5, ThinsWalks DEF Streaming
<1>8. \A X : Reaches(X, owner, links, streamViews, todo) =>
               Reaches(X, owner, links, streamViews, todo')
  BY <1>6 DEF Reaches
<1> QED BY <1>7, <1>8 DEF Settled

-----------------------------------------------------------------------------
(* Edits.  With no call running, the links that are left have handed on    *)
(* what they offer, but for those, Z, that lead on from a lost port.       *)

LEMMA NothingAwaits == \A l : ~ Awaits(<<>>, l)
BY DEF Awaits

LEMMA RestingStreams ==
  ASSUME NEW own, NEW ls, NEW sv, NEW r \in Ranks(own, ls)
  PROVE  Streaming(own, ls, sv, <<>>)
BY DEF Streaming, Nested, Ready

LEMMA SameOwners ==
  ASSUME NEW own, NEW own2, NEW l, own2[l.src] = own[l.src], own2[l.dst] = own[l.dst], NEW sv
  PROVE  /\ From(own2, l) = From(own, l) /\ Into(own2, l) = Into(own, l)
         /\ Port(own2, l) = Port(own, l) /\ Offer(own2, sv, l) = Offer(own, sv, l)
BY DEF From, Into, Port, Offer

LEMMA FewerRanks ==
  ASSUME NEW own, NEW own2, NEW ls, NEW ls2 \in SUBSET ls, NEW r \in Ranks(own, ls),
         \A l \in ls2 : own2[l.src] = own[l.src] /\ own2[l.dst] = own[l.dst]
  PROVE  r \in Ranks(own2, ls2)
BY SameOwners DEF Ranks

LosesOnly(Z, own, ls, ls2, sv, sv2) ==
  /\ \A l \in ls2 : l \notin Z =>
       /\ l.src \notin Groups /\ Verdict(sv2, l.src) = "checked"
            => Verdict(sv, l.src) = "checked"
       /\ Offer(own, sv2, l) = Offer(own, sv, l)
       /\ sv2[Port(own, l)] = sv[Port(own, l)]
       /\ Alone(own, ls2, l) => Alone(own, ls, l)
  /\ \A l \in ls2 : l \in Z =>
       IF l.src \in Groups THEN \A x \in ls2 : From(own, l) # Into(own, x)
       ELSE Verdict(sv2, l.src) # "checked"

LEMMA SettledStays ==
  ASSUME NEW own, NEW own2, NEW ls, NEW ls2 \in SUBSET ls, NEW sv, NEW sv2, NEW Z,
         Settled(own, ls, sv, <<>>), LosesOnly(Z, own, ls, ls2, sv, sv2),
         \A l \in ls2 : own2[l.src] = own[l.src] /\ own2[l.dst] = own[l.dst]
  PROVE  Settled(own2, ls2, sv2, <<>>)
<1> USE DEF LosesOnly
<1>1. PICK X \in SUBSET ls : Reaches(X, own, ls, sv, <<>>) /\ Holds(X, own, ls, sv)
  BY DEF Settled
<1> DEFINE Y == {l \in X : l \in ls2 /\ l \notin Z}
<1>2. \A l \in ls2 : /\ From(own2, l) = From(own, l) /\ Into(own2, l) = Into(own, l)
                     /\ Port(own2, l) = Port(own, l)
                     /\ Offer(own2, sv2, l) = Offer(own, sv2, l)
  BY SameOwners
<1>3. Reaches(Y, own2, ls2, sv2, <<>>)
  <2> SUFFICES ASSUME NEW l \in ls2
               PROVE  IF l.src \in Groups
                      THEN (\E x \in Y : From(own2, l) = Into(own2, x)) => l \in Y
                      ELSE Verdict(sv2, l.src) = "checked" => l \in Y
    BY DEF Reaches
  <2>1. IF l.src \in Groups THEN (\E x \in X : From(own, l) = Into(own, x)) => l \in X
        ELSE Verdict(sv, l.src) = "checked" => l \in X
    BY <1>1, NothingAwaits DEF Reaches
  <2>2. CASE l.src \in Groups
    <3> SUFFICES ASSUME NEW x \in Y, From(own2, l) = Into(own2, x) PROVE l \in Y
      BY <2>2
    <3>1. From(own, l) = Into(own, x) /\ x \in X /\ x \in ls2
      BY <1>2
    <3>2. l \in X /\ l \notin Z
      BY <2>1, <2>2, <3>1
    <3> QED BY <3>2
  <2>3. CASE l.src \notin Groups
    BY <2>1, <2>3
  <2> QED BY <2>2, <2>3
<1>4. Holds(Y, own2, ls2, sv2)
  <2> SUFFICES ASSUME NEW l \in Y, Offer(own2, sv2, l) # {}, Alone(own2, ls2, l)
               PROVE  sv2[Port(own2, l)] = Offer(own2, sv2, l)
    BY DEF Holds
  <2>1. Alone(own, ls2, l)
    BY <1>2 DEF Alone
  <2>2. Alone(own, ls, l) /\ Offer(own, sv, l) # {} /\ sv[Port(own, l)] = Offer(own, sv, l)
    BY <1>1, <1>2, <2>1 DEF Holds
  <2> QED BY <1>2, <2>2
<1>5. Y \in SUBSET ls2
  OBVIOUS
<1> HIDE DEF Y
<1> QED BY <1>3, <1>4, <1>5 DEF Settled

(* What the streams of a network come to, whatever is being called.        *)
StreamsInv ==
  /\ IsFiniteSet(links)
  /\ Streaming(owner, links, streamViews, todo)
  /\ patched \/ Settled(owner, links, streamViews, todo)

LEMMA NewModuleStreams ==
  ASSUME NetInv, StreamsInv, todo = <<>>, NEW m \in Modules \ Present, NEW parent,
         owner' = [owner EXCEPT ![m] = parent],
         UNCHANGED <<links, streamViews, todo, patched>>
  PROVE  StreamsInv'
<1>1. /\ Linked(links, owner, modules) /\ owner \in [Modules -> Groups \cup {Root}]
      /\ patched \in BOOLEAN
  BY DEF NetInv, Typed
<1>2. \A l \in links : owner'[l.src] = owner[l.src] /\ owner'[l.dst] = owner[l.dst]
  BY <1>1 DEF Linked, Present
<1>3. Settled(owner, links, streamViews, <<>>) => Settled(owner', links, streamViews, <<>>)
  <2> DEFINE Z == {}
             ls == links
  <2>1. LosesOnly(Z, owner, ls, ls, streamViews, streamViews) /\ ls \in SUBSET ls
    BY DEF LosesOnly
  <2> HIDE DEF Z, ls
  <2>2. \A l \in ls : owner'[l.src] = owner[l.src] /\ owner'[l.dst] = owner[l.dst]
    BY <1>2 DEF ls
  <2>3. Settled(owner, ls, streamViews, <<>>) => Settled(owner', ls, streamViews, <<>>)
    BY <2>1, <2>2, SettledStays
  <2> QED BY <2>3 DEF ls
<1>4. PICK r : r \in Ranks(owner, links)
  BY DEF StreamsInv, Streaming
<1>5. r \in Ranks(owner', links)
  BY <1>2, <1>4, FewerRanks
<1>6. Streaming(owner', links, streamViews, <<>>)
  BY <1>5, RestingStreams
<1> QED BY <1>3, <1>6 DEF StreamsInv

LEMMA RemoveModuleStreams ==
  ASSUME NetInv, StreamsInv, NEW m \in Modules, RemoveModule(m)
  PROVE  StreamsInv'
<1>1. /\ Linked(links, owner, modules) /\ owner \in [Modules -> Groups \cup {Root}]
      /\ links \in SUBSET Link /\ Ported(streamViews) /\ patched \in BOOLEAN
  BY DEF NetInv, Typed
<1>2. /\ links' = links \ LinksOf(m) /\ todo = <<>> /\ todo' = <<>>
      /\ streamViews' = [p \in Ports |-> IF p[2] = m THEN NULL ELSE streamViews[p]]
      /\ owner' = [owner EXCEPT ![m] = Root]
      /\ patched' = (patched \/ \E l \in LinksOf(m) : l.dst # m /\ StillServed(l))
  BY DEF RemoveModule
<1>3. \A l \in links' : l \in links /\ l.src # m /\ l.dst # m /\ l.src \in Modules
                        /\ l.dst \in Modules /\ Fits(owner, l) /\ l \in Link
  BY <1>1, <1>2 DEF LinksOf, Linked, Link
<1>4. \A l \in links' : owner'[l.src] = owner[l.src] /\ owner'[l.dst] = owner[l.dst]
  BY <1>1, <1>2, <1>3
<1>5. links' \in SUBSET links /\ IsFiniteSet(links')
  BY <1>2, FS_Subset DEF StreamsInv
<1>6. patched' \in BOOLEAN /\ (patched => patched')
  BY <1>1, <1>2
<1>7. ASSUME ~ patched', NEW l \in links'
      PROVE  /\ Verdict(streamViews', l.src) = Verdict(streamViews, l.src)
             /\ Offer(owner, streamViews', l) = Offer(owner, streamViews, l)
             /\ streamViews'[Port(owner, l)] = streamViews[Port(owner, l)]
             /\ Alone(owner, links', l) => Alone(owner, links, l)
  <2>1. \A s \in InPorts[l.src] : streamViews'[<<"in", l.src, s>>] = streamViews[<<"in", l.src, s>>]
    BY <1>2, <1>3, InPortIs
  <2>2. Verdict(streamViews', l.src) = Verdict(streamViews, l.src)
    BY <1>3, <2>1, VerdictSame
  <2>3. Offer(owner, streamViews', l) = Offer(owner, streamViews, l)
    <3>1. CASE l.src \in Groups
      <4>1. From(owner, l) \in Ports /\ From(owner, l)[2] # m
        BY <1>3, <3>1, FromPort DEF From
      <4>2. streamViews'[From(owner, l)] = streamViews[From(owner, l)]
        BY <1>2, <4>1
      <4> QED BY <3>1, <4>2 DEF Offer
    <3>2. CASE l.src \notin Groups
      BY <2>1, <3>2 DEF Offer, Updated
    <3> QED BY <3>1, <3>2
  <2>4. streamViews'[Port(owner, l)] = streamViews[Port(owner, l)]
    <3>1. Port(owner, l) \in Ports /\ Port(owner, l)[2] # m
      <4>1. Port(owner, l) \in Ports
        BY <1>1, <1>3, TargetIs, OfferedIs
      <4> QED BY <1>3, <4>1 DEF Port
    <3> QED BY <1>2, <3>1
  <2>5. ASSUME Alone(owner, links', l) PROVE Alone(owner, links, l)
    <3> SUFFICES ASSUME NEW k \in links, Port(owner, k) = Port(owner, l) PROVE k = l
      BY DEF Alone
    <3>1. k.dst = l.dst /\ k.in = l.in
      BY DEF Port
    <3>2. ASSUME k # l, k \notin links' PROVE FALSE
      <4>1. k \in LinksOf(m) /\ k.dst # m
        BY <1>2, <1>3, <3>1, <3>2
      <4>2. StillServed(k)
        BY <1>3, <3>1, <3>2 DEF StillServed
      <4> QED BY <1>2, <1>7, <4>1, <4>2
    <3> QED BY <2>5, <3>2 DEF Alone
  <2> QED BY <2>2, <2>3, <2>4, <2>5
<1>8. patched' \/ Settled(owner', links', streamViews', <<>>)
  <2> DEFINE Z == {}
  <2>1. ~ patched' => Settled(owner, links, streamViews, <<>>)
    BY <1>2 DEF StreamsInv
  <2>2. ~ patched' => LosesOnly(Z, owner, links, links', streamViews, streamViews')
    BY <1>7 DEF LosesOnly
  <2> HIDE DEF Z
  <2> QED BY <1>4, <1>5, <2>1, <2>2, SettledStays
<1>9. PICK r : r \in Ranks(owner, links)
  BY DEF StreamsInv, Streaming
<1>10. r \in Ranks(owner', links')
  BY <1>4, <1>5, <1>9, FewerRanks
<1>11. Streaming(owner', links', streamViews', <<>>)
  BY <1>10, RestingStreams
<1> QED BY <1>2, <1>5, <1>8, <1>11 DEF StreamsInv

LEMMA RemoveLinkStreams ==
  ASSUME NetInv, StreamsInv, NEW k \in links, RemoveLink(k)
  PROVE  StreamsInv'
<1> DEFINE p == <<"in", k.dst, k.in>>
           Z == {l \in links : l.src = k.dst /\ (k.dst \in Groups => From(owner, l) = p)}
<1>1. /\ Linked(links, owner, modules) /\ owner \in [Modules -> Groups \cup {Root}]
      /\ links \in SUBSET Link /\ Ported(streamViews) /\ patched \in BOOLEAN
  BY DEF NetInv, Typed
<1>2. /\ links' = links \ {k} /\ todo = <<>> /\ owner' = owner
      /\ streamViews' = [streamViews EXCEPT ![p] = NULL]
      /\ patched' = (patched \/ StillServed(k))
      /\ CheckModule(links', streamViews', status, k.dst, <<>>)
  BY DEF RemoveLink, Forgotten
<1>3. /\ k.dst \in Modules /\ k.src \in Modules /\ k \in Link /\ Fits(owner, k)
      /\ \A l \in links : l \in Link /\ Fits(owner, l) /\ l.src \in Modules /\ l.dst \in Modules
  BY <1>1 DEF Linked, Link
<1>4. k.in \in InPorts[k.dst] /\ p \in Ports
  <2>1. k.in \in InPorts[k.dst]
    <3>1. CASE owner[k.src] = k.dst
      <4>1. k.dst \in Groups /\ k.in \in OutPorts[k.dst]
        BY <1>1, <1>3, <3>1, NetworkAssumption DEF Fits
      <4> QED BY <4>1, PortAssumption
    <3>2. CASE owner[k.src] # k.dst
      BY <1>3, <3>2 DEF Fits
    <3> QED BY <3>1, <3>2
  <2> QED BY <1>3, <2>1, InPortIs
<1>5. streamViews'[p] = NULL /\ \A x \in Ports : x # p => streamViews'[x] = streamViews[x]
  BY <1>1, <1>2, <1>4 DEF Ported
<1>6. Verdict(streamViews', k.dst) = "untouched" /\ todo' = <<>>
  <2>1. Verdict(streamViews', k.dst) = "untouched"
    BY <1>4, <1>5 DEF Verdict
  <2>2. todo' = Told(<<>>, TRUE)
    BY <1>2, <2>1 DEF CheckModule
  <2> QED BY <2>1, <2>2 DEF Told
<1>7. patched' \in BOOLEAN /\ (patched => patched') /\ links' \in SUBSET links
      /\ IsFiniteSet(links') /\ \A l \in links : owner'[l.src] = owner[l.src] /\ owner'[l.dst] = owner[l.dst]
  BY <1>1, <1>2, FS_Subset DEF StreamsInv
<1> HIDE DEF p
<1>8. ASSUME ~ patched', NEW l \in links', l \notin Z
      PROVE  /\ l.src \notin Groups /\ Verdict(streamViews', l.src) = "checked"
                  => Verdict(streamViews, l.src) = "checked"
             /\ Offer(owner, streamViews', l) = Offer(owner, streamViews, l)
             /\ streamViews'[Port(owner, l)] = streamViews[Port(owner, l)]
             /\ Alone(owner, links', l) => Alone(owner, links, l)
  <2>0. l \in links /\ l # k /\ p = <<"in", k.dst, k.in>>
    BY <1>2 DEF p
  <2>1. ~ (l.dst = k.dst /\ l.in = k.in)
    BY <1>2, <1>8, <2>0 DEF StillServed
  <2>2. Port(owner, l) # p /\ Port(owner, l) \in Ports
    <3>1. Port(owner, l) \in Ports
      BY <1>1, <1>3, <2>0, TargetIs, OfferedIs
    <3> QED BY <2>0, <2>1, <3>1 DEF Port
  <2>3. ASSUME l.src # k.dst
        PROVE  /\ \A s \in InPorts[l.src] :
                    streamViews'[<<"in", l.src, s>>] = streamViews[<<"in", l.src, s>>]
    <3>1. \A s \in InPorts[l.src] : <<"in", l.src, s>> \in Ports /\ <<"in", l.src, s>> # p
      BY <1>3, <2>0, <2>3, InPortIs
    <3> QED BY <1>5, <3>1
  <2>4. l.src \notin Groups /\ Verdict(streamViews', l.src) = "checked"
          => Verdict(streamViews, l.src) = "checked"
    <3>1. CASE l.src = k.dst
      BY <1>6, <3>1
    <3>2. CASE l.src # k.dst
      BY <1>3, <2>0, <2>3, <3>2, VerdictSame
    <3> QED BY <3>1, <3>2
  <2>5. Offer(owner, streamViews', l) = Offer(owner, streamViews, l)
    <3>1. CASE l.src \in Groups
      <4>1. From(owner, l) \in Ports
        BY <1>3, <2>0, <3>1, FromPort
      <4>2. From(owner, l) # p
        <5>1. From(owner, l)[2] = l.src /\ p[2] = k.dst
          BY <2>0 DEF From
        <5> QED BY <1>8, <2>0, <3>1, <5>1
      <4> QED BY <1>5, <3>1, <4>1, <4>2 DEF Offer
    <3>2. CASE l.src \notin Groups
      <4>1. l.src # k.dst
        BY <1>8, <2>0, <3>2
      <4> QED BY <2>3, <3>2, <4>1 DEF Offer, Updated
    <3> QED BY <3>1, <3>2
  <2>6. ASSUME Alone(owner, links', l) PROVE Alone(owner, links, l)
    <3>1. Port(owner, k) # Port(owner, l)
      BY <2>1 DEF Port
    <3> QED BY <1>2, <2>6, <3>1 DEF Alone
  <2> QED BY <1>5, <2>2, <2>4, <2>5, <2>6
<1>9. ASSUME ~ patched', NEW l \in links', l \in Z
      PROVE  IF l.src \in Groups THEN \A x \in links' : From(owner, l) # Into(owner, x)
             ELSE Verdict(streamViews', l.src) # "checked"
  <2>1. CASE l.src \in Groups
    <3> SUFFICES ASSUME NEW x \in links', From(owner, l) = Into(owner, x) PROVE FALSE
      BY <2>1
    <3>1. Into(owner, x) = <<"in", k.dst, k.in>>
      BY <1>9, <2>1 DEF p
    <3>2. x.dst = k.dst /\ x.in = k.in
      <4>1. x.dst \in Groups
        <5>1. x.dst \notin Groups => Into(owner, x)[1] = "of"
          BY DEF Into
        <5> QED BY <3>1, <5>1
      <4> QED BY <3>1, <4>1 DEF Into
    <3> QED BY <1>2, <1>9, <3>2 DEF StillServed
  <2>2. CASE l.src \notin Groups
    BY <1>6, <1>9, <2>2
  <2> QED BY <2>1, <2>2
<1>10. patched' \/ Settled(owner, links', streamViews', <<>>)
  <2>1. ~ patched' => Settled(owner, links, streamViews, <<>>)
    BY <1>2 DEF StreamsInv
  <2> HIDE DEF Z
  <2>2. ~ patched' => LosesOnly(Z, owner, links, links', streamViews, streamViews')
    BY <1>8, <1>9 DEF LosesOnly
  <2>3. \A l \in links' : owner[l.src] = owner[l.src] /\ owner[l.dst] = owner[l.dst]
    OBVIOUS
  <2> QED BY <1>7, <2>1, <2>2, <2>3, SettledStays
<1>11. PICK r : r \in Ranks(owner, links)
  BY DEF StreamsInv, Streaming
<1>12. r \in Ranks(owner, links')
  BY <1>7, <1>11, FewerRanks
<1>13. Streaming(owner, links', streamViews', <<>>)
  BY <1>12, RestingStreams
<1> QED BY <1>2, <1>6, <1>7, <1>10, <1>13 DEF StreamsInv

LEMMA OfferIs ==
  ASSUME NEW own, NEW sv, Ported(sv), NEW l \in Link, Fits(own, l)
  PROVE  Offer(own, sv, l) \in SUBSET Views
<1>1. l.src \in Modules
  BY DEF Link
<1> QED BY <1>1, EnteredIs, UpdatedIs, FromPort DEF Offer

LEMMA AddLinkStreams ==
  ASSUME NetInv, StreamsInv, NEW l \in Link, AddLink(l)
  PROVE  StreamsInv'
<1> DEFINE ls == links \cup {l}
           p  == From(owner, l)
<1>0. /\ Ported(streamViews) /\ Linked(links, owner, modules) /\ links \in SUBSET Link
      /\ owner \in [Modules -> Groups \cup {Root}] /\ status \in [Modules -> Status]
  BY DEF NetInv, Typed
<1>1. /\ links' = ls /\ todo = <<>> /\ EndsIn(owner, ls) /\ owner' = owner /\ patched' = patched
      /\ IF l.src \in Groups
         THEN /\ streamViews' = [streamViews EXCEPT ![p] = Entered(@)]
              /\ CheckGroup(ls, streamViews, l.src, l.out, p[1], <<>>)
         ELSE /\ streamViews' = streamViews
              /\ CheckModule(ls, streamViews, status, l.src, <<>>)
  BY DEF AddLink, Acyclic, From, IsIntoGroup
<1>2. NetInv'
  BY AddLinkNet
<1>3. /\ ls \in SUBSET Link /\ IsFiniteSet(ls) /\ p \in Nodes /\ l.src \in Modules
      /\ \A x \in ls : x \in Link /\ Fits(owner, x) /\ x.src \in Modules
      /\ todo' \in Seq(Calls(ls))
  <2>1. IsFiniteSet(ls)
    BY FS_AddElement DEF StreamsInv
  <2>2. \A x \in ls : Fits(owner, x)
    BY <1>1, <1>2 DEF NetInv, Linked
  <2>3. todo' \in Seq(Calls(ls))
    BY <1>1, <1>2 DEF NetInv, Typed
  <2> QED BY <1>0, <2>1, <2>2, <2>3, NodesAre DEF Link
<1>4. PICK r : r \in Ranks(owner, ls)
  <2> HIDE DEF ls
  <2> QED BY <1>1, <1>3, RanksExist
<1>5. Enters(owner, ls, streamViews, p, <<>>, todo')
  <2>1. CASE l.src \in Groups
    <3> DEFINE g == l.src
               s == l.out
               side == p[1]
    <3>1. g \in Groups /\ side \in {"in", "out"} /\ p = <<side, g, s>>
          /\ CheckGroup(ls, streamViews, g, s, side, <<>>)
      BY <1>1, <2>1 DEF From
    <3> HIDE DEF g, s, side, ls, p
    <3> QED BY <1>3, <3>1, CheckGroupEnters
  <2>2. CASE l.src \notin Groups
    <3> DEFINE m == l.src
    <3>1. m \in Modules \ Groups /\ p = <<"of", m, Root>>
          /\ CheckModule(ls, streamViews, status, m, <<>>)
      BY <1>1, <1>3, <2>2 DEF From
    <3> HIDE DEF m, ls, p
    <3> QED BY <1>0, <1>3, <3>1, CheckModuleEnters
  <2> QED BY <2>1, <2>2
<1>6. /\ Nested(r, owner, todo') /\ Ready(owner, streamViews, todo')
      /\ \A x \in ls : From(owner, x) = p => Awaits(todo', x) \/ Stops(streamViews, p)
  <2> DEFINE none == <<>>
  <2>1. Nested(r, owner, none) /\ Ready(owner, streamViews, none)
        /\ \A x : Awaits(none, x) => r[p] <= r[From(owner, x)] \/ InPorts[x.src] = {}
    BY DEF Nested, Ready, Awaits
  <2>2. none \in Seq(Calls(ls)) /\ Enters(owner, ls, streamViews, p, none, todo')
    BY <1>5
  <2> HIDE DEF ls, p, none
  <2> QED BY <1>3, <1>4, <2>1, <2>2, EntersWalks
<1>7. \A q \in Ports : \/ streamViews'[q] = streamViews[q]
                       \/ /\ l.src \in Groups /\ q = p
                          /\ streamViews[q] = NULL /\ streamViews'[q] = {}
  <2>1. DOMAIN streamViews = Ports
    BY <1>0 DEF Ported
  <2>2. CASE l.src \notin Groups
    BY <1>1, <2>2
  <2>3. CASE l.src \in Groups
    <3>1. streamViews' = [streamViews EXCEPT ![p] = Entered(streamViews[p])]
      BY <1>1, <2>3
    <3> HIDE DEF p
    <3>2. \A q \in Ports : q # p => streamViews'[q] = streamViews[q]
      BY <2>1, <3>1
    <3>3. p \in Ports => streamViews'[p] = Entered(streamViews[p])
      BY <2>1, <3>1
    <3> QED BY <2>3, <3>2, <3>3 DEF Entered
  <2> QED BY <2>2, <2>3
<1>8. \A q \in Ports : Entered(streamViews'[q]) = Entered(streamViews[q])
  <2>1. Entered(NULL) = {} /\ Entered({}) = {}
    BY DEF Entered
  <2> HIDE DEF p
  <2> QED BY <1>7, <2>1
<1>9. \A x \in ls : Offer(owner, streamViews', x) = Offer(owner, streamViews, x)
  <2> SUFFICES ASSUME NEW x \in ls
               PROVE  Offer(owner, streamViews', x) = Offer(owner, streamViews, x)
    OBVIOUS
  <2>1. CASE x.src \in Groups
    BY <1>3, <1>8, <2>1, FromPort DEF Offer
  <2>2. CASE x.src \notin Groups
    <3>1. x.out \in InPorts[x.src] =>
            Entered(streamViews'[<<"in", x.src, x.out>>]) = Entered(streamViews[<<"in", x.src, x.out>>])
      BY <1>3, <1>8, InPortIs
    <3> QED BY <2>2, <3>1 DEF Offer, Updated
  <2> QED BY <2>1, <2>2
<1>10. Ready(owner, streamViews', todo')
  <2> SUFFICES ASSUME NEW i \in DOMAIN todo', NEW x \in DOMAIN todo'[i].carry
               PROVE  todo'[i].carry[x] = Offer(owner, streamViews', x)
    BY DEF Ready
  <2>1. x \in ls
    <3>1. Awaits(todo', x)
      BY DEF Awaits
    <3> HIDE DEF ls
    <3> QED BY <1>3, <3>1, AwaitsLinks
  <2> HIDE DEF ls
  <2> QED BY <1>6, <1>9, <2>1 DEF Ready
<1>11. \A m \in Modules \ Groups : Verdict(streamViews', m) = Verdict(streamViews, m)
  <2>1. \A m \in Modules \ Groups : \A s \in InPorts[m] :
          <<"in", m, s>> \in Ports /\ (l.src \in Groups => <<"in", m, s>> # p)
    BY InPortIs DEF From
  <2> HIDE DEF p
  <2>2. \A m \in Modules \ Groups : \A s \in InPorts[m] :
          streamViews'[<<"in", m, s>>] = streamViews[<<"in", m, s>>]
    BY <1>7, <2>1
  <2> QED BY <2>2, VerdictSame
<1>12. ASSUME Settled(owner, links, streamViews, <<>>)
       PROVE  Settled(owner, ls, streamViews', todo')
  <2>1. PICK X \in SUBSET links : /\ Reaches(X, owner, links, streamViews, <<>>)
                                  /\ Holds(X, owner, links, streamViews)
    BY <1>12 DEF Settled
  <2>2. Reaches(X, owner, ls, streamViews', todo')
    <3> SUFFICES ASSUME NEW x \in ls, ~ Awaits(todo', x)
                 PROVE  IF x.src \in Groups
                        THEN (\E y \in X : From(owner, x) = Into(owner, y)) => x \in X
                        ELSE Verdict(streamViews', x.src) = "checked" => x \in X
      BY DEF Reaches
    <3>1. x.src \notin Groups => Verdict(streamViews', x.src) = Verdict(streamViews, x.src)
      BY <1>3, <1>11
    <3>2. CASE x \in links
      <4>1. IF x.src \in Groups
            THEN (\E y \in X : From(owner, x) = Into(owner, y)) => x \in X
            ELSE Verdict(streamViews, x.src) = "checked" => x \in X
        BY <2>1, <3>2, NothingAwaits DEF Reaches
      <4> QED BY <3>1, <4>1
    <3>3. CASE x = l
      <4>1. Stops(streamViews, p)
        BY <1>6, <3>3
      <4>2. l.src \notin Groups /\ p = <<"of", l.src, Root>>
        <5>1. l.src \in Groups => p[1] # "of"
          BY DEF From
        <5> QED BY <4>1, <5>1 DEF Stops, From
      <4>3. Verdict(streamViews, l.src) # "checked"
        BY <4>1, <4>2 DEF Stops
      <4> QED BY <3>1, <3>3, <4>2, <4>3
    <3> QED BY <3>2, <3>3
  <2>3. Holds(X, owner, ls, streamViews')
    <3> SUFFICES ASSUME NEW x \in X, Offer(owner, streamViews', x) # {}, Alone(owner, ls, x)
                 PROVE  streamViews'[Port(owner, x)] = Offer(owner, streamViews', x)
      BY DEF Holds
    <3>1. x \in ls /\ Offer(owner, streamViews', x) = Offer(owner, streamViews, x)
      BY <1>9
    <3>2. Alone(owner, links, x)
      BY DEF Alone
    <3>3. streamViews[Port(owner, x)] = Offer(owner, streamViews, x)
      BY <2>1, <3>1, <3>2 DEF Holds
    <3>4. Offer(owner, streamViews, x) # NULL
      <4>1. Offer(owner, streamViews, x) \in SUBSET Views
        BY <1>0, <1>3, <3>1, OfferIs
      <4> QED BY <4>1, NetworkAssumption
    <3>5. Port(owner, x) \in Ports
      BY <1>0, <1>3, <3>1, TargetIs, OfferedIs
    <3> QED BY <1>7, <3>1, <3>3, <3>4, <3>5
  <2>4. X \in SUBSET ls
    OBVIOUS
  <2> HIDE DEF ls
  <2> QED BY <2>2, <2>3, <2>4 DEF Settled
<1> HIDE DEF ls
<1>13. Streaming(owner, ls, streamViews', todo')
  BY <1>4, <1>6, <1>10 DEF Streaming
<1>14. patched' \/ Settled(owner, ls, streamViews', todo')
  BY <1>1, <1>12 DEF StreamsInv
<1> QED BY <1>1, <1>3, <1>13, <1>14 DEF StreamsInv

(* checkStream serves the links of every module without in-ports.          *)
LEMMA CheckStreamServes ==
  ASSUME NEW ls \in SUBSET Link, NEW sv, NEW st, NEW r,
         owner \in [Modules -> Groups \cup {Root}], modules \in Seq(Modules),
         Linked(ls, owner, modules), Ported(sv), r \in Ranks(owner, ls), CheckStream(ls, sv, st)
  PROVE  /\ Streaming(owner, ls, sv, todo')
         /\ \A l \in ls : InPorts[l.src] = {} => Awaits(todo', l)
<1>1. /\ Sources \in Seq(Modules)
      /\ ToSet(Sources) = Present \cap {m \in Modules : InPorts[m] = {}}
  BY KeptIs DEF Sources, Present
<1>2. /\ todo' = [i \in DOMAIN Sources |-> ModuleCall(ls, sv, Sources[i])]
      /\ DOMAIN Sources = 1..Len(Sources) /\ Len(Sources) \in Nat
  BY <1>1 DEF CheckStream
<1>3. \A i \in DOMAIN Sources : Sources[i] \in Modules /\ InPorts[Sources[i]] = {}
  BY <1>1 DEF ToSet
<1>4. \A l \in ls : l.src \in Modules /\ Fits(owner, l) /\ l.src \in Present
  BY DEF Linked, Link, Present
<1>5. ASSUME NEW m \in Modules, InPorts[m] = {}
      PROVE  LET c == ModuleCall(ls, sv, m) IN
             /\ \A l \in DOMAIN c.carry : l.src = m /\ c.carry[l] = Offer(owner, sv, l)
             /\ \A l \in ls : l.src = m => l \in DOMAIN c.carry
  <2> DEFINE c == ModuleCall(ls, sv, m)
  <2>1. CASE m \in Groups
    <3>1. \A l \in ls : l.src # m
      BY <1>4, <1>5, <2>1, PortAssumption DEF Fits
    <3>2. DOMAIN c.carry = {}
      BY <3>1 DEF ModuleCall, Outgoing
    <3> QED BY <3>1, <3>2
  <2>2. CASE m \notin Groups
    <3>1. Verdict(sv, m) = "checked"
      <4>1. \A a \in Asks[m] : FALSE
        BY <1>5, PortAssumption
      <4> QED BY <1>5, <4>1 DEF Verdict
    <3>2. Hands(c, owner, ls, sv, <<"of", m, Root>>)
      BY <1>4, <2>2, <3>1, ModuleCallHands
    <3>3. \A l \in ls : From(owner, l) = <<"of", m, Root>> <=> l.src = m
      <4> SUFFICES ASSUME NEW l \in ls PROVE From(owner, l) = <<"of", m, Root>> <=> l.src = m
        OBVIOUS
      <4>1. CASE l.src \in Groups
        <5>1. From(owner, l)[1] # "of"
          BY <4>1 DEF From
        <5> QED BY <2>2, <4>1, <5>1
      <4>2. CASE l.src \notin Groups
        BY <4>2 DEF From
      <4> QED BY <4>1, <4>2
    <3> HIDE DEF c
    <3>4. /\ \A l \in DOMAIN c.carry : l.src = m /\ c.carry[l] = Offer(owner, sv, l)
          /\ \A l \in ls : l.src = m => l \in DOMAIN c.carry
      BY <3>2, <3>3 DEF Hands
    <3> QED BY <3>4 DEF c
  <2> QED BY <2>1, <2>2
<1>6. \A i \in DOMAIN todo' :
        /\ \A l \in DOMAIN todo'[i].carry :
             l.src = Sources[i] /\ todo'[i].carry[l] = Offer(owner, sv, l)
        /\ \A l \in ls : l.src = Sources[i] => l \in DOMAIN todo'[i].carry
  BY <1>2, <1>3, <1>5
<1>7. DOMAIN todo' = DOMAIN Sources
  BY <1>2
<1>8. Nested(r, owner, todo') /\ Ready(owner, sv, todo')
  BY <1>3, <1>6, <1>7 DEF Nested, Ready
<1>9. \A l \in ls : InPorts[l.src] = {} => Awaits(todo', l)
  <2> SUFFICES ASSUME NEW l \in ls, InPorts[l.src] = {} PROVE Awaits(todo', l)
    OBVIOUS
  <2>1. PICK i \in DOMAIN Sources : Sources[i] = l.src
    <3>1. l.src \in ToSet(Sources)
      BY <1>1, <1>4
    <3> QED BY <3>1 DEF ToSet
  <2> QED BY <1>6, <1>7, <2>1 DEF Awaits
<1> QED BY <1>8, <1>9 DEF Streaming

LEMMA RecheckStreams ==
  ASSUME NetInv, StreamsInv, Recheck
  PROVE  StreamsInv'
<1>1. /\ Linked(links, owner, modules) /\ owner \in [Modules -> Groups \cup {Root}]
      /\ links \in SUBSET Link /\ Ported(streamViews) /\ modules \in Seq(Modules)
  BY DEF NetInv, Typed
<1>2. /\ todo = <<>> /\ CheckStream(links, streamViews, status)
      /\ UNCHANGED <<modules, owner, links, streamViews, patched>>
  BY DEF Recheck
<1>3. PICK r : r \in Ranks(owner, links)
  BY DEF StreamsInv, Streaming
<1>4. Streaming(owner, links, streamViews, todo')
  BY <1>1, <1>2, <1>3, CheckStreamServes
<1>5. \A X : Reaches(X, owner, links, streamViews, <<>>) =>
               Reaches(X, owner, links, streamViews, todo')
  BY NothingAwaits DEF Reaches
<1>6. Settled(owner, links, streamViews, <<>>) => Settled(owner, links, streamViews, todo')
  BY <1>5 DEF Settled
<1> QED BY <1>2, <1>4, <1>6 DEF StreamsInv

(* Where no in-port holds anything, checkStream begins with everything     *)
(* still to be handed on.                                                  *)
LEMMA AllAnew ==
  ASSUME NEW ls \in SUBSET Link, IsFiniteSet(ls), NEW sv, NEW st, NEW r,
         owner \in [Modules -> Groups \cup {Root}], modules \in Seq(Modules),
         Linked(ls, owner, modules), Ported(sv), r \in Ranks(owner, ls), CheckStream(ls, sv, st),
         \A m \in Modules : \A s \in InPorts[m] : sv[<<"in", m, s>>] = NULL
  PROVE  Streaming(owner, ls, sv, todo') /\ Settled(owner, ls, sv, todo')
<1>1. /\ Streaming(owner, ls, sv, todo')
      /\ \A l \in ls : InPorts[l.src] = {} => Awaits(todo', l)
  BY CheckStreamServes
<1>2. \A l \in ls : InPorts[l.src] # {} => Verdict(sv, l.src) = "untouched"
  <2>1. \A l \in ls : l.src \in Modules
    BY DEF Link
  <2> QED BY <2>1, VerdictOfNothing
<1>3. Reaches({}, owner, ls, sv, todo') /\ Holds({}, owner, ls, sv)
  BY <1>1, <1>2 DEF Reaches, Holds
<1> QED BY <1>1, <1>3 DEF Settled

LEMMA ResetStreams ==
  ASSUME NetInv, StreamsInv, ResetNetwork
  PROVE  StreamsInv'
<1> DEFINE st == [m \in Modules |-> "untouched"]
<1>1. /\ Linked(links, owner, modules) /\ owner \in [Modules -> Groups \cup {Root}]
      /\ links \in SUBSET Link /\ Ported(streamViews) /\ modules \in Seq(Modules)
      /\ IsFiniteSet(links)
  BY DEF NetInv, Typed, StreamsInv
<1>2. /\ streamViews' = Cleared /\ CheckStream(links, Cleared, st)
      /\ UNCHANGED <<modules, owner, links>>
  BY DEF ResetNetwork
<1>3. PICK r : r \in Ranks(owner, links)
  BY DEF StreamsInv, Streaming
<1>4. Ported(Cleared)
  BY <1>1 DEF Ported, Cleared
<1>5. \A m \in Modules : \A s \in InPorts[m] : Cleared[<<"in", m, s>>] = NULL
  BY InPortIs DEF Cleared
<1> HIDE DEF st
<1>6. Streaming(owner, links, Cleared, todo') /\ Settled(owner, links, Cleared, todo')
  BY <1>1, <1>2, <1>3, <1>4, <1>5, AllAnew
<1> QED BY <1>1, <1>2, <1>6 DEF StreamsInv

-----------------------------------------------------------------------------
(* Saving and loading.  A file can be ranked, one written from a network   *)
(* that can be ranked too; while it is loaded, the modules have the owners *)
(* it gives them, and no port holds anything.                              *)

Rankable(f) == IsFiniteSet(f.links) /\ \E r : r \in Ranks(OwnerIn(f), Between(f))

StreamsFileInv ==
  /\ FileInv
  /\ phase \in {"edit", "loaded"} => StreamsInv
  /\ phase \in {"saved", "cleared", "entries", "links"} => Rankable(file)
  /\ phase \in {"cleared", "entries", "links"} =>
       \A m \in Modules : \A s \in InPorts[m] : streamViews[<<"in", m, s>>] = NULL
  /\ phase \in {"entries", "links"} =>
       \A m \in Present : m \in Listed(file) /\ owner[m] = OwnerIn(file)[m]
  /\ phase = "links" => links \subseteq file.links

LEMMA OwnerIs ==
  ASSUME NEW f, IsFile(f), NEW e \in ToSet(f.entries)
  PROVE  e.id \in Listed(f) /\ OwnerIn(f)[e.id] = e.group
<1>1. e.id \in Listed(f) /\ e \in Entry
  BY DEF Listed, IsFile, ToSet
<1>2. e.id \in Modules
  BY <1>1 DEF Entry
<1>3. \A x \in ToSet(f.entries) : x.id = e.id => x = e
  BY DEF IsFile, ToSet
<1>4. (CHOOSE x \in ToSet(f.entries) : x.id = e.id) = e
  BY <1>3
<1> QED BY <1>1, <1>2, <1>4 DEF OwnerIn

LEMMA FilesRankable == \A f \in Files : Rankable(f)
<1> SUFFICES ASSUME NEW f \in Files PROVE Rankable(f)
  OBVIOUS
<1> DEFINE ls == Between(f)
           own == OwnerIn(f)
<1>1. ls \in SUBSET f.links /\ ls \in SUBSET Link
  BY FileAssumption DEF IsFile, Between
<1>2. IsFiniteSet(f.links) /\ EndsIn(own, ls)
  BY CycleAssumption
<1>3. IsFiniteSet(ls)
  BY <1>1, <1>2, FS_Subset
<1> HIDE DEF ls, own
<1>4. \E r : r \in Ranks(own, ls)
  BY <1>1, <1>2, <1>3, RanksExist
<1> QED BY <1>2, <1>4 DEF Rankable, ls, own

LEMMA InitStreams == Init => StreamsFileInv
<1> SUFFICES ASSUME Init PROVE StreamsFileInv
  OBVIOUS
<1>1. /\ FileInv /\ phase = "edit" /\ links = {} /\ todo = <<>>
  BY InitFile DEF Init, NetworkInit
<1> DEFINE r == [p \in Nodes |-> 0]
<1>2. r \in Ranks(owner, {})
  BY DEF Ranks
<1> HIDE DEF r
<1>3. Streaming(owner, {}, streamViews, <<>>)
  BY <1>2, RestingStreams
<1>4. Settled(owner, {}, streamViews, <<>>)
  <2>1. Reaches({}, owner, {}, streamViews, <<>>) /\ Holds({}, owner, {}, streamViews)
    BY DEF Reaches, Holds
  <2> QED BY <2>1 DEF Settled
<1>5. IsFiniteSet({})
  BY FS_EmptySet
<1> QED BY <1>1, <1>3, <1>4, <1>5 DEF StreamsFileInv, StreamsInv

LEMMA EditStreams ==
  ASSUME StreamsFileInv, Edit
  PROVE  StreamsFileInv'
<1>1. FileInv /\ NetInv /\ StreamsInv /\ phase' = "edit"
  BY DEF StreamsFileInv, FileInv, Edit, Editing
<1>2. FileInv'
  BY <1>1, EditFile
<1>3. StreamsInv'
  <2>1. ASSUME NEW m \in Modules, NEW parent, AddModule(m, parent) PROVE StreamsInv'
    <3>1. m \in Modules \ Present
      BY <2>1 DEF AddModule
    <3> QED BY <1>1, <2>1, <3>1, NewModuleStreams DEF AddModule
  <2>2. ASSUME NEW m \in Modules, RemoveModule(m) PROVE StreamsInv'
    BY <1>1, <2>2, RemoveModuleStreams
  <2>3. ASSUME NEW l \in Offers, AddLink(l) PROVE StreamsInv'
    BY <1>1, <2>3, AddLinkStreams, FileAssumption
  <2>4. ASSUME NEW l \in links, RemoveLink(l) PROVE StreamsInv'
    BY <1>1, <2>4, RemoveLinkStreams
  <2>5. Recheck => StreamsInv'
    BY <1>1, RecheckStreams
  <2>6. ResetNetwork => StreamsInv'
    BY <1>1, ResetStreams
  <2> QED BY <2>1, <2>2, <2>3, <2>4, <2>5, <2>6 DEF Edit
<1> QED BY <1>1, <1>2, <1>3 DEF StreamsFileInv

LEMMA SaveStreams ==
  ASSUME StreamsFileInv, Save
  PROVE  StreamsFileInv'
<1>1. /\ FileInv /\ NetInv /\ StreamsInv /\ phase' = "saved" /\ UNCHANGED network
  BY DEF StreamsFileInv, FileInv, Save
<1>2. FileInv' /\ IsFile(file')
  BY <1>1, SaveFile DEF FileInv, FileTyped
<1>3. /\ modules \in Seq(Modules) /\ links \in SUBSET Link
      /\ owner \in [Modules -> Groups \cup {Root}] /\ Linked(links, owner, modules)
  BY <1>1 DEF NetInv, Typed
<1>4. /\ file'.links = links
      /\ \A i \in DOMAIN modules : i \in DOMAIN file'.entries
           /\ file'.entries[i].id = modules[i] /\ file'.entries[i].group = owner[modules[i]]
  BY DEF Save
<1>5. \A m \in Present : OwnerIn(file')[m] = owner[m]
  <2> SUFFICES ASSUME NEW i \in DOMAIN modules PROVE OwnerIn(file')[modules[i]] = owner[modules[i]]
    BY DEF Present, ToSet
  <2> DEFINE f == file'
             e == f.entries[i]
  <2>1. IsFile(f) /\ e \in ToSet(f.entries) /\ e.id = modules[i] /\ e.group = owner[modules[i]]
    BY <1>2, <1>4 DEF ToSet
  <2> HIDE DEF f, e
  <2>2. OwnerIn(f)[e.id] = e.group
    BY <2>1, OwnerIs
  <2> QED BY <2>1, <2>2 DEF f
<1>6. \A l \in links : l.src \in Present /\ l.dst \in Present
  BY <1>3 DEF Linked, Present
<1>7. PICK r : r \in Ranks(owner, links)
  BY <1>1 DEF StreamsInv, Streaming
<1> DEFINE own == OwnerIn(file')
           ls  == Between(file')
<1>8. ls \in SUBSET links /\ \A l \in ls : own[l.src] = owner[l.src] /\ own[l.dst] = owner[l.dst]
  <2>1. ls \in SUBSET links
    BY <1>4 DEF Between
  <2> HIDE DEF ls
  <2> QED BY <1>5, <1>6, <2>1
<1> HIDE DEF own, ls
<1>9. r \in Ranks(own, ls)
  BY <1>7, <1>8, FewerRanks
<1>10. Rankable(file')
  BY <1>1, <1>4, <1>9 DEF Rankable, StreamsInv, own, ls
<1> QED BY <1>1, <1>2, <1>10 DEF StreamsFileInv

LEMMA ClearStreams ==
  ASSUME StreamsFileInv, Clear
  PROVE  StreamsFileInv'
<1>1. /\ phase = "saved" /\ phase' = "cleared" /\ streamViews' = NoViews /\ file' = file
  BY DEF Clear
<1>2. FileInv' /\ Rankable(file)
  BY <1>1, ClearFile DEF StreamsFileInv
<1>3. \A m \in Modules : \A s \in InPorts[m] : NoViews[<<"in", m, s>>] = NULL
  BY InPortIs DEF NoViews
<1> QED BY <1>1, <1>2, <1>3 DEF StreamsFileInv

LEMMA LoadStreams ==
  ASSUME StreamsFileInv, NEW f \in Files \cup {file}, Load(f)
  PROVE  StreamsFileInv'
<1>1. /\ phase = "cleared" /\ phase' = "entries" /\ file' = f /\ UNCHANGED network
  BY DEF Load
<1>2. FileInv' /\ Rankable(f) /\ modules = <<>>
  BY <1>1, LoadFile, FilesRankable DEF StreamsFileInv, FileInv
<1>3. Present' = {}
  BY <1>1, <1>2 DEF Present, ToSet, network
<1> QED BY <1>1, <1>2, <1>3 DEF StreamsFileInv, network

LEMMA CreateStreams ==
  ASSUME StreamsFileInv, CreateEntry
  PROVE  StreamsFileInv'
<1> DEFINE e == Head(entries)
<1>1. /\ FileInv /\ phase = "entries" /\ phase' = "entries" /\ file' = file
      /\ modules' = IF e.known THEN Append(modules, e.id) ELSE modules
      /\ owner' = IF e.known THEN [owner EXCEPT ![e.id] = e.group] ELSE owner
      /\ UNCHANGED <<streamViews, links, todo, status, patched>>
  BY DEF StreamsFileInv, CreateEntry, Taking
<1>2. FileInv'
  BY <1>1, CreateFile
<1>3. /\ e \in ToSet(file.entries) /\ e \in Entry /\ IsFile(file) /\ e.id \notin Present
  <2>1. /\ entries \in Seq(Entry) /\ entries # <<>> /\ ToSet(entries) \subseteq ToSet(file.entries)
        /\ Pending /\ IsFile(file)
    BY <1>1 DEF FileInv, FileTyped, CreateEntry, Taking
  <2>2. e \in Entry /\ e \in ToSet(entries)
    BY <2>1, EntriesTurn DEF Pending
  <2> HIDE DEF e
  <2> QED BY <2>1, <2>2 DEF Pending
<1> HIDE DEF e
<1>4. e.id \in Listed(file) /\ OwnerIn(file)[e.id] = e.group
  BY <1>3, OwnerIs
<1>5. \A m \in Present' : m \in Listed(file) /\ owner'[m] = OwnerIn(file)[m]
  <2>0. \A m \in Present : m \in Listed(file) /\ owner[m] = OwnerIn(file)[m]
    BY <1>1 DEF StreamsFileInv
  <2>1. CASE ~ e.known
    BY <1>1, <2>0, <2>1 DEF Present
  <2>2. CASE e.known
    <3>1. /\ NetInv /\ e.id \in Modules \ Present /\ e.group \in Groups \cup {Root}
          /\ modules' = Append(modules, e.id) /\ owner' = [owner EXCEPT ![e.id] = e.group]
      BY <1>1, <1>3, <2>2 DEF FileInv, Entry
    <3>2. Present' = Present \cup {e.id}
      BY <1>1, <3>1, NewModuleNet
    <3>3. owner \in [Modules -> Groups \cup {Root}] /\ Present \subseteq Modules
      BY <3>1, PresentIs DEF NetInv, Typed
    <3> QED BY <1>4, <2>0, <3>1, <3>2, <3>3
  <2> QED BY <2>1, <2>2
<1>6. Rankable(file) /\ \A m \in Modules : \A s \in InPorts[m] : streamViews[<<"in", m, s>>] = NULL
  BY <1>1 DEF StreamsFileInv
<1> QED BY <1>1, <1>2, <1>5, <1>6 DEF StreamsFileInv

LEMMA EndLoadStreams ==
  ASSUME StreamsFileInv, EndLoad
  PROVE  StreamsFileInv'
<1>1. /\ FileInv /\ phase = "links" /\ phase' = "loaded"
      /\ CheckStream(links, streamViews, status)
      /\ UNCHANGED <<modules, owner, links, streamViews, patched>>
  BY DEF StreamsFileInv, EndLoad
<1>2. FileInv'
  BY <1>1, FileInvInductive DEF Next, Step, LoadStep
<1>3. /\ Linked(links, owner, modules) /\ owner \in [Modules -> Groups \cup {Root}]
      /\ links \in SUBSET Link /\ Ported(streamViews) /\ modules \in Seq(Modules)
  BY <1>1 DEF FileInv, NetInv, Typed
<1>4. /\ links \subseteq file.links /\ IsFiniteSet(file.links)
      /\ \A m \in Present : m \in Listed(file) /\ owner[m] = OwnerIn(file)[m]
      /\ \A m \in Modules : \A s \in InPorts[m] : streamViews[<<"in", m, s>>] = NULL
  BY <1>1 DEF StreamsFileInv, Rankable
<1>5. PICK r : r \in Ranks(OwnerIn(file), Between(file))
  BY <1>1 DEF StreamsFileInv, Rankable
<1>6. \A l \in links : l.src \in Present /\ l.dst \in Present
  BY <1>3 DEF Linked, Present
<1>7. links \in SUBSET Between(file) /\ IsFiniteSet(links)
  BY <1>4, <1>6, FS_Subset DEF Between
<1>8. r \in Ranks(owner, links)
  BY <1>4, <1>5, <1>6, <1>7, FewerRanks
<1>9. Streaming(owner, links, streamViews, todo') /\ Settled(owner, links, streamViews, todo')
  BY <1>1, <1>3, <1>4, <1>7, <1>8, AllAnew
<1>10. StreamsInv'
  BY <1>1, <1>7, <1>9 DEF StreamsInv
<1> QED BY <1>1, <1>2, <1>10 DEF StreamsFileInv

LEMMA StreamsFileInvInductive == StreamsFileInv /\ [Next]_vars => StreamsFileInv'
<1> SUFFICES ASSUME StreamsFileInv, [Next]_vars PROVE StreamsFileInv'
  OBVIOUS
<1>0. FileInv /\ FileInv'
  BY FileInvInductive DEF StreamsFileInv
<1>1. CASE Edit
  BY <1>1, EditStreams
<1>2. CASE Save
  BY <1>2, SaveStreams
<1>3. CASE Clear
  BY <1>3, ClearStreams
<1>4. CASE \E f \in Files \cup {file} : Load(f)
  BY <1>4, LoadStreams
<1>5. CASE Walk
  <2>1. todo # <<>> /\ UNCHANGED <<loader, changes, owner, links, patched>>
    BY <1>5 DEF Walk, NetworkStep, Deliver, Return
  <2>2. phase \in {"edit", "loaded"} /\ phase' = phase
    BY <1>0, <2>1 DEF FileInv, loader
  <2>3. NetInv /\ StreamsInv
    BY <1>0, <2>2 DEF StreamsFileInv, FileInv
  <2>4. StreamsInv'
    <3>1. ASSUME NEW l \in links, Deliver(l) PROVE StreamsInv'
      BY <2>1, <2>3, <3>1, DeliverStreams DEF StreamsInv
    <3>2. ASSUME Return PROVE StreamsInv'
      <4>1. streamViews' = streamViews
        BY <3>2 DEF Return
      <4> QED BY <2>1, <2>3, <3>2, <4>1, ReturnStreams DEF StreamsInv
    <3> QED BY <1>5, <3>1, <3>2 DEF Walk, NetworkStep
  <2> QED BY <1>0, <2>2, <2>4 DEF StreamsFileInv
<1>6. CASE PostponeEntry
  <2>1. phase = "entries" /\ phase' = "entries" /\ file' = file /\ UNCHANGED network
    BY <1>6 DEF PostponeEntry, Taking
  <2> QED BY <1>0, <2>1 DEF StreamsFileInv, Present, network
<1>7. CASE CreateEntry
  BY <1>7, CreateStreams
<1>8. CASE EndEntries
  <2>1. phase = "entries" /\ phase' = "links" /\ file' = file /\ UNCHANGED network /\ links = {}
    BY <1>0, <1>8 DEF EndEntries, FileInv
  <2> QED BY <1>0, <2>1 DEF StreamsFileInv, Present, network
<1>9. CASE \E l \in linkEntries : LoadLink(l)
  <2>1. PICK l \in linkEntries : LoadLink(l)
    BY <1>9
  <2>2. /\ phase = "links" /\ links' \subseteq links \cup {l}
        /\ UNCHANGED <<modules, owner, streamViews, phase, file>>
    BY <2>1 DEF LoadLink
  <2>3. l \in file.links
    BY <1>0 DEF FileInv, FileTyped
  <2> QED BY <1>0, <2>2, <2>3 DEF StreamsFileInv, Present
<1>10. CASE EndLoad
  BY <1>10, EndLoadStreams
<1>11. CASE UNCHANGED vars
  BY <1>0, <1>11 DEF StreamsFileInv, StreamsInv, Present, vars, network, loader
<1> QED BY <1>1, <1>2, <1>3, <1>4, <1>5, <1>6, <1>7, <1>8, <1>9, <1>10, <1>11
        DEF Next, Step, LoadStep

(* The live links are among those that have handed on what they offer.     *)
LEMMA LiveAreSettled ==
  ASSUME NetInv, IsFiniteSet(links), NEW X \in SUBSET links,
         Reaches(X, owner, links, streamViews, <<>>)
  PROVE  LiveLinks \subseteq X
<1> DEFINE On(before) == {l \in links : IF l.src \in Groups
                            THEN \E k \in before : Follows(l, k)
                            ELSE Verdict(streamViews, l.src) = "checked"}
           step == [b \in SUBSET links |-> On(b)]
           S == SUBSET links
<1>0. links \in SUBSET Link
  BY DEF NetInv, Typed
<1>1. \A b \in S : step[b] = On(b) /\ step[b] \in S
  OBVIOUS
<1>2. {} \in S
  OBVIOUS
<1>3. PICK f : /\ f = [n \in Nat |-> IF n = 0 THEN {} ELSE step[f[n - 1]]]
               /\ \A n \in Nat : f[n] \in S
  <2> HIDE DEF step, On, S
  <2>1. \A x \in S : step[x] \in S
    BY <1>1
  <2>2. PICK none, next, T : none = {} /\ next = step /\ T = S
    OBVIOUS
  <2>3. none \in T /\ \A x \in T : next[x] \in T
    BY <1>2, <2>1, <2>2
  <2>4. \E f : Iterates(f, none, next) /\ \A n \in Nat : f[n] \in T
    BY <2>3, RecursionOnNat
  <2> QED BY <2>2, <2>4 DEF Iterates
<1>4. f = [n \in Nat |-> IF n = 0 THEN {} ELSE On(f[n - 1])]
  <2> DEFINE h == [n \in Nat |-> IF n = 0 THEN {} ELSE On(f[n - 1])]
  <2>1. \A n \in Nat : n # 0 => step[f[n - 1]] = On(f[n - 1])
    <3>1. \A n \in Nat : n # 0 => n - 1 \in Nat
      OBVIOUS
    <3> HIDE DEF step, On, S
    <3> QED BY <1>1, <1>3, <3>1
  <2>2. \A n \in Nat : f[n] = h[n]
    <3> HIDE DEF step, On
    <3> QED BY <1>3, <2>1
  <2>3. f = h
    <3> HIDE DEF step, On
    <3> QED BY <1>3, <2>2
  <2> QED BY <2>3
<1>5. Live = [n \in Nat |-> IF n = 0 THEN {} ELSE On(Live[n - 1])]
  BY <1>4 DEF Live
<1>6. Live[0] = {} /\ \A n \in Nat : n # 0 => Live[n] = On(Live[n - 1])
  <2> HIDE DEF On
  <2> QED BY <1>5
<1>7. ASSUME NEW b \in SUBSET X PROVE On(b) \subseteq X
  <2> SUFFICES ASSUME NEW l \in On(b) PROVE l \in X
    OBVIOUS
  <2>1. l \in links /\ ~ Awaits(<<>>, l) /\ l \in Link
    BY <1>0, NothingAwaits
  <2>2. CASE l.src \in Groups
    <3>1. PICK k \in b : Follows(l, k)
      BY <2>2
    <3>2. From(owner, l) = Into(owner, k)
      BY <1>0, <2>1, <3>1, FollowsIs DEF Follows
    <3> QED BY <2>1, <2>2, <3>2 DEF Reaches
  <2>3. CASE l.src \notin Groups
    BY <2>1, <2>3 DEF Reaches
  <2> QED BY <2>2, <2>3
<1> DEFINE T == {n \in Nat : Live[n] \subseteq X}
           N == Cardinality(links) + 1
<1>8. 0 \in T
  BY <1>6
<1>9. N \in Nat
  BY FS_CardinalityType
<1>10. ASSUME NEW n \in 1..N, n - 1 \in T PROVE n \in T
  <2>1. n \in Nat /\ n # 0
    BY <1>9
  <2> HIDE DEF On
  <2> QED BY <1>6, <1>7, <1>10, <2>1
<1>11. 0..N \subseteq T
  <2> HIDE DEF T, N
  <2> QED BY <1>8, <1>9, <1>10, StepByStep
<1>12. N \in 0..N
  BY <1>9
<1> QED BY <1>11, <1>12 DEF LiveLinks

THEOREM SpecStreamsFileInv == Spec => []StreamsFileInv
BY InitStreams, StreamsFileInvInductive, PTL DEF Spec

(* Between two edits, and as soon as a file has been loaded, a port that   *)
(* one live link leads to holds what this link offers now, for any network *)
(* and any sequence of edits, unless a removal has emptied a port others   *)
(* serve.                                                                  *)
THEOREM SpecStreamsCurrent == Spec => []StreamsCurrent
<1>1. StreamsFileInv => StreamsCurrent
  <2> SUFFICES ASSUME StreamsFileInv, phase \in {"edit", "loaded"}, todo = <<>>, ~ patched,
                      NEW l \in LiveLinks, Offered(l) # {},
                      \A k \in links : Target(k) = Target(l) => k = l
               PROVE  streamViews[Target(l)] = Offered(l)
    BY DEF StreamsCurrent, NetworkCurrent
  <2>1. NetInv /\ StreamsInv
    BY DEF StreamsFileInv, FileInv
  <2>2. PICK X \in SUBSET links : /\ Reaches(X, owner, links, streamViews, <<>>)
                                  /\ Holds(X, owner, links, streamViews)
    BY <2>1 DEF StreamsInv, Settled
  <2>3. l \in X
    BY <2>1, <2>2, LiveAreSettled DEF StreamsInv
  <2>4. Alone(owner, links, l) /\ Offer(owner, streamViews, l) # {}
    BY OfferedIs DEF Alone
  <2> QED BY <2>2, <2>3, <2>4, OfferedIs DEF Holds
<1> QED BY <1>1, SpecStreamsFileInv, PTL
====
