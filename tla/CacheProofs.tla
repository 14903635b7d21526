---------------------------- MODULE CacheProofs ----------------------------
(***************************************************************************)
(* The cache of dmcache.h, for every set of keys, of values and every      *)
(* size.  Everything comes from one fact: there is a sequence of keys, the *)
(* listing, that the fields root, last, next and prev spell out, and its   *)
(* keys are those of the map.  Each operation of the list is shown to do   *)
(* to the fields what the dictionary's operation does to the listing; the  *)
(* walks along next and prev, recursive functions, give the listing back.  *)
(***************************************************************************)
EXTENDS Cache, Lineage, FiniteSetTheorems, SequenceTheorems

At(s, i) == IF i \in 1..Len(s) THEN s[i] ELSE Null
Members(s) == {s[i] : i \in 1..Len(s)}
Links == [root : Keys \cup {Null}, last : Keys \cup {Null}, cnt : Nat,
          next : [Keys -> Keys \cup {Null}], prev : [Keys -> Keys \cup {Null}]]

(* The fields of l spell out the sequence s, which has no key twice.       *)
Chain(s, l) ==
  /\ s \in Seq(Keys)
  /\ \A i, j \in 1..Len(s) : s[i] = s[j] => i = j
  /\ l.root = At(s, 1) /\ l.last = At(s, Len(s)) /\ l.cnt = Len(s)
  /\ \A i \in 1..Len(s) : l.next[s[i]] = At(s, i + 1)
  /\ \A i \in 1..Len(s) : l.prev[s[i]] = At(s, i - 1)

Pushed(k, s) == [i \in 1..Len(s) + 1 |-> IF i = 1 THEN k ELSE s[i - 1]]
Skipped(s, i) == [j \in 1..Len(s) - 1 |-> IF j < i THEN s[j] ELSE s[j + 1]]
First(s, n) == [i \in 1..(IF n <= Len(s) THEN n ELSE Len(s)) |-> s[i]]
Final(s, n) == [i \in 1..(IF n <= Len(s) THEN n ELSE Len(s)) |->
                  s[i + (IF n <= Len(s) THEN Len(s) - n ELSE 0)]]

-----------------------------------------------------------------------------
(* Operations on the listing, as functions of the index and by the         *)
(* operators of the abstract dictionary.                                   *)

LEMMA PushedIs ==
  ASSUME NEW s \in Seq(Keys), NEW k \in Keys
  PROVE  /\ Pushed(k, s) \in Seq(Keys)
         /\ Len(Pushed(k, s)) = Len(s) + 1
         /\ Pushed(k, s) = <<k>> \o s
         /\ Members(Pushed(k, s)) = Members(s) \cup {k}
<1> DEFINE p == Pushed(k, s)
<1>1. p \in [1..Len(s) + 1 -> Keys] /\ Len(s) \in Nat
  BY DEF Pushed
<1>2. p \in Seq(Keys) /\ Len(p) = Len(s) + 1
  BY <1>1 DEF Pushed
<1>3. <<k>> \o s \in Seq(Keys) /\ Len(<<k>> \o s) = Len(s) + 1
  OBVIOUS
<1>4. \A i \in 1..Len(p) : p[i] = (<<k>> \o s)[i]
  BY <1>2 DEF Pushed
<1>5. p = <<k>> \o s
  BY <1>2, <1>3, <1>4, SeqEqual
<1>6. Members(p) = Members(s) \cup {k}
  <2>1. \A i \in 1..Len(s) : p[i + 1] = s[i] /\ i + 1 \in 1..Len(p)
    BY <1>1, <1>2 DEF Pushed
  <2>2. p[1] = k /\ 1 \in 1..Len(p)
    BY <1>1, <1>2 DEF Pushed
  <2>3. \A i \in 1..Len(p) : p[i] = k \/ (i - 1 \in 1..Len(s) /\ p[i] = s[i - 1])
    BY <1>1, <1>2 DEF Pushed
  <2> HIDE DEF p
  <2> QED BY <2>1, <2>2, <2>3 DEF Members
<1> QED BY <1>2, <1>5, <1>6

LEMMA SkippedIs ==
  ASSUME NEW s \in Seq(Keys), NEW i \in 1..Len(s),
         \A j, n \in 1..Len(s) : s[j] = s[n] => j = n
  PROVE  /\ Skipped(s, i) \in Seq(Keys)
         /\ Len(Skipped(s, i)) = Len(s) - 1
         /\ Skipped(s, i) = SubSeq(s, 1, i - 1) \o SubSeq(s, i + 1, Len(s))
         /\ Members(Skipped(s, i)) = Members(s) \ {s[i]}
<1> DEFINE p == Skipped(s, i)
           a == SubSeq(s, 1, i - 1)
           b == SubSeq(s, i + 1, Len(s))
<1>1. p \in [1..Len(s) - 1 -> Keys] /\ Len(s) \in Nat /\ Len(s) - 1 \in Nat
  BY DEF Skipped
<1>2. p \in Seq(Keys) /\ Len(p) = Len(s) - 1
  BY <1>1 DEF Skipped
<1>3. /\ a \in Seq(Keys) /\ Len(a) = i - 1
      /\ \A j \in 1..i - 1 : a[j] = s[j]
  <2>1. \A j \in 1..i - 1 : s[j] \in Keys
    OBVIOUS
  <2> QED BY <2>1, SubSeqProperties
<1>4. /\ b \in Seq(Keys) /\ Len(b) = Len(s) - i
      /\ \A j \in 1..Len(s) - i : b[j] = s[i + j]
  <2>1. \A j \in i + 1..Len(s) : s[j] \in Keys
    OBVIOUS
  <2> QED BY <2>1, SubSeqProperties
<1>5. p = a \o b
  <2> HIDE DEF a, b
  <2>1. a \o b \in Seq(Keys) /\ Len(a \o b) = Len(s) - 1
    BY <1>3, <1>4
  <2>2. \A j \in 1..Len(p) : p[j] = (a \o b)[j]
    BY <1>2, <1>3, <1>4, ConcatProperties DEF Skipped
  <2> QED BY <1>2, <2>1, <2>2, SeqEqual
<1>6. Members(p) = Members(s) \ {s[i]}
  <2>1. \A j \in 1..Len(p) : \E n \in 1..Len(s) : n # i /\ p[j] = s[n]
    <3>1. \A j \in 1..Len(p) : IF j < i THEN j # i /\ j \in 1..Len(s) /\ p[j] = s[j]
                               ELSE j + 1 # i /\ j + 1 \in 1..Len(s) /\ p[j] = s[j + 1]
      BY <1>1, <1>2 DEF Skipped
    <3> QED BY <3>1
  <2>2. \A n \in 1..Len(s) : n # i => \E j \in 1..Len(p) : p[j] = s[n]
    <3>1. \A n \in 1..Len(s) : n # i =>
            IF n < i THEN n \in 1..Len(p) /\ p[n] = s[n]
            ELSE n - 1 \in 1..Len(p) /\ p[n - 1] = s[n]
      BY <1>1, <1>2 DEF Skipped
    <3> QED BY <3>1
  <2> HIDE DEF p
  <2> QED BY <2>1, <2>2 DEF Members
<1> QED BY <1>2, <1>5, <1>6

-----------------------------------------------------------------------------
(* The operations of the list. *)

LEMMA PushFrontChain ==
  ASSUME NEW s, NEW l \in Links, Chain(s, l), NEW k \in Keys, k \notin Members(s)
  PROVE  PushFront(l, k) \in Links /\ Chain(Pushed(k, s), PushFront(l, k))
<1> DEFINE p == Pushed(k, s)
           m == PushFront(l, k)
<1> USE CacheAssumption
<1>1. s \in Seq(Keys) /\ Len(s) \in Nat /\ s \in [1..Len(s) -> Keys]
  BY DEF Chain
<1>2. p \in Seq(Keys) /\ Len(p) = Len(s) + 1
  BY <1>1, PushedIs
<1>3. \A i \in 1..Len(s) + 1 : p[i] = IF i = 1 THEN k ELSE s[i - 1]
  BY <1>1 DEF Pushed
<1>4. \A i \in 1..Len(s) : s[i] # k /\ s[i] # Null
  BY <1>1 DEF Members
<1>5. m \in Links
  BY DEF PushFront, Links
<1>6. \A i, j \in 1..Len(p) : p[i] = p[j] => i = j
  <2>1. \A i \in 1..Len(p) : i # 1 => i - 1 \in 1..Len(s) /\ p[i] = s[i - 1]
    BY <1>1, <1>2, <1>3
  <2>2. p[1] = k
    BY <1>1, <1>3
  <2>3. \A i, j \in 1..Len(s) : s[i] = s[j] => i = j
    BY DEF Chain
  <2> HIDE DEF p
  <2>4. \A i, j \in 1..Len(p) : i # 1 /\ j # 1 /\ p[i] = p[j] => i - 1 = j - 1
    BY <2>1, <2>3
  <2>5. \A i \in 1..Len(p) : i # 1 => p[i] # p[1]
    BY <1>4, <2>1, <2>2
  <2> QED BY <1>1, <1>2, <2>4, <2>5
<1> HIDE DEF p
<1>7. m.root = At(p, 1) /\ m.cnt = Len(p)
  BY <1>1, <1>2, <1>3 DEF PushFront, At, Chain
<1>8. m.last = At(p, Len(p))
  BY <1>1, <1>2, <1>3, <1>4 DEF PushFront, At, Chain
<1>9. \A i \in 1..Len(p) : m.next[p[i]] = At(p, i + 1)
  <2> TAKE i \in 1..Len(p)
  <2>1. m.next[p[i]] = IF p[i] = k THEN l.root ELSE l.next[p[i]]
    BY <1>1, <1>2, <1>3 DEF PushFront, Links
  <2>2. CASE i = 1
    BY <1>1, <1>2, <1>3, <2>1, <2>2 DEF Chain, At
  <2>3. CASE i # 1
    <3>1. i - 1 \in 1..Len(s) /\ p[i] = s[i - 1] /\ p[i] # k
      BY <1>1, <1>2, <1>3, <1>4, <2>3
    <3>2. m.next[p[i]] = At(s, i)
      BY <2>1, <3>1 DEF Chain
    <3> QED BY <1>1, <1>2, <1>3, <3>2, <2>3 DEF At
  <2> QED BY <2>2, <2>3
<1>10. \A i \in 1..Len(p) : m.prev[p[i]] = At(p, i - 1)
  <2> TAKE i \in 1..Len(p)
  <2>1. m.prev[p[i]] = IF p[i] = k THEN Null ELSE IF p[i] = l.root THEN k ELSE l.prev[p[i]]
    BY <1>1, <1>2, <1>3 DEF PushFront
  <2>2. CASE i = 1
    BY <1>1, <1>2, <1>3, <2>1, <2>2 DEF At
  <2>3. CASE i # 1
    <3>1. i - 1 \in 1..Len(s) /\ p[i] = s[i - 1] /\ p[i] # k
      BY <1>1, <1>2, <1>3, <1>4, <2>3
    <3>2. l.root = s[1] /\ (s[i - 1] = s[1] <=> i = 2) /\ 1 \in 1..Len(s)
      BY <1>1, <3>1 DEF Chain, At
    <3>3. i = 2 => p[i - 1] = k
      BY <1>1, <1>3
    <3>4. i # 2 => l.prev[s[i - 1]] = s[i - 2] /\ p[i - 1] = s[i - 2]
      BY <1>1, <1>3, <3>1 DEF Chain, At
    <3> QED BY <1>1, <1>2, <2>1, <3>1, <3>2, <3>3, <3>4 DEF At
  <2> QED BY <2>2, <2>3
<1> HIDE DEF m
<1> QED BY <1>2, <1>5, <1>6, <1>7, <1>8, <1>9, <1>10 DEF Chain, p, m

LEMMA PopChain ==
  ASSUME NEW s, NEW l \in Links, Chain(s, l), NEW i \in 1..Len(s)
  PROVE  Pop(l, s[i]) \in Links /\ Chain(Skipped(s, i), Pop(l, s[i]))
<1> DEFINE p == Skipped(s, i)
           n == s[i]
           m == Pop(l, n)
<1> USE CacheAssumption
<1>1. s \in Seq(Keys) /\ Len(s) \in Nat /\ s \in [1..Len(s) -> Keys]
  BY DEF Chain
<1>2. \A a, b \in 1..Len(s) : s[a] = s[b] => a = b
  BY DEF Chain
<1>3. p \in Seq(Keys) /\ Len(p) = Len(s) - 1 /\ Len(s) - 1 \in Nat
  <2>1. Len(s) - 1 \in Nat
    BY <1>1
  <2>2. Skipped(s, i) \in Seq(Keys) /\ Len(Skipped(s, i)) = Len(s) - 1
    BY <1>1, <1>2, SkippedIs
  <2> QED BY <2>1, <2>2
<1>4. \A j \in 1..Len(s) - 1 : p[j] = IF j < i THEN s[j] ELSE s[j + 1]
  BY <1>1 DEF Skipped
<1>5. n \in Keys /\ \A j \in 1..Len(s) : s[j] # Null
  BY <1>1
<1>6. m \in Links
  <2>1. l.cnt - 1 \in Nat
    BY <1>3 DEF Chain
  <2> QED BY <1>5, <2>1 DEF Pop, Links
<1>7. l.next[n] = At(s, i + 1) /\ l.prev[n] = At(s, i - 1)
  BY DEF Chain
<1>8. \A a, b \in 1..Len(p) : p[a] = p[b] => a = b
  BY <1>1, <1>2, <1>3, <1>4
<1> HIDE DEF p
<1>9. m.cnt = Len(p)
  BY <1>3 DEF Pop, Chain
<1>10. m.root = At(p, 1)
  <2>1. l.root = s[1] /\ (n = s[1] <=> i = 1)
    <3>1. 1 \in 1..Len(s)
      BY <1>1
    <3> QED BY <1>2, <3>1 DEF Chain, At
  <2> QED BY <1>1, <1>3, <1>4, <1>7, <2>1 DEF Pop, At
<1>11. m.last = At(p, Len(p))
  <2>1. l.last = s[Len(s)] /\ (n = s[Len(s)] <=> i = Len(s))
    <3>1. Len(s) \in 1..Len(s)
      BY <1>1
    <3> QED BY <1>2, <3>1 DEF Chain, At
  <2>2. m.last = IF i = Len(s) THEN At(s, i - 1) ELSE s[Len(s)]
    BY <1>7, <2>1 DEF Pop
  <2> QED BY <1>1, <1>3, <1>4, <2>2 DEF At
<1>12. \A j \in 1..Len(p) : m.next[p[j]] = At(p, j + 1)
  <2> TAKE j \in 1..Len(p)
  <2>1. m.next[p[j]] = IF p[j] = At(s, i - 1) THEN At(s, i + 1) ELSE l.next[p[j]]
    BY <1>3, <1>7 DEF Pop
  <2>2. CASE j < i
    <3>1. p[j] = s[j] /\ j \in 1..Len(s)
      BY <1>1, <1>3, <1>4, <2>2
    <3>2. p[j] = At(s, i - 1) <=> j = i - 1
      BY <1>1, <1>2, <1>5, <3>1 DEF At
    <3>3. m.next[p[j]] = IF j = i - 1 THEN At(s, i + 1) ELSE At(s, j + 1)
      BY <2>1, <3>1, <3>2 DEF Chain
    <3>4. CASE j = i - 1
      BY <1>1, <1>3, <1>4, <3>3, <3>4 DEF At
    <3>5. CASE j # i - 1
      <4>1. j + 1 < i /\ j + 1 \in 1..Len(p) /\ j + 1 \in 1..Len(s)
        BY <1>1, <1>3, <2>2, <3>5
      <4>2. p[j + 1] = s[j + 1]
        BY <1>3, <1>4, <4>1
      <4> QED BY <3>3, <3>5, <4>1, <4>2 DEF At
    <3> QED BY <3>4, <3>5
  <2>3. CASE ~ (j < i)
    <3>1. p[j] = s[j + 1] /\ j + 1 \in 1..Len(s)
      BY <1>1, <1>3, <1>4, <2>3
    <3>2. p[j] # At(s, i - 1)
      BY <1>1, <1>2, <1>5, <3>1, <2>3 DEF At
    <3>3. m.next[p[j]] = At(s, j + 2)
      BY <2>1, <3>1, <3>2 DEF Chain
    <3> QED BY <1>1, <1>3, <1>4, <3>3, <2>3 DEF At
  <2> QED BY <2>2, <2>3
<1>13. \A j \in 1..Len(p) : m.prev[p[j]] = At(p, j - 1)
  <2> TAKE j \in 1..Len(p)
  <2>1. m.prev[p[j]] = IF p[j] = At(s, i + 1) THEN At(s, i - 1) ELSE l.prev[p[j]]
    BY <1>3, <1>7 DEF Pop
  <2>2. CASE j < i
    <3>1. p[j] = s[j] /\ j \in 1..Len(s)
      BY <1>1, <1>3, <1>4, <2>2
    <3>2. p[j] # At(s, i + 1)
      BY <1>1, <1>2, <1>5, <3>1, <2>2 DEF At
    <3>3. m.prev[p[j]] = At(s, j - 1)
      BY <2>1, <3>1, <3>2 DEF Chain
    <3> QED BY <1>1, <1>3, <1>4, <3>3, <2>2 DEF At
  <2>3. CASE ~ (j < i)
    <3>1. p[j] = s[j + 1] /\ j + 1 \in 1..Len(s)
      BY <1>1, <1>3, <1>4, <2>3
    <3>2. p[j] = At(s, i + 1) <=> j = i
      BY <1>1, <1>2, <1>5, <3>1 DEF At
    <3>3. m.prev[p[j]] = IF j = i THEN At(s, i - 1) ELSE At(s, j)
      BY <2>1, <3>1, <3>2 DEF Chain
    <3> QED BY <1>1, <1>3, <1>4, <3>3, <2>3 DEF At
  <2> QED BY <2>2, <2>3
<1> HIDE DEF m
<1> QED BY <1>3, <1>6, <1>8, <1>9, <1>10, <1>11, <1>12, <1>13 DEF Chain, p, m, n

LEMMA UnlinkedChain ==
  ASSUME NEW s, NEW l \in Links, Chain(s, l), NEW i \in 1..Len(s)
  PROVE  Unlinked(l, s[i]) \in Links /\ Chain(Skipped(s, i), Unlinked(l, s[i]))
<1> DEFINE p == Skipped(s, i)
           m == Pop(l, s[i])
           u == Unlinked(l, s[i])
<1>1. m \in Links /\ Chain(p, m)
  BY PopChain
<1>2. s \in Seq(Keys) /\ s[i] \in Keys
  BY DEF Chain
<1>3. u = [m EXCEPT !.next[s[i]] = Null, !.prev[s[i]] = Null]
  BY DEF Unlinked
<1>4. s[i] \notin Members(p)
  BY <1>2, SkippedIs DEF Chain
<1>5. \A j \in 1..Len(p) : p[j] \in Keys /\ p[j] # s[i]
  <2>1. p \in Seq(Keys)
    BY <1>1 DEF Chain
  <2> HIDE DEF p
  <2> QED BY <1>4, <2>1 DEF Members
<1> HIDE DEF m, p, u
<1>6. u \in Links
  BY <1>1, <1>3 DEF Links
<1>7. /\ u.root = m.root /\ u.last = m.last /\ u.cnt = m.cnt
      /\ \A x \in Keys : x # s[i] => u.next[x] = m.next[x] /\ u.prev[x] = m.prev[x]
  BY <1>1, <1>2, <1>3 DEF Links
<1>8. Chain(p, u)
  BY <1>1, <1>5, <1>7 DEF Chain
<1> QED BY <1>6, <1>8 DEF p, u

LEMMA MovedChain ==
  ASSUME NEW s, NEW l \in Links, Chain(s, l), NEW i \in 1..Len(s)
  PROVE  /\ MovedToFront(l, s[i]) \in Links
         /\ Chain(Pushed(s[i], Skipped(s, i)), MovedToFront(l, s[i]))
<1>1. Pop(l, s[i]) \in Links /\ Chain(Skipped(s, i), Pop(l, s[i]))
  BY PopChain
<1>2. s[i] \in Keys /\ s[i] \notin Members(Skipped(s, i))
  <2>1. s \in Seq(Keys) /\ \A j, n \in 1..Len(s) : s[j] = s[n] => j = n
    BY DEF Chain
  <2>2. Members(Skipped(s, i)) = Members(s) \ {s[i]}
    BY <2>1, SkippedIs
  <2> QED BY <2>1, <2>2
<1> QED BY <1>1, <1>2, PushFrontChain DEF MovedToFront

LEMMA EmptyChain == Empty \in Links /\ Chain(<<>>, Empty)
  BY DEF Empty, NoLinks, Links, Chain, At

-----------------------------------------------------------------------------
(* The walks.  After n steps a walk has seen n + 1 keys, or all of them.   *)

LEMMA ForwardUnfolds ==
  ASSUME NEW s, Chain(s, list)
  PROVE  \A n \in Nat : Forward[n] = First(s, n + 1)
<1> DEFINE Step(f, n) ==
             IF n = 0 THEN (IF list.root = Null THEN <<>> ELSE <<list.root>>)
             ELSE LET t == f[n - 1]
                  IN IF t = <<>> \/ list.next[t[Len(t)]] = Null THEN t
                     ELSE Append(t, list.next[t[Len(t)]])
           g == [n \in Nat |-> First(s, n + 1)]
<1> USE CacheAssumption
<1>1. s \in Seq(Keys) /\ Len(s) \in Nat /\ s \in [1..Len(s) -> Keys]
  BY DEF Chain
<1>len. Len(s) \in Nat
  BY <1>1
<1>2. \A n \in Nat : First(s, n) \in Seq(Keys) /\ Len(First(s, n)) = IF n <= Len(s) THEN n ELSE Len(s)
  <2> TAKE n \in Nat
  <2> DEFINE m == IF n <= Len(s) THEN n ELSE Len(s)
  <2>1. First(s, n) \in [1..m -> Keys] /\ m \in Nat
    BY <1>1 DEF First
  <2> QED BY <2>1
<1>3. \A n \in Nat, i \in 1..Len(s) : i <= n => First(s, n)[i] = s[i]
  BY <1>1 DEF First
<1>4. g[0] = Step(g, 0)
  <2>1. g[0] = First(s, 1)
    OBVIOUS
  <2>2. CASE Len(s) = 0
    <3>1. list.root = Null
      BY <2>2 DEF Chain, At
    <3>2. First(s, 1) = <<>>
      BY <1>2, <2>2
    <3> QED BY <2>1, <3>1, <3>2
  <2>3. CASE Len(s) # 0
    <3>1. list.root = s[1] /\ s[1] \in Keys /\ s[1] # Null
      BY <1>1, <2>3 DEF Chain, At
    <3>2. First(s, 1) \in Seq(Keys) /\ Len(First(s, 1)) = 1 /\ First(s, 1)[1] = s[1]
      <4>1. 1 \in Nat /\ 1 <= Len(s) /\ 1 \in 1..Len(s)
        BY <1>1, <2>3
      <4>2. First(s, 1) \in Seq(Keys) /\ Len(First(s, 1)) = 1
        BY <1>2, <4>1
      <4>3. First(s, 1)[1] = s[1]
        BY <1>3, <4>1
      <4> QED BY <4>2, <4>3
    <3>3. First(s, 1) = <<s[1]>>
      BY <3>1, <3>2
    <3> QED BY <2>1, <3>1, <3>3
  <2> QED BY <2>2, <2>3
<1>5. \A n \in Nat \ {0} : g[n] = Step(g, n)
  <2> TAKE n \in Nat \ {0}
  <2> DEFINE t == First(s, n)
             u == First(s, n + 1)
  <2>1. g[n - 1] = t /\ g[n] = u
    OBVIOUS
  <2>n. n \in Nat /\ n + 1 \in Nat /\ n # 0
    OBVIOUS
  <2>2. t \in Seq(Keys) /\ u \in Seq(Keys)
    BY <1>2, <2>n
  <2>3. \A i \in 1..Len(s) : (i <= n => t[i] = s[i]) /\ (i <= n + 1 => u[i] = s[i])
    BY <1>3, <2>n
  <2>4. Len(t) = (IF n <= Len(s) THEN n ELSE Len(s))
        /\ Len(u) = (IF n + 1 <= Len(s) THEN n + 1 ELSE Len(s))
    BY <1>2, <2>n
  <2> HIDE DEF t, u, g
  <2>5. CASE n < Len(s)
    <3>1. t # <<>> /\ Len(t) = n /\ t[n] = s[n] /\ n \in 1..Len(s)
      <4>1. n \in 1..Len(s) /\ Len(t) = n
        <5>1. n \in 1..Len(s)
          BY <1>len, <2>n, <2>5
        <5>2. Len(t) = n
          BY <1>len, <2>n, <2>4, <2>5
        <5> QED BY <5>1, <5>2
      <4>2. t[n] = s[n]
        BY <2>3, <2>n, <4>1
      <4> QED BY <2>2, <2>n, <4>1, <4>2
    <3>2. list.next[s[n]] = s[n + 1] /\ s[n + 1] # Null /\ s[n + 1] \in Keys
      BY <1>1, <2>5, <3>1 DEF Chain, At
    <3>3. Len(Append(t, s[n + 1])) = Len(u) /\ Append(t, s[n + 1]) \in Seq(Keys)
      BY <2>2, <2>4, <2>5, <3>1, <3>2
    <3>4. \A i \in 1..Len(u) : u[i] = Append(t, s[n + 1])[i]
      BY <1>1, <2>2, <2>3, <2>4, <2>5, <3>1, <3>2
    <3>5. u = Append(t, s[n + 1])
      BY <2>2, <3>3, <3>4, SeqEqual
    <3> QED BY <2>1, <3>1, <3>2, <3>5
  <2>6. CASE ~ (n < Len(s))
    <3>1. u = t
      <4>1. Len(u) = Len(t) /\ \A i \in 1..Len(u) : u[i] = t[i]
        BY <1>1, <2>3, <2>4, <2>6
      <4> QED BY <2>2, <4>1, SeqEqual
    <3>2. t = <<>> \/ list.next[t[Len(t)]] = Null
      <4>1. CASE Len(s) = 0
        BY <2>2, <2>4, <2>6, <4>1
      <4>2. CASE Len(s) # 0
        <5>1. Len(t) = Len(s) /\ t[Len(s)] = s[Len(s)] /\ Len(s) \in 1..Len(s)
          <6>1. Len(t) = Len(s) /\ Len(s) \in 1..Len(s) /\ Len(s) <= n
            <7>1. Len(s) \in 1..Len(s) /\ Len(s) <= n
              BY <1>len, <2>n, <2>6, <4>2
            <7>2. Len(t) = Len(s)
              BY <1>len, <2>n, <2>4, <2>6
            <7> QED BY <7>1, <7>2
          <6> QED BY <2>3, <6>1
        <5>2. list.next[s[Len(s)]] = Null
          BY <1>1, <5>1 DEF Chain, At
        <5> QED BY <5>1, <5>2
      <4> QED BY <4>1, <4>2
    <3> QED BY <2>1, <3>1, <3>2
  <2> QED BY <1>1, <2>5, <2>6
<1>6. g = [n \in Nat |-> Step(g, n)]
  <2> DEFINE h == [n \in Nat |-> Step(g, n)]
  <2>1. \A n \in Nat : g[n] = h[n]
    BY <1>4, <1>5
  <2> QED BY <2>1
<1>7. Forward = [n \in Nat |-> Step(Forward, n)]
  <2> HIDE DEF g
  <2> QED BY <1>6 DEF Forward
<1>8. \A n \in Nat : Forward[n] = Step(Forward, n)
  BY <1>7
<1> DEFINE Bad == {n \in Nat : Forward[n] # g[n]}
<1>9. ASSUME Bad # {} PROVE FALSE
  <2>1. PICK n \in Bad : \A m \in Bad : n <= m
    BY <1>9, LeastExists
  <2>2. n # 0
    BY <1>4, <1>8
  <2>3. n - 1 \in Nat /\ Forward[n - 1] = g[n - 1]
    BY <2>1, <2>2
  <2>4. Forward[n] = Step(Forward, n) /\ g[n] = Step(g, n)
    BY <1>5, <1>8, <2>2
  <2> HIDE DEF g
  <2> QED BY <2>2, <2>3, <2>4
<1> QED BY <1>9

LEMMA BackwardUnfolds ==
  ASSUME NEW s, Chain(s, list)
  PROVE  \A n \in Nat : Backward[n] = Final(s, n + 1)
<1> DEFINE Step(f, n) ==
             IF n = 0 THEN (IF list.last = Null THEN <<>> ELSE <<list.last>>)
             ELSE LET t == f[n - 1]
                  IN IF t = <<>> \/ list.prev[t[1]] = Null THEN t
                     ELSE <<list.prev[t[1]]>> \o t
           g == [n \in Nat |-> Final(s, n + 1)]
<1> USE CacheAssumption
<1>1. s \in Seq(Keys) /\ s \in [1..Len(s) -> Keys]
  BY DEF Chain
<1>len. Len(s) \in Nat
  BY <1>1
<1>2. \A n \in Nat : Final(s, n) \in Seq(Keys) /\ Len(Final(s, n)) = IF n <= Len(s) THEN n ELSE Len(s)
  <2> TAKE n \in Nat
  <2> DEFINE m == IF n <= Len(s) THEN n ELSE Len(s)
  <2>1. Final(s, n) \in [1..m -> Keys] /\ m \in Nat
    <3>1. m \in Nat
      BY <1>len
    <3>2. \A i \in 1..m : i + (IF n <= Len(s) THEN Len(s) - n ELSE 0) \in 1..Len(s)
      BY <1>len
    <3> QED BY <1>1, <3>1, <3>2 DEF Final
  <2> QED BY <2>1
<1>3. \A n \in Nat : n <= Len(s) => \A i \in 1..n : Final(s, n)[i] = s[i + (Len(s) - n)]
  BY <1>len DEF Final
<1>3b. \A n \in Nat : n >= Len(s) => Final(s, n) = s
  <2> TAKE n \in Nat
  <2> HAVE n >= Len(s)
  <2> DEFINE m == IF n <= Len(s) THEN n ELSE Len(s)
             d == IF n <= Len(s) THEN Len(s) - n ELSE 0
  <2>m. m = Len(s) /\ d = 0
    BY <1>len
  <2>1. Len(Final(s, n)) = m
    BY <1>2
  <2>2. Final(s, n) = [i \in 1..m |-> s[i + d]]
    BY DEF Final
  <2> HIDE DEF m, d
  <2>3. \A i \in 1..Len(s) : Final(s, n)[i] = s[i]
    BY <1>len, <2>m, <2>2
  <2> QED BY <1>1, <1>2, <2>m, <2>1, <2>3, SeqEqual
<1>4. g[0] = Step(g, 0)
  <2>1. g[0] = Final(s, 1)
    OBVIOUS
  <2>2. CASE Len(s) = 0
    <3>1. list.last = Null
      BY <2>2 DEF Chain, At
    <3>2. Final(s, 1) = <<>>
      BY <1>1, <1>3b, <2>2
    <3> QED BY <2>1, <3>1, <3>2
  <2>3. CASE Len(s) # 0
    <3> DEFINE z == s[Len(s)]
    <3>1. list.last = z /\ z \in Keys /\ z # Null
      BY <1>1, <1>len, <2>3 DEF Chain, At
    <3>2. Final(s, 1) \in Seq(Keys) /\ Len(Final(s, 1)) = 1 /\ Final(s, 1)[1] = z
      <4>1. 1 \in Nat /\ 1 <= Len(s)
        BY <1>len, <2>3
      <4>2. Final(s, 1) \in Seq(Keys) /\ Len(Final(s, 1)) = 1
        BY <1>2, <4>1
      <4>3. Final(s, 1)[1] = s[1 + (Len(s) - 1)]
        BY <1>3, <4>1
      <4> QED BY <1>len, <4>2, <4>3
    <3> HIDE DEF z
    <3>3. Final(s, 1) = <<z>>
      BY <3>1, <3>2
    <3> QED BY <2>1, <3>1, <3>3
  <2> QED BY <2>2, <2>3
<1>5. \A n \in Nat \ {0} : g[n] = Step(g, n)
  <2> TAKE n \in Nat \ {0}
  <2> DEFINE t == Final(s, n)
             u == Final(s, n + 1)
  <2>n. n \in Nat /\ n + 1 \in Nat /\ n # 0
    OBVIOUS
  <2>1. g[n - 1] = t /\ g[n] = u
    OBVIOUS
  <2>2. t \in Seq(Keys) /\ u \in Seq(Keys)
    BY <1>2, <2>n
  <2> HIDE DEF g
  <2>5. CASE n < Len(s)
    <3> DEFINE a == Len(s) - n
    <3>a. a \in 1..Len(s) /\ a + 1 \in 1..Len(s) /\ n <= Len(s) /\ n + 1 <= Len(s)
      BY <1>len, <2>n, <2>5
    <3>1. Len(t) = n /\ Len(u) = n + 1
      BY <1>2, <2>n, <3>a
    <3>2. \A i \in 1..n : t[i] = s[i + a]
      BY <1>3, <2>n, <3>a
    <3>3. \A i \in 1..n + 1 : u[i] = s[i + (a - 1)]
      <4>1. Len(s) - (n + 1) = a - 1
        BY <1>len, <2>n
      <4> QED BY <1>3, <2>n, <3>a, <4>1
    <3> HIDE DEF t, u, a
    <3>4. t # <<>> /\ t[1] = s[a + 1]
      <4>1. 1 \in 1..n /\ 1 + a = a + 1
        BY <2>n, <3>a, <1>len
      <4> QED BY <2>2, <2>n, <3>1, <3>2, <4>1
    <3>5. list.prev[s[a + 1]] = s[a] /\ s[a] # Null /\ s[a] \in Keys
      <4>1. (a + 1) - 1 = a
        BY <3>a
      <4> QED BY <1>1, <3>a, <4>1 DEF Chain, At
    <3>6. u = <<s[a]>> \o t
      <4> DEFINE w == <<s[a]>> \o t
      <4>1. w \in Seq(Keys) /\ Len(w) = n + 1
        BY <2>2, <2>n, <3>1, <3>5
      <4>2. \A i \in 1..n + 1 : w[i] = IF i = 1 THEN s[a] ELSE t[i - 1]
        BY <2>2, <2>n, <3>1, <3>5
      <4>3. \A i \in 1..n + 1 : i # 1 => i - 1 \in 1..n /\ (i - 1) + a = i + (a - 1)
        BY <2>n, <3>a, <1>len
      <4>4. 1 + (a - 1) = a
        BY <3>a
      <4> HIDE DEF w
      <4>5. \A i \in 1..n + 1 : u[i] = w[i]
        BY <3>2, <3>3, <4>2, <4>3, <4>4
      <4>6. u = w
        BY <2>2, <3>1, <4>1, <4>5, SeqEqual
      <4> QED BY <4>6 DEF w
    <3> QED BY <2>1, <2>n, <3>4, <3>5, <3>6
  <2>6. CASE ~ (n < Len(s))
    <3>1. u = s /\ t = s
      BY <1>3b, <1>len, <2>n, <2>6
    <3>2. s = <<>> \/ list.prev[s[1]] = Null
      <4>1. CASE Len(s) = 0
        BY <1>1, <4>1
      <4>2. CASE Len(s) # 0
        <5>1. 1 \in 1..Len(s)
          BY <1>len, <4>2
        <5> QED BY <5>1 DEF Chain, At
      <4> QED BY <4>1, <4>2
    <3> HIDE DEF t, u
    <3> QED BY <2>1, <2>n, <3>1, <3>2
  <2> QED BY <2>5, <2>6
<1>6. g = [n \in Nat |-> Step(g, n)]
  <2> DEFINE h == [n \in Nat |-> Step(g, n)]
  <2>1. \A n \in Nat : g[n] = h[n]
    BY <1>4, <1>5
  <2> QED BY <2>1
<1>7. Backward = [n \in Nat |-> Step(Backward, n)]
  <2> HIDE DEF g
  <2> QED BY <1>6 DEF Backward
<1>8. \A n \in Nat : Backward[n] = Step(Backward, n)
  BY <1>7
<1> DEFINE Bad == {n \in Nat : Backward[n] # g[n]}
<1>9. ASSUME Bad # {} PROVE FALSE
  <2>1. PICK n \in Bad : \A m \in Bad : n <= m
    BY <1>9, LeastExists
  <2>2. n # 0
    BY <1>4, <1>8
  <2>3. n - 1 \in Nat /\ Backward[n - 1] = g[n - 1]
    BY <2>1, <2>2
  <2>4. Backward[n] = Step(Backward, n) /\ g[n] = Step(g, n)
    BY <1>5, <1>8, <2>2
  <2> HIDE DEF g
  <2> QED BY <2>2, <2>3, <2>4
<1> QED BY <1>9

LEMMA WholeWalk ==
  ASSUME NEW s, Chain(s, list)
  PROVE  Forward[Len(s)] = s /\ Backward[Len(s)] = s
<1>1. s \in Seq(Keys)
  BY DEF Chain
<1>len. Len(s) \in Nat /\ ~ (Len(s) + 1 <= Len(s))
  BY <1>1
<1>2. Forward[Len(s)] = First(s, Len(s) + 1) /\ Backward[Len(s)] = Final(s, Len(s) + 1)
  BY <1>len, ForwardUnfolds, BackwardUnfolds
<1>3. First(s, Len(s) + 1) = [i \in 1..Len(s) |-> s[i]]
  BY <1>len DEF First
<1>4. Final(s, Len(s) + 1) = [i \in 1..Len(s) |-> s[i]]
  <2>1. \A i \in 1..Len(s) : i + 0 = i
    OBVIOUS
  <2> QED BY <1>len, <2>1 DEF Final
<1>5. s = [i \in 1..Len(s) |-> s[i]]
  BY <1>1
<1> QED BY <1>2, <1>3, <1>4, <1>5

(* A sequence without repetitions is as long as the set of its members. *)
LEMMA MembersCounted ==
  ASSUME NEW s, NEW l, Chain(s, l)
  PROVE  IsFiniteSet(Members(s)) /\ Cardinality(Members(s)) = Len(s)
<1>1. s \in Seq(Keys) /\ Len(s) \in Nat /\ s \in [1..Len(s) -> Keys]
  BY DEF Chain
<1>2. \A i, j \in 1..Len(s) : s[i] = s[j] => i = j
  BY DEF Chain
<1>3. s \in Bijection(1..Len(s), Members(s))
  BY <1>1, <1>2 DEF Bijection, Injection, Surjection, IsInjective, Members
<1>4. ExistsBijection(1..Len(s), Members(s))
  BY <1>3 DEF ExistsBijection
<1>5. IsFiniteSet(Members(s))
  BY <1>1, <1>4, FS_NatBijection
<1> QED BY <1>1, <1>4, <1>5, FS_CountingElements

-----------------------------------------------------------------------------
(* The inductive invariant: the walk from the root is the listing of the   *)
(* fields and of the map, no longer than the size, and the nodes are the   *)
(* keys with a value.                                                      *)
Listing(s) == Chain(s, list) /\ map = Members(s)
Listed == Listing(Order)
Bounded ==
  /\ Size # 0 => list.cnt <= Size
  /\ \A k \in Keys : k \in map <=> value[k] # Null
CacheInv == TypeOK /\ Listed /\ Bounded

(* What the operations do to the listing.                                  *)
PlaceOf(s, k) == CHOOSE i \in 1..Len(s) : s[i] = k
Less(s, k) == IF k \in Members(s) THEN Skipped(s, PlaceOf(s, k)) ELSE s
Shortened(s) == IF Size # 0 /\ Len(s) > Size THEN Skipped(s, Len(s)) ELSE s

LEMMA OrderIs ==
  \A s : Listing(s) => Order = s /\ Backward[Cardinality(map)] = s /\ Cardinality(map) = Len(s)
<1> TAKE s
<1> HAVE Listing(s)
<1>1. Chain(s, list) /\ map = Members(s)
  BY DEF Listing
<1>2. Cardinality(map) = Len(s)
  BY <1>1, MembersCounted
<1> QED BY <1>1, <1>2, WholeWalk DEF Order

LEMMA OrderIsPrimed == (\A s : Listing(s) => Order = s)'
<1>1. \A s : Listing(s) => Order = s
  BY OrderIs
<1> QED BY <1>1, OrderIs, PTL

LEMMA LessIs ==
  ASSUME NEW s \in Seq(Keys), NEW k \in Members(s),
         \A i, j \in 1..Len(s) : s[i] = s[j] => i = j
  PROVE  /\ PlaceOf(s, k) \in 1..Len(s) /\ s[PlaceOf(s, k)] = k
         /\ Members(Less(s, k)) = Members(s) \ {k}
         /\ Less(s, k) \in Seq(Keys) /\ Len(Less(s, k)) = Len(s) - 1
<1>1. \E i \in 1..Len(s) : s[i] = k
  BY DEF Members
<1>2. PlaceOf(s, k) \in 1..Len(s) /\ s[PlaceOf(s, k)] = k
  BY <1>1 DEF PlaceOf
<1>3. Less(s, k) = Skipped(s, PlaceOf(s, k))
  BY DEF Less
<1> QED BY <1>2, <1>3, SkippedIs

LEMMA InsertedListing ==
  ASSUME NEW s, NEW l \in Links, Chain(s, l), NEW k \in Keys, k \notin Members(s),
         NEW vals \in [Keys -> Values \cup {Null}], NEW v \in Values,
         \A x \in Keys \ {k} : x \in Members(s) <=> vals[x] # Null,
         Size # 0 => Len(s) <= Size
  PROVE  LET new == Inserted(l, Members(s), vals, k, v)
             q   == Shortened(Pushed(k, s))
         IN /\ new.list \in Links /\ Chain(q, new.list) /\ new.map = Members(q)
            /\ new.value = [x \in Keys |-> IF x = k THEN v
                                           ELSE IF x \in Members(q) THEN vals[x] ELSE Null]
            /\ k \in Members(q)
            /\ Size # 0 => Len(q) <= Size
<1> DEFINE new == Inserted(l, Members(s), vals, k, v)
           p == Pushed(k, s)
           q == Shortened(p)
           longer == PushFront(l, k)
           out == IF TooLong(longer) THEN {longer.last} ELSE {}
<1> USE CacheAssumption
<1>1. longer \in Links /\ Chain(p, longer)
  BY PushFrontChain
<1>2. s \in Seq(Keys) /\ Len(s) \in Nat
  BY DEF Chain
<1>3. p \in Seq(Keys) /\ Len(p) = Len(s) + 1 /\ Members(p) = Members(s) \cup {k}
  BY <1>2, PushedIs
<1>4. p[1] = k
  BY <1>2 DEF Pushed
<1>5. /\ new.list = IF TooLong(longer) THEN Unlinked(longer, longer.last) ELSE longer
      /\ new.map = (Members(s) \cup {k}) \ out
      /\ new.value = [x \in Keys |-> IF x \in out THEN Null ELSE IF x = k THEN v ELSE vals[x]]
  BY DEF Inserted
<1> HIDE DEF p, longer, new
<1>6. TooLong(longer) <=> Size # 0 /\ Len(p) > Size
  BY <1>1 DEF TooLong, Chain
<1>7. CASE TooLong(longer)
  <2>1. q = Skipped(p, Len(p)) /\ longer.last = p[Len(p)] /\ Len(p) \in 1..Len(p)
    <3>1. Len(p) \in 1..Len(p)
      BY <1>2, <1>3
    <3> QED BY <1>1, <1>6, <1>7, <3>1 DEF Shortened, Chain, At
  <2>2. p[Len(p)] # k
    <3>1. Len(p) # 1 /\ 1 \in 1..Len(p)
      BY <1>2, <1>3, <1>6, <1>7
    <3> QED BY <1>1, <1>4, <2>1, <3>1 DEF Chain
  <2>3. new.list \in Links /\ Chain(q, new.list)
    BY <1>1, <1>5, <1>7, <2>1, UnlinkedChain
  <2>4. Members(q) = Members(p) \ {p[Len(p)]} /\ Len(q) = Len(p) - 1
    <3>1. \A i, j \in 1..Len(p) : p[i] = p[j] => i = j
      BY <1>1 DEF Chain
    <3> QED BY <1>3, <2>1, <3>1, SkippedIs
  <2>5. new.map = Members(q) /\ k \in Members(q)
    BY <1>3, <1>5, <1>7, <2>1, <2>2, <2>4
  <2>6. Size # 0 => Len(q) <= Size
    BY <1>2, <1>3, <2>4
  <2>7. new.value = [x \in Keys |-> IF x = k THEN v
                                    ELSE IF x \in Members(q) THEN vals[x] ELSE Null]
    <3> HIDE DEF q
    <3>1. out = {p[Len(p)]}
      BY <1>7, <2>1
    <3>2. \A x \in Keys : (IF x \in out THEN Null ELSE IF x = k THEN v ELSE vals[x])
                        = (IF x = k THEN v ELSE IF x \in Members(q) THEN vals[x] ELSE Null)
      BY <1>3, <2>2, <2>4, <3>1
    <3> HIDE DEF out
    <3> QED BY <1>5, <3>2
  <2> HIDE DEF q
  <2> QED BY <2>3, <2>5, <2>6, <2>7 DEF q, p, new
<1>8. CASE ~ TooLong(longer)
  <2>1. q = p
    BY <1>6, <1>8 DEF Shortened
  <2>2. Size # 0 => Len(q) <= Size
    BY <1>2, <1>3, <1>6, <1>8, <2>1
  <2>3. new.list = longer /\ new.map = Members(q) /\ k \in Members(q)
    BY <1>3, <1>5, <1>8, <2>1
  <2>4. new.value = [x \in Keys |-> IF x = k THEN v
                                    ELSE IF x \in Members(q) THEN vals[x] ELSE Null]
    <3>1. \A x \in Keys : (IF x \in out THEN Null ELSE IF x = k THEN v ELSE vals[x])
                        = (IF x = k THEN v ELSE IF x \in Members(q) THEN vals[x] ELSE Null)
      BY <1>3, <1>8, <2>1
    <3> HIDE DEF out, q
    <3> QED BY <1>5, <3>1
  <2> HIDE DEF q
  <2> QED BY <1>1, <2>1, <2>2, <2>3, <2>4 DEF q, p, new
<1> QED BY <1>7, <1>8

LEMMA ListingNow ==
  ASSUME CacheInv, NEW s, s = Order
  PROVE  /\ Chain(s, list) /\ map = Members(s) /\ list \in Links
         /\ s \in Seq(Keys) /\ \A i, j \in 1..Len(s) : s[i] = s[j] => i = j
         /\ Size # 0 => Len(s) <= Size
  BY DEF CacheInv, Listed, Listing, TypeOK, Bounded, Links, Chain

(* What is left to show once the listing after a step is known. *)
LEMMA ListingThen ==
  ASSUME NEW q, Chain(q, list'), map' = Members(q), list' \in Links,
         value' \in [Keys -> Values \cup {Null}], answer' \in Values \cup {Null},
         Size # 0 => Len(q) <= Size,
         \A k \in Keys : k \in map' <=> value'[k] # Null
  PROVE  CacheInv' /\ Order' = q
<1>1. Listing(q)'
  BY DEF Listing
<1>2. Order' = q
  BY <1>1, OrderIsPrimed
<1>3. Listed'
  BY <1>1, <1>2 DEF Listed, Listing
<1>4. TypeOK'
  BY DEF TypeOK, Links, Chain, Members
<1>5. Bounded'
  BY DEF Bounded, Chain
<1> QED BY <1>2, <1>3, <1>4, <1>5 DEF CacheInv

LEMMA InitListing == Init => CacheInv /\ Order = <<>>
<1> HAVE Init
<1>1. Chain(<<>>, list) /\ map = Members(<<>>) /\ list \in Links
  BY EmptyChain DEF Init, Members
<1>2. Order = <<>>
  BY <1>1, OrderIs DEF Listing
<1>3. TypeOK
  BY <1>1 DEF Init, TypeOK, Links
<1>4. Bounded
  BY CacheAssumption DEF Bounded, Init, Empty
<1> QED BY <1>1, <1>2, <1>3, <1>4 DEF CacheInv, Listed, Listing

LEMMA GetListing ==
  ASSUME CacheInv, NEW k \in Keys, Get(k), NEW s, s = Order
  PROVE  /\ CacheInv'
         /\ Order' = IF k \in Members(s) THEN Pushed(k, Less(s, k)) ELSE s
<1>1. /\ Chain(s, list) /\ map = Members(s) /\ list \in Links
      /\ s \in Seq(Keys) /\ \A i, j \in 1..Len(s) : s[i] = s[j] => i = j
      /\ Size # 0 => Len(s) <= Size
  BY ListingNow
<1>2. /\ value' = value /\ map' = map
      /\ value \in [Keys -> Values \cup {Null}] /\ answer \in Values \cup {Null}
      /\ \A x \in Keys : x \in map <=> value[x] # Null
  BY DEF CacheInv, TypeOK, Bounded, Get
<1>3. answer' \in Values \cup {Null}
  BY <1>2 DEF Get
<1>4. CASE k \in Members(s)
  <2>1. list' = MovedToFront(list, k)
    BY <1>1, <1>4 DEF Get
  <2>2. /\ PlaceOf(s, k) \in 1..Len(s) /\ s[PlaceOf(s, k)] = k
        /\ Members(Less(s, k)) = Members(s) \ {k}
        /\ Less(s, k) \in Seq(Keys) /\ Len(Less(s, k)) = Len(s) - 1
    BY <1>1, <1>4, LessIs
  <2>3. Less(s, k) = Skipped(s, PlaceOf(s, k))
    BY <1>4 DEF Less
  <2>4. list' \in Links /\ Chain(Pushed(k, Less(s, k)), list')
    BY <1>1, <2>1, <2>2, <2>3, MovedChain
  <2>5. Members(Pushed(k, Less(s, k))) = Members(s) /\ Len(Pushed(k, Less(s, k))) = Len(s)
    <3> DEFINE r == Less(s, k)
    <3>1. r \in Seq(Keys) /\ Members(r) = Members(s) \ {k} /\ Len(r) = Len(s) - 1
      BY <2>2
    <3>2. Len(s) \in Nat
      BY <1>1
    <3> HIDE DEF r
    <3>3. Len(Pushed(k, r)) = Len(r) + 1 /\ Members(Pushed(k, r)) = Members(r) \cup {k}
      BY <3>1, PushedIs
    <3> QED BY <1>4, <3>1, <3>2, <3>3 DEF r
  <2> DEFINE q == Pushed(k, Less(s, k))
  <2> HIDE DEF q
  <2>6. CacheInv' /\ Order' = q
    BY <1>1, <1>2, <1>3, <2>4, <2>5, ListingThen DEF q
  <2> QED BY <1>4, <2>6 DEF q
<1>5. CASE k \notin Members(s)
  <2>1. list' = list
    BY <1>1, <1>5 DEF Get
  <2>2. CacheInv' /\ Order' = s
    BY <1>1, <1>2, <1>3, <2>1, ListingThen
  <2> QED BY <1>5, <2>2
<1> QED BY <1>4, <1>5

LEMMA DeleteListing ==
  ASSUME CacheInv, NEW k \in Keys, Delete(k), NEW s, s = Order
  PROVE  CacheInv' /\ Order' = Less(s, k)
<1>1. /\ Chain(s, list) /\ map = Members(s) /\ list \in Links
      /\ s \in Seq(Keys) /\ \A i, j \in 1..Len(s) : s[i] = s[j] => i = j
      /\ Size # 0 => Len(s) <= Size
  BY ListingNow
<1>2. k \in Members(s) /\ list' = Unlinked(list, k) /\ map' = Members(s) \ {k}
  BY <1>1 DEF Delete
<1>3. /\ PlaceOf(s, k) \in 1..Len(s) /\ s[PlaceOf(s, k)] = k
      /\ Members(Less(s, k)) = Members(s) \ {k}
      /\ Less(s, k) \in Seq(Keys) /\ Len(Less(s, k)) = Len(s) - 1
  BY <1>1, <1>2, LessIs
<1>4. Less(s, k) = Skipped(s, PlaceOf(s, k))
  BY <1>2 DEF Less
<1>5. list' \in Links /\ Chain(Less(s, k), list')
  BY <1>1, <1>2, <1>3, <1>4, UnlinkedChain
<1>6. /\ value' \in [Keys -> Values \cup {Null}] /\ answer' \in Values \cup {Null}
      /\ \A x \in Keys : x \in map' <=> value'[x] # Null
  BY <1>1, <1>2 DEF CacheInv, TypeOK, Bounded, Delete
<1>7. Size # 0 => Len(Less(s, k)) <= Size
  BY <1>1, <1>3, CacheAssumption
<1> DEFINE q == Less(s, k)
<1> HIDE DEF q
<1>8. CacheInv' /\ Order' = q
  BY <1>2, <1>3, <1>5, <1>6, <1>7, ListingThen DEF q
<1> QED BY <1>8 DEF q

LEMMA ClearListing ==
  ASSUME Clear, CacheInv
  PROVE  CacheInv' /\ Order' = <<>>
<1>1. Chain(<<>>, list') /\ map' = Members(<<>>) /\ list' \in Links
  BY EmptyChain DEF Clear, Members
<1>2. /\ value' \in [Keys -> Values \cup {Null}] /\ answer' \in Values \cup {Null}
      /\ \A x \in Keys : x \in map' <=> value'[x] # Null
  BY DEF CacheInv, TypeOK, Clear
<1>3. Size # 0 => Len(<<>>) <= Size
  BY CacheAssumption
<1> QED BY <1>1, <1>2, <1>3, ListingThen

LEMMA AddListing ==
  ASSUME CacheInv, NEW k \in Keys, NEW v \in Values, Add(k, v), NEW s, s = Order
  PROVE  LET q == Shortened(Pushed(k, s))
         IN /\ CacheInv' /\ Order' = q
            /\ value' = [x \in Keys |-> IF x = k THEN v
                                        ELSE IF x \in Members(q) THEN value[x] ELSE Null]
            /\ k \in Members(q)
<1> DEFINE q == Shortened(Pushed(k, s))
           new == Inserted(list, Members(s), value, k, v)
<1>1. /\ Chain(s, list) /\ map = Members(s) /\ list \in Links
      /\ s \in Seq(Keys) /\ (Size # 0 => Len(s) <= Size)
  BY ListingNow
<1>2. k \notin Members(s) /\ list' = new.list /\ map' = new.map /\ value' = new.value
  BY <1>1 DEF Add
<1>3. /\ value \in [Keys -> Values \cup {Null}] /\ answer' \in Values \cup {Null}
      /\ \A x \in Keys : x \in Members(s) <=> value[x] # Null
  BY <1>1 DEF CacheInv, TypeOK, Bounded, Add
<1>4. /\ new.list \in Links /\ Chain(q, new.list) /\ new.map = Members(q)
      /\ new.value = [x \in Keys |-> IF x = k THEN v
                                     ELSE IF x \in Members(q) THEN value[x] ELSE Null]
      /\ k \in Members(q)
      /\ Size # 0 => Len(q) <= Size
  <2>1. \A x \in Keys \ {k} : x \in Members(s) <=> value[x] # Null
    BY <1>3
  <2> QED BY <1>1, <1>2, <1>3, <2>1, InsertedListing
<1> HIDE DEF q, new
<1>5. value' = [x \in Keys |-> IF x = k THEN v
                               ELSE IF x \in Members(q) THEN value[x] ELSE Null]
  BY <1>2, <1>4
<1>6. value' \in [Keys -> Values \cup {Null}]
  BY <1>3, <1>5
<1>7. \A x \in Keys : x \in Members(q) <=> value'[x] # Null
  <2>1. \A x \in Members(q) : x # k => x \in Members(s)
    <3> DEFINE p == Pushed(k, s)
    <3>1. p \in Seq(Keys) /\ Members(p) = Members(s) \cup {k} /\ Len(p) \in Nat
      <4>1. p \in Seq(Keys) /\ Members(p) = Members(s) \cup {k}
        BY <1>1, PushedIs
      <4> HIDE DEF p
      <4> QED BY <4>1
    <3>2. \A i, j \in 1..Len(p) : p[i] = p[j] => i = j
      <4>1. Chain(p, PushFront(list, k))
        BY <1>1, <1>2, PushFrontChain
      <4> HIDE DEF p
      <4> QED BY <4>1 DEF Chain
    <3>3. q = IF Size # 0 /\ Len(p) > Size THEN Skipped(p, Len(p)) ELSE p
      BY DEF q, Shortened
    <3> HIDE DEF p
    <3>4. Members(q) \subseteq Members(p)
      <4>1. CASE Size # 0 /\ Len(p) > Size
        <5>1. Len(p) \in 1..Len(p)
          BY <3>1, <4>1, CacheAssumption
        <5> QED BY <3>1, <3>2, <3>3, <4>1, <5>1, SkippedIs
      <4>2. CASE ~ (Size # 0 /\ Len(p) > Size)
        BY <3>3, <4>2
      <4> QED BY <4>1, <4>2
    <3> QED BY <3>1, <3>4
  <2> QED BY <1>3, <1>4, <1>5, <2>1, CacheAssumption
<1>8. CacheInv' /\ Order' = q
  BY <1>2, <1>3, <1>4, <1>6, <1>7, ListingThen
<1> QED BY <1>4, <1>5, <1>8 DEF q

LEMMA ReplaceListing ==
  ASSUME CacheInv, NEW k \in Keys, NEW v \in Values, Replace(k, v), NEW s, s = Order
  PROVE  /\ CacheInv' /\ Order' = Pushed(k, Less(s, k))
         /\ k \in Members(s)
         /\ value' = [value EXCEPT ![k] = v]
<1> DEFINE r == Less(s, k)
           q == Shortened(Pushed(k, r))
           new == Inserted(Unlinked(list, k), Members(r), value, k, v)
<1>1. /\ Chain(s, list) /\ map = Members(s) /\ list \in Links
      /\ s \in Seq(Keys) /\ \A i, j \in 1..Len(s) : s[i] = s[j] => i = j
      /\ Size # 0 => Len(s) <= Size
  BY ListingNow
<1>2. k \in Members(s)
  BY <1>1 DEF Replace
<1>3. /\ PlaceOf(s, k) \in 1..Len(s) /\ s[PlaceOf(s, k)] = k
      /\ Members(r) = Members(s) \ {k}
      /\ r \in Seq(Keys) /\ Len(r) = Len(s) - 1
  BY <1>1, <1>2, LessIs
<1>4. r = Skipped(s, PlaceOf(s, k))
  BY <1>2 DEF Less
<1>5. Unlinked(list, k) \in Links /\ Chain(r, Unlinked(list, k))
  BY <1>1, <1>3, <1>4, UnlinkedChain
<1>6. /\ value \in [Keys -> Values \cup {Null}] /\ answer' \in Values \cup {Null}
      /\ \A x \in Keys : x \in Members(s) <=> value[x] # Null
  BY <1>1 DEF CacheInv, TypeOK, Bounded, Replace
<1>7. list' = new.list /\ map' = new.map /\ value' = new.value
  BY <1>1, <1>3 DEF Replace
<1>8. Size # 0 => Len(r) <= Size
  BY <1>1, <1>3, CacheAssumption
<1>9. /\ new.list \in Links /\ Chain(q, new.list) /\ new.map = Members(q)
      /\ new.value = [x \in Keys |-> IF x = k THEN v
                                     ELSE IF x \in Members(q) THEN value[x] ELSE Null]
      /\ k \in Members(q)
      /\ Size # 0 => Len(q) <= Size
  <2> HIDE DEF r
  <2>1. \A x \in Keys \ {k} : x \in Members(r) <=> value[x] # Null
    BY <1>3, <1>6
  <2>2. k \notin Members(r)
    BY <1>3
  <2> QED BY <1>5, <1>6, <1>8, <2>1, <2>2, InsertedListing
<1> HIDE DEF r
<1>10. Len(Pushed(k, r)) = Len(s) /\ Members(Pushed(k, r)) = Members(s)
  <2>1. Len(Pushed(k, r)) = Len(r) + 1 /\ Members(Pushed(k, r)) = Members(r) \cup {k}
    BY <1>3, PushedIs
  <2>2. Len(s) \in Nat
    BY <1>1
  <2> QED BY <1>2, <1>3, <2>1, <2>2
<1>11. q = Pushed(k, r)
  <2>1. ~ (Size # 0 /\ Len(s) > Size)
    BY <1>1, CacheAssumption
  <2> QED BY <1>10, <2>1 DEF Shortened
<1> HIDE DEF q, new
<1>12. Members(q) = Members(s)
  BY <1>10, <1>11
<1>13. value' = [value EXCEPT ![k] = v]
  BY <1>6, <1>7, <1>9, <1>12
<1>14. \A x \in Keys : x \in map' <=> value'[x] # Null
  BY <1>2, <1>6, <1>7, <1>9, <1>12, <1>13, CacheAssumption
<1>15. CacheInv' /\ Order' = q
  BY <1>6, <1>7, <1>9, <1>13, <1>14, ListingThen
<1> QED BY <1>2, <1>11, <1>13, <1>15 DEF r

-----------------------------------------------------------------------------
(* The abstract dictionary's operators, over the listing.                  *)

LEMMA LruOperators ==
  ASSUME NEW s, s = Order, s \in Seq(Keys),
         \A i, j \in 1..Len(s) : s[i] = s[j] => i = j
  PROVE  /\ Lru!Cached = Members(s)
         /\ \A k \in Keys : Lru!Without(k) = Less(s, k)
         /\ \A k \in Keys : Lru!Touched(k) = Pushed(k, Less(s, k))
<1>1. DOMAIN s = 1..Len(s)
  OBVIOUS
<1>2. Lru!Cached = Members(s)
  BY <1>1 DEF Lru!Cached, Lru!ToSet, Members
<1>3. ASSUME NEW k \in Keys PROVE Lru!Without(k) = Less(s, k)
  <2>1. CASE k \in Members(s)
    <3>1. PlaceOf(s, k) = Lru!Place(k) /\ PlaceOf(s, k) \in 1..Len(s)
      BY <1>1, <2>1, LessIs DEF PlaceOf, Lru!Place
    <3>2. Lru!Without(k) = SubSeq(s, 1, PlaceOf(s, k) - 1) \o SubSeq(s, PlaceOf(s, k) + 1, Len(s))
      BY <1>2, <2>1, <3>1 DEF Lru!Without, Lru!RemoveAt
    <3>3. Less(s, k) = Skipped(s, PlaceOf(s, k))
      BY <2>1 DEF Less
    <3> QED BY <3>1, <3>2, <3>3, SkippedIs
  <2>2. CASE k \notin Members(s)
    BY <1>2, <2>2 DEF Lru!Without, Less
  <2> QED BY <2>1, <2>2
<1>4. ASSUME NEW k \in Keys PROVE Lru!Touched(k) = Pushed(k, Less(s, k))
  <2> DEFINE r == Less(s, k)
  <2>1. r \in Seq(Keys)
    <3>1. CASE k \in Members(s)
      BY <3>1, LessIs
    <3>2. CASE k \notin Members(s)
      BY <3>2 DEF Less
    <3> QED BY <3>1, <3>2
  <2>2. Lru!Touched(k) = <<k>> \o r
    BY <1>3 DEF Lru!Touched
  <2> HIDE DEF r
  <2> QED BY <2>1, <2>2, PushedIs DEF r
<1> QED BY <1>2, <1>3, <1>4

LEMMA LimitedIs ==
  ASSUME NEW p \in Seq(Keys), Size # 0 => Len(p) <= Size + 1
  PROVE  Lru!Limited(p) = Shortened(p)
<1> USE CacheAssumption
<1>1. CASE Size = 0
  BY <1>1 DEF Lru!Limited, Shortened
<1>2. CASE Size # 0
  <2> DEFINE m == IF Len(p) < Size THEN Len(p) ELSE Size
             u == SubSeq(p, 1, m)
  <2>1. Lru!Limited(p) = u
    BY <1>2 DEF Lru!Limited
  <2>2. Len(p) \in Nat /\ m \in Nat /\ m <= Len(p)
    BY <1>2
  <2>3. u \in Seq(Keys) /\ Len(u) = m /\ \A i \in 1..m : u[i] = p[i]
    <3>1. \A i \in 1..m : p[i] \in Keys
      BY <2>2
    <3> HIDE DEF m
    <3> QED BY <2>2, <3>1, SubSeqProperties
  <2>4. CASE Len(p) > Size
    <3>1. m = Len(p) - 1
      BY <1>2, <2>2, <2>4
    <3>2. Shortened(p) = [j \in 1..Len(p) - 1 |-> IF j < Len(p) THEN p[j] ELSE p[j + 1]]
      BY <1>2, <2>4 DEF Shortened, Skipped
    <3>3. \A j \in 1..Len(p) - 1 : j < Len(p)
      BY <2>2
    <3> HIDE DEF u, m
    <3>4. u = [j \in 1..Len(p) - 1 |-> IF j < Len(p) THEN p[j] ELSE p[j + 1]]
      <4>1. u = [j \in 1..Len(p) - 1 |-> u[j]]
        BY <2>3, <3>1
      <4>2. \A j \in 1..Len(p) - 1 : u[j] = IF j < Len(p) THEN p[j] ELSE p[j + 1]
        BY <2>3, <3>1, <3>3
      <4> QED BY <4>1, <4>2
    <3> QED BY <2>1, <3>2, <3>4
  <2>5. CASE ~ (Len(p) > Size)
    <3>1. m = Len(p)
      BY <2>2, <2>5
    <3> HIDE DEF u, m
    <3>2. u = p
      BY <2>3, <3>1, SeqEqual
    <3>3. Shortened(p) = p
      BY <2>5 DEF Shortened
    <3> QED BY <2>1, <3>2, <3>3
  <2> QED BY <2>4, <2>5
<1> QED BY <1>1, <1>2

-----------------------------------------------------------------------------
LEMMA CacheInvInductive == CacheInv /\ [Next]_cacheVars => CacheInv'
<1> SUFFICES ASSUME CacheInv, [Next]_cacheVars PROVE CacheInv'
  OBVIOUS
<1>1. PICK s : s = Order
  OBVIOUS
<1>2. ASSUME NEW k \in Keys, Get(k) PROVE CacheInv'
  BY <1>1, <1>2, GetListing
<1>3. ASSUME NEW k \in Keys, Delete(k) PROVE CacheInv'
  BY <1>1, <1>3, DeleteListing
<1>4. ASSUME NEW k \in Keys, NEW v \in Values, Add(k, v) PROVE CacheInv'
  BY <1>1, <1>4, AddListing
<1>5. ASSUME NEW k \in Keys, NEW v \in Values, Replace(k, v) PROVE CacheInv'
  BY <1>1, <1>5, ReplaceListing
<1>6. ASSUME Clear PROVE CacheInv'
  BY <1>6, ClearListing
<1>7. ASSUME UNCHANGED cacheVars PROVE CacheInv'
  <2>1. /\ Chain(s, list) /\ map = Members(s) /\ list \in Links
        /\ (Size # 0 => Len(s) <= Size)
    BY <1>1, ListingNow
  <2>2. list' = list /\ map' = map /\ value' = value /\ answer' = answer
    BY <1>7 DEF cacheVars
  <2>3. value \in [Keys -> Values \cup {Null}] /\ answer \in Values \cup {Null}
        /\ \A k \in Keys : k \in map <=> value[k] # Null
    BY DEF CacheInv, TypeOK, Bounded
  <2> QED BY <2>1, <2>2, <2>3, ListingThen
<1> QED BY <1>2, <1>3, <1>4, <1>5, <1>6, <1>7 DEF Next

(* The listing invariant holds after any sequence of calls of the cache.   *)
THEOREM SpecCacheInv == Spec => []CacheInv
<1>1. Init => CacheInv
  BY InitListing
<1> QED BY <1>1, CacheInvInductive, PTL DEF Spec

(* The fields of the list and the nodes keep their types: the count never  *)
(* falls below zero, and next and prev lead to nodes or to NULL.           *)
THEOREM SpecTypeOK == Spec => []TypeOK
<1>1. CacheInv => TypeOK
  BY DEF CacheInv
<1> QED BY <1>1, SpecCacheInv, PTL

(* Both directions of the list visit the nodes of the map, each once and   *)
(* in the same order, and _cnt is their number, whatever the calls of get, *)
(* add, replace, remove and clear before.                                  *)
THEOREM SpecListMatchesMap == Spec => []ListMatchesMap
<1>1. CacheInv => ListMatchesMap
  <2> SUFFICES ASSUME CacheInv PROVE ListMatchesMap
    OBVIOUS
  <2>1. PICK s : s = Order
    OBVIOUS
  <2>2. Chain(s, list) /\ map = Members(s) /\ s \in Seq(Keys)
    BY <2>1, ListingNow
  <2>3. Backward[Cardinality(map)] = s /\ Cardinality(map) = Len(s)
    BY <2>2, OrderIs DEF Listing
  <2>4. {s[i] : i \in DOMAIN s} = map /\ list.cnt = Len(s)
    BY <2>2 DEF Members, Chain
  <2> QED BY <2>1, <2>3, <2>4 DEF ListMatchesMap
<1> QED BY <1>1, SpecCacheInv, PTL

(* add keeps the cache within its size, and a key is in the map exactly    *)
(* when its node has a value.                                              *)
THEOREM SpecSizeKept == Spec => []SizeKept
<1>1. CacheInv => SizeKept
  <2> SUFFICES ASSUME CacheInv PROVE SizeKept
    OBVIOUS
  <2>1. PICK s : s = Order
    OBVIOUS
  <2>2. Chain(s, list) /\ map = Members(s) /\ (Size # 0 => Len(s) <= Size)
    BY <2>1, ListingNow
  <2>3. Cardinality(map) = Len(s)
    BY <2>2, OrderIs DEF Listing
  <2> QED BY <2>2, <2>3 DEF SizeKept, CacheInv, Bounded
<1> QED BY <1>1, SpecCacheInv, PTL

(* Every step of the linked list is the same step of the dictionary.       *)
LEMMA StepSorted == CacheInv /\ [Next]_cacheVars => [Lru!Next]_(Lru!vars)
<1> SUFFICES ASSUME CacheInv, [Next]_cacheVars PROVE [Lru!Next]_(Lru!vars)
  OBVIOUS
<1>1. PICK s : s = Order
  OBVIOUS
<1>2. /\ s \in Seq(Keys) /\ \A i, j \in 1..Len(s) : s[i] = s[j] => i = j
      /\ map = Members(s) /\ (Size # 0 => Len(s) <= Size) /\ Chain(s, list)
  BY <1>1, ListingNow
<1>3. /\ Lru!Cached = Members(s)
      /\ \A k \in Keys : Lru!Without(k) = Less(s, k)
      /\ \A k \in Keys : Lru!Touched(k) = Pushed(k, Less(s, k))
  BY <1>1, <1>2, LruOperators
<1>4. \A k \in Keys : k \in map <=> value[k] # Null
  BY DEF CacheInv, Bounded
<1>5. value \in [Keys -> Values \cup {Null}]
  BY DEF CacheInv, TypeOK
<1>6. ASSUME NEW k \in Keys, Get(k) PROVE Lru!Get(k)
  <2>1. Order' = IF k \in Members(s) THEN Pushed(k, Less(s, k)) ELSE s
    BY <1>1, <1>6, GetListing
  <2>2. answer' = value[k] /\ value' = value
    BY <1>4, <1>6 DEF Get
  <2> QED BY <1>1, <1>3, <2>1, <2>2 DEF Lru!Get
<1>7. ASSUME NEW k \in Keys, Delete(k) PROVE Lru!Drop(k)
  <2>1. Order' = Less(s, k)
    BY <1>1, <1>7, DeleteListing
  <2> QED BY <1>3, <1>7, <2>1 DEF Lru!Drop, Delete
<1>8. ASSUME NEW k \in Keys, NEW v \in Values, Add(k, v) PROVE Lru!Add(k, v)
  <2> DEFINE p == Pushed(k, s)
             q == Shortened(p)
  <2>1. /\ Order' = q
        /\ value' = [x \in Keys |-> IF x = k THEN v
                                    ELSE IF x \in Members(q) THEN value[x] ELSE Null]
        /\ k \in Members(q)
    BY <1>1, <1>8, AddListing
  <2>2. p \in Seq(Keys) /\ Len(p) = Len(s) + 1 /\ p = <<k>> \o s
    BY <1>2, PushedIs
  <2>3. Lru!Limited(<<k>> \o s) = q
    <3>1. Size # 0 => Len(p) <= Size + 1
      BY <1>2, <2>2, CacheAssumption
    <3> HIDE DEF p
    <3> QED BY <2>2, <3>1, LimitedIs
  <2>4. Lru!ToSet(q) = Members(q)
    <3>1. q \in Seq(Keys)
      <4>1. CacheInv'
        BY <1>1, <1>8, AddListing
      <4>2. Chain(q, list')
        <5> HIDE DEF q
        <5> QED BY <2>1, <4>1 DEF CacheInv, Listed, Listing
      <4> HIDE DEF q
      <4> QED BY <4>2 DEF Chain
    <3> HIDE DEF q
    <3> QED BY <3>1 DEF Lru!ToSet, Members
  <2> HIDE DEF q, p
  <2>5. value' = Lru!Of(q, [value EXCEPT ![k] = v])
    BY <1>5, <2>1, <2>4 DEF Lru!Of
  <2> QED BY <1>1, <1>2, <1>3, <1>8, <2>1, <2>3, <2>5 DEF Lru!Add, Add
<1>9. ASSUME NEW k \in Keys, NEW v \in Values, Replace(k, v) PROVE Lru!Replace(k, v)
  <2>1. Order' = Pushed(k, Less(s, k)) /\ k \in Members(s) /\ value' = [value EXCEPT ![k] = v]
    BY <1>1, <1>9, ReplaceListing
  <2> QED BY <1>3, <1>9, <2>1 DEF Lru!Replace, Replace
<1>10. ASSUME Clear PROVE Lru!Clear
  BY <1>10, ClearListing DEF Lru!Clear, Clear
<1>11. ASSUME UNCHANGED cacheVars PROVE UNCHANGED Lru!vars
  <2>1. list' = list /\ map' = map
    BY <1>11 DEF cacheVars
  <2>2. Listing(s)'
    BY <1>2, <2>1 DEF Listing
  <2>3. Order' = s
    BY <2>2, OrderIsPrimed
  <2> QED BY <1>1, <1>11, <2>3 DEF cacheVars, Lru!vars
<1> QED BY <1>6, <1>7, <1>8, <1>9, <1>10, <1>11 DEF Next, Lru!Next

(* The linked list with its map, through push_front, pop, move_to_front    *)
(* and the removal in add, is the dictionary "with limited size, sorted by *)
(* access order" that the comment of dmcache.h promises.                   *)
THEOREM SpecSortedByAccess == Spec => SortedByAccess
<1>1. Init => Lru!Init
  BY InitListing DEF Init, Lru!Init
<1> QED BY <1>1, StepSorted, SpecCacheInv, PTL DEF Spec, SortedByAccess, Lru!Spec
=============================================================================
