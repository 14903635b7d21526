--------------------------- MODULE DatabaseProofs ---------------------------
(***************************************************************************)
(* The side of the program that talks to the database: the blocks of a     *)
(* raster with their cache, and the thread that executes the statements.   *)
(*                                                                         *)
(* The cells of a raster survive the cache, the labels and the queue of    *)
(* the database, for every number of blocks, every size of the cache and   *)
(* every number of blocks dropped at once.  The argument is about one      *)
(* table, Content: what a block holds in the cache, or else what the       *)
(* database will hold of it once the queue is executed.  Dropping a block  *)
(* and saving one leave it as it is.  The list is that of CacheProofs.     *)
(***************************************************************************)
EXTENDS RasterBlocks, DBWorker, Lineage, FiniteSetTheorems, SequenceTheorems

K == INSTANCE CacheProofs WITH Keys <- Blocks, Values <- 0..MaxWrites, Size <- CacheSize

Tables == [Blocks -> 0..MaxWrites \cup {Null}]
States == [map : SUBSET Blocks, list : K!Links, value : Tables,
           isInserted : [Blocks -> BOOLEAN], queue : Seq(Statement)]

LEMMA KAssumption == K!CacheAssumption
  BY RasterAssumption DEF K!CacheAssumption

-----------------------------------------------------------------------------
(* The table after the statements of a queue. *)

LEMMA ExecutedTyped ==
  ASSUME NEW t \in Tables, NEW q \in Statement
  PROVE  Executed(t, q) \in Tables
<1>1. CASE q.op = "insert" \/ q.op = "update"
  <2>1. q.block \in Blocks /\ q.data \in 0..MaxWrites
    BY <1>1 DEF Statement
  <2> QED BY <1>1, <2>1 DEF Executed, Tables
<1>2. CASE q.op = "delete"
  BY <1>2 DEF Executed, Tables, NoRows
<1> QED BY <1>1, <1>2 DEF Statement

(* f[n] is the table after n statements. *)
Runs(f, t, qs) ==
  /\ f[0] = t
  /\ \A n \in 1..Len(qs) : f[n] = Executed(f[n - 1], qs[n])

LEMMA AppliedRuns ==
  ASSUME NEW t \in Tables, NEW qs \in Seq(Statement)
  PROVE  \E f : /\ Runs(f, t, qs) /\ Applied(t, qs) = f[Len(qs)]
                /\ \A n \in 0..Len(qs) : f[n] \in Tables
<1> DEFINE N == Len(qs)
           S == [n \in 0..N |-> Tables]
           step == [n \in 1..N |-> [x \in Tables |-> Executed(x, qs[n])]]
           Table == CHOOSE f : f = [n \in 0..N |-> IF n = 0 THEN t ELSE Executed(f[n - 1], qs[n])]
<1>n. N \in Nat
  OBVIOUS
<1>1. \A n \in 0..N : S[n] = Tables
  OBVIOUS
<1>2. \A n \in 1..N : \A x \in Tables : step[n][x] = Executed(x, qs[n]) /\ step[n][x] \in Tables
  <2>1. \A n \in 1..N : qs[n] \in Statement
    OBVIOUS
  <2> QED BY <2>1, ExecutedTyped
<1>3. \A n \in 1..N : n \in 0..N /\ n - 1 \in 0..N /\ n # 0
  BY <1>n
<1> HIDE DEF N, S, step
<1>4. t \in S[0] /\ \A n \in 1..N : \A x \in S[n - 1] : step[n][x] \in S[n]
  <2>1. 0 \in 0..N
    BY <1>n
  <2> QED BY <1>1, <1>2, <1>3, <2>1
<1>5. PICK g : Loop(g, N, t, step) /\ \A n \in 0..N : g[n] \in S[n]
  BY <1>n, <1>4, Recursion
<1>6. g = [n \in 0..N |-> IF n = 0 THEN t ELSE Executed(g[n - 1], qs[n])]
  <2> DEFINE h == [n \in 0..N |-> IF n = 0 THEN t ELSE Executed(g[n - 1], qs[n])]
  <2>1. \A n \in 0..N : n = 0 \/ n \in 1..N
    BY <1>n
  <2>2. \A n \in 1..N : step[n][g[n - 1]] = Executed(g[n - 1], qs[n])
    BY <1>1, <1>2, <1>3, <1>5
  <2>3. \A n \in 0..N : g[n] = h[n]
    BY <1>5, <2>1, <2>2 DEF Loop
  <2>4. g = h
    BY <1>5, <2>3 DEF Loop
  <2> QED BY <2>4
<1>7. Table = [n \in 0..N |-> IF n = 0 THEN t ELSE Executed(Table[n - 1], qs[n])]
  BY <1>6
<1> HIDE DEF Table
<1>8. Table[0] = t /\ \A n \in 1..N : Table[n] = Executed(Table[n - 1], qs[n])
  <2>1. 0 \in 0..N
    BY <1>n
  <2> QED BY <1>3, <1>7, <2>1
<1>9. \A n \in 0..N : Table[n] \in S[n]
  <2>1. Table[0] \in S[0]
    BY <1>4, <1>8
  <2>2. ASSUME NEW n \in 1..N, Table[n - 1] \in S[n - 1] PROVE Table[n] \in S[n]
    <3>1. Table[n] = step[n][Table[n - 1]]
      BY <1>1, <1>2, <1>3, <1>8, <2>2
    <3> QED BY <1>4, <2>2, <3>1
  <2> QED BY <1>n, <2>1, <2>2, Induction
<1>10. Applied(t, qs) = Table[N]
  BY DEF Applied, Table, N
<1>11. Runs(Table, t, qs) /\ \A n \in 0..Len(qs) : Table[n] \in Tables
  BY <1>1, <1>8, <1>9 DEF Runs, N
<1> QED BY <1>10, <1>11 DEF N

(* The recursion has one solution only. *)
LEMMA RunsAgree ==
  ASSUME NEW N \in Nat, NEW f, NEW g, f[0] = g[0],
         \A n \in 1..N : f[n - 1] = g[n - 1] => f[n] = g[n]
  PROVE  f[N] = g[N]
<1> DEFINE S == [n \in 0..N |-> {g[n]}]
<1>1. \A n \in 0..N : f[n] \in S[n] <=> f[n] = g[n]
  OBVIOUS
<1>2. 0 \in 0..N /\ N \in 0..N /\ \A n \in 1..N : n \in 0..N /\ n - 1 \in 0..N
  OBVIOUS
<1> HIDE DEF S
<1>3. f[0] \in S[0] /\ \A n \in 1..N : f[n - 1] \in S[n - 1] => f[n] \in S[n]
  BY <1>1, <1>2
<1>4. \A n \in 0..N : f[n] \in S[n]
  BY <1>3, Induction
<1> QED BY <1>1, <1>2, <1>4

LEMMA AppliedTyped ==
  ASSUME NEW t \in Tables, NEW qs \in Seq(Statement)
  PROVE  Applied(t, qs) \in Tables
<1>1. Len(qs) \in 0..Len(qs)
  OBVIOUS
<1> QED BY <1>1, AppliedRuns

LEMMA AppliedEmpty ==
  ASSUME NEW t \in Tables
  PROVE  Applied(t, <<>>) = t
<1>1. <<>> \in Seq(Statement) /\ Len(<<>>) = 0
  OBVIOUS
<1>2. PICK f : Runs(f, t, <<>>) /\ Applied(t, <<>>) = f[Len(<<>>)]
  BY <1>1, AppliedRuns
<1> QED BY <1>1, <1>2 DEF Runs

LEMMA AppliedAppend ==
  ASSUME NEW t \in Tables, NEW qs \in Seq(Statement), NEW q \in Statement
  PROVE  Applied(t, Append(qs, q)) = Executed(Applied(t, qs), q)
<1> DEFINE N == Len(qs)
           more == Append(qs, q)
<1>1. /\ N \in Nat /\ N + 1 \in 1..N + 1 /\ (N + 1) - 1 = N
      /\ \A n \in 1..N : n \in 1..N + 1
      /\ more \in Seq(Statement) /\ Len(more) = N + 1 /\ more[N + 1] = q
      /\ \A n \in 1..N : more[n] = qs[n]
  OBVIOUS
<1> HIDE DEF more
<1>2. PICK f : Runs(f, t, qs) /\ Applied(t, qs) = f[N]
  BY AppliedRuns
<1>3. PICK g : Runs(g, t, more) /\ Applied(t, more) = g[N + 1]
  BY <1>1, AppliedRuns
<1>4. \A n \in 1..N : f[n] = Executed(f[n - 1], qs[n]) /\ g[n] = Executed(g[n - 1], qs[n])
  BY <1>1, <1>2, <1>3 DEF Runs
<1>5. f[0] = g[0]
  BY <1>2, <1>3 DEF Runs
<1> HIDE DEF N
<1>6. f[N] = g[N]
  <2>1. \A n \in 1..N : f[n - 1] = g[n - 1] => f[n] = g[n]
    BY <1>4
  <2> QED BY <1>1, <1>5, <2>1, RunsAgree, Zenon
<1>7. g[N + 1] = Executed(g[N], q)
  BY <1>1, <1>3 DEF Runs
<1> QED BY <1>2, <1>3, <1>6, <1>7 DEF more

LEMMA AppliedTail ==
  ASSUME NEW t \in Tables, NEW qs \in Seq(Statement), qs # <<>>
  PROVE  Applied(Executed(t, Head(qs)), Tail(qs)) = Applied(t, qs)
<1> DEFINE N == Len(Tail(qs))
           first == Executed(t, Head(qs))
<1>1. /\ N \in Nat /\ Len(qs) = N + 1 /\ Tail(qs) \in Seq(Statement)
      /\ Head(qs) = qs[1] /\ qs[1] \in Statement /\ 1 \in 1..N + 1
      /\ \A n \in 1..N : Tail(qs)[n] = qs[n + 1]
  OBVIOUS
<1>2. first \in Tables
  BY <1>1, ExecutedTyped
<1> HIDE DEF first
<1>3. PICK f : Runs(f, first, Tail(qs)) /\ Applied(first, Tail(qs)) = f[N]
  BY <1>1, <1>2, AppliedRuns
<1>4. PICK g : Runs(g, t, qs) /\ Applied(t, qs) = g[N + 1]
  BY <1>1, AppliedRuns
<1> DEFINE h == [n \in 0..N |-> g[n + 1]]
<1>5. \A n \in 0..N : h[n] = g[n + 1]
  OBVIOUS
<1> HIDE DEF h
<1>6. f[0] = h[0]
  <2>1. g[1] = Executed(g[1 - 1], qs[1])
    BY <1>1, <1>4 DEF Runs
  <2>2. 1 - 1 = 0 /\ 0 + 1 = 1 /\ 0 \in 0..N
    BY <1>1
  <2>3. f[0] = first /\ g[0] = t
    BY <1>3, <1>4 DEF Runs
  <2> QED BY <1>1, <1>5, <2>1, <2>2, <2>3 DEF first
<1>7. \A n \in 1..N : f[n] = Executed(f[n - 1], qs[n + 1])
  BY <1>1, <1>3 DEF Runs
<1>8. \A n \in 1..N : h[n] = Executed(h[n - 1], qs[n + 1])
  <2> TAKE n \in 1..N
  <2>1. n \in 0..N /\ n - 1 \in 0..N /\ (n - 1) + 1 = n /\ n + 1 \in 1..N + 1 /\ (n + 1) - 1 = n
    BY <1>1
  <2>2. g[n + 1] = Executed(g[(n + 1) - 1], qs[n + 1])
    BY <1>1, <1>4, <2>1 DEF Runs
  <2>3. h[n] = g[n + 1] /\ h[n - 1] = g[n]
    BY <1>5, <2>1
  <2> QED BY <2>1, <2>2, <2>3
<1> HIDE DEF N
<1>9. f[N] = h[N]
  BY <1>1, <1>6, <1>7, <1>8, RunsAgree
<1>10. h[N] = g[N + 1]
  BY <1>1, <1>5
<1> QED BY <1>3, <1>4, <1>9, <1>10 DEF first

-----------------------------------------------------------------------------
(* A state of the cache, the labels and the queue, over the rows t. *)

Listed(st) == \E s : K!Chain(s, st.list) /\ st.map = K!Members(s)
Sound(st) ==
  /\ st \in States /\ Listed(st)
  /\ \A k \in Blocks : k \in st.map <=> st.value[k] # Null
Labelled(st, t) == \A k \in Blocks : Applied(t, st.queue)[k] # Null <=> st.isInserted[k]
Content(st, t) ==
  [k \in Blocks |-> IF k \in st.map THEN st.value[k] ELSE Applied(t, st.queue)[k]]
Holds(st, t, c) == Sound(st) /\ Labelled(st, t) /\ Content(st, t) = c

LEMMA ListOperators ==
  ASSUME NEW l, NEW k
  PROVE  /\ C!Unlinked(l, k) = K!Unlinked(l, k)
         /\ C!PushFront(l, k) = K!PushFront(l, k)
         /\ C!MovedToFront(l, k) = K!MovedToFront(l, k)
         /\ C!Empty = K!Empty
  BY DEF C!Unlinked, K!Unlinked, C!PushFront, K!PushFront, C!MovedToFront, K!MovedToFront,
         C!Pop, K!Pop, C!Empty, K!Empty, C!NoLinks, K!NoLinks

LEMMA CountIs ==
  ASSUME NEW st, Sound(st)
  PROVE  st.list.cnt \in Nat /\ (st.map = {} <=> st.list.cnt = 0)
<1>1. PICK s : K!Chain(s, st.list) /\ st.map = K!Members(s)
  BY DEF Sound, Listed
<1>2. s \in Seq(Blocks) /\ st.list.cnt = Len(s)
  BY <1>1 DEF K!Chain
<1>3. Len(s) \in Nat /\ (Len(s) # 0 <=> 1 \in 1..Len(s))
  BY <1>2
<1>4. Len(s) = 0 => 1..Len(s) = {}
  OBVIOUS
<1> QED BY <1>1, <1>2, <1>3, <1>4 DEF K!Members

LEMMA SaveIs ==
  ASSUME NEW t \in Tables, NEW st \in States, Labelled(st, t),
         NEW k \in Blocks, NEW v \in 0..MaxWrites
  PROVE  LET new == SaveToDb(st, k, v)
         IN /\ new \in States /\ Labelled(new, t)
            /\ new.map = st.map /\ new.list = st.list /\ new.value = st.value
            /\ Applied(t, new.queue) = [Applied(t, st.queue) EXCEPT ![k] = v]
<1> DEFINE new == SaveToDb(st, k, v)
           q == [op |-> IF st.isInserted[k] THEN "update" ELSE "insert", block |-> k, data |-> v]
           old == Applied(t, st.queue)
<1>s. st = [map |-> st.map, list |-> st.list, value |-> st.value,
            isInserted |-> st.isInserted, queue |-> st.queue]
  BY DEF States
<1> HIDE DEF q
<1>n. new = [map |-> st.map, list |-> st.list, value |-> st.value,
             isInserted |-> [st.isInserted EXCEPT ![k] = TRUE], queue |-> Append(st.queue, q)]
  <2>1. new = [st EXCEPT !.queue = Append(@, q), !.isInserted[k] = TRUE]
    BY DEF SaveToDb, q
  <2> HIDE DEF new
  <2>2. new = [st EXCEPT !.queue = Append(st.queue, q),
                         !.isInserted = [st.isInserted EXCEPT ![k] = TRUE]]
    BY <2>1
  <2> QED BY <1>s, <2>2
<1>1. /\ new.map = st.map /\ new.list = st.list /\ new.value = st.value
      /\ new.queue = Append(st.queue, q)
      /\ new.isInserted = [st.isInserted EXCEPT ![k] = TRUE]
  <2> HIDE DEF new
  <2> QED BY <1>n
<1>2. /\ st.map \in SUBSET Blocks /\ st.list \in K!Links /\ st.value \in Tables
      /\ st.isInserted \in [Blocks -> BOOLEAN] /\ st.queue \in Seq(Statement)
  BY DEF States
<1>3. q \in Statement
  BY DEF Statement, q
<1>4. q.block = k /\ q.data = v /\ q.op = IF st.isInserted[k] THEN "update" ELSE "insert"
  BY DEF q
<1> HIDE DEF new
<1>5. new \in States
  <2>1. Append(st.queue, q) \in Seq(Statement)
    BY <1>2, <1>3
  <2>2. [st.isInserted EXCEPT ![k] = TRUE] \in [Blocks -> BOOLEAN]
    BY <1>2
  <2> QED BY <1>n, <1>2, <2>1, <2>2 DEF States
<1>6. Applied(t, new.queue) = Executed(old, q)
  BY <1>1, <1>2, <1>3, AppliedAppend
<1>7. old \in Tables
  BY <1>2, AppliedTyped
<1>8. old[k] # Null <=> st.isInserted[k]
  BY DEF Labelled
<1> HIDE DEF old
<1>9. Executed(old, q) = [old EXCEPT ![k] = v]
  <2>1. CASE st.isInserted[k]
    <3>1. Executed(old, q) = [old EXCEPT ![k] = IF old[k] = Null THEN old[k] ELSE v]
      BY <1>4, <1>7, <2>1 DEF Executed, Tables
    <3> QED BY <1>8, <2>1, <3>1
  <2>2. CASE ~ st.isInserted[k]
    <3>1. Executed(old, q) = [old EXCEPT ![k] = IF old[k] = Null THEN v ELSE old[k]]
      BY <1>4, <1>7, <2>2 DEF Executed, Tables
    <3> QED BY <1>8, <2>2, <3>1
  <2> QED BY <2>1, <2>2
<1>10. v # Null
  BY RasterAssumption
<1>11. Labelled(new, t)
  <2> SUFFICES ASSUME NEW x \in Blocks
               PROVE  Applied(t, new.queue)[x] # Null <=> new.isInserted[x]
    BY DEF Labelled
  <2>1. Applied(t, new.queue)[x] = IF x = k THEN v ELSE old[x]
    BY <1>6, <1>7, <1>9 DEF Tables
  <2>2. new.isInserted[x] <=> x = k \/ st.isInserted[x]
    BY <1>1, <1>2
  <2>3. old[x] # Null <=> st.isInserted[x]
    BY DEF Labelled, old
  <2> QED BY <1>10, <2>1, <2>2, <2>3
<1> QED BY <1>1, <1>5, <1>6, <1>9, <1>11 DEF new, old

LEMMA SaveMarks ==
  ASSUME NEW st \in States, NEW k, NEW v
  PROVE  SaveToDb(st, k, v).isInserted = [st.isInserted EXCEPT ![k] = TRUE]
<1> DEFINE q == [op |-> IF st.isInserted[k] THEN "update" ELSE "insert", block |-> k, data |-> v]
<1> HIDE DEF q
<1>1. SaveToDb(st, k, v) = [st EXCEPT !.queue = Append(@, q), !.isInserted[k] = TRUE]
  BY DEF SaveToDb, q
<1>2. st = [map |-> st.map, list |-> st.list, value |-> st.value,
            isInserted |-> st.isInserted, queue |-> st.queue]
  BY DEF States
<1> QED BY <1>1, <1>2

(* No block of the cache has a row: none was saved and kept.               *)
Unsaved(st) == \A k \in st.map : ~ st.isInserted[k]

(* Dropping a block changes nothing but the place where it is. *)
LEMMA DropIs ==
  ASSUME NEW t \in Tables, NEW c, NEW st, Holds(st, t, c), Unsaved(st)
  PROVE  /\ Holds(DropLast(st), t, c) /\ Unsaved(DropLast(st))
         /\ DropLast(st).list.cnt = IF st.list.cnt <= 1 THEN st.list.cnt ELSE st.list.cnt - 1
<1>1. CASE st.list.cnt <= 1
  BY <1>1 DEF DropLast
<1>2. CASE ~ (st.list.cnt <= 1)
  <2> DEFINE k == st.list.last
             stored == SaveToDb(st, k, st.value[k])
             new == DropLast(st)
  <2>s. st \in States /\ Sound(st) /\ Labelled(st, t) /\ Content(st, t) = c
    BY DEF Holds, Sound
  <2>1. PICK s : K!Chain(s, st.list) /\ st.map = K!Members(s)
    BY <2>s DEF Sound, Listed
  <2>2. /\ s \in Seq(Blocks) /\ st.list.cnt = Len(s) /\ k = K!At(s, Len(s))
        /\ \A i, j \in 1..Len(s) : s[i] = s[j] => i = j
    BY <2>1 DEF K!Chain
  <2>3. Len(s) \in 1..Len(s)
    BY <1>2, <2>2
  <2>4. k = s[Len(s)] /\ k \in Blocks /\ k \in st.map
    BY <2>1, <2>2, <2>3 DEF K!At, K!Members
  <2>5. st.value \in Tables /\ st.value[k] \in 0..MaxWrites /\ st.list \in K!Links
    BY <2>s, <2>4 DEF Sound, States, Tables
  <2>6. /\ stored \in States /\ Labelled(stored, t)
        /\ stored.map = st.map /\ stored.list = st.list /\ stored.value = st.value
        /\ Applied(t, stored.queue) = [Applied(t, st.queue) EXCEPT ![k] = st.value[k]]
    BY <2>s, <2>4, <2>5, SaveIs
  <2>7. new = [stored EXCEPT !.list = C!Unlinked(stored.list, k), !.map = stored.map \ {k},
                            !.value = [stored.value EXCEPT ![k] = Null]]
    BY <1>2 DEF DropLast
  <2> HIDE DEF new, stored
  <2>n. new = [map |-> st.map \ {k}, list |-> C!Unlinked(st.list, k),
               value |-> [st.value EXCEPT ![k] = Null],
               isInserted |-> stored.isInserted, queue |-> stored.queue]
    <3>1. stored = [map |-> stored.map, list |-> stored.list, value |-> stored.value,
                   isInserted |-> stored.isInserted, queue |-> stored.queue]
      BY <2>6 DEF States
    <3> QED BY <2>6, <2>7, <3>1
  <2>8. /\ new.map = st.map \ {k} /\ new.list = K!Unlinked(st.list, k)
        /\ new.value = [st.value EXCEPT ![k] = Null]
        /\ new.isInserted = stored.isInserted /\ new.queue = stored.queue
        /\ new = [map |-> new.map, list |-> new.list, value |-> new.value,
                  isInserted |-> new.isInserted, queue |-> new.queue]
    BY <2>n, ListOperators
  <2>9. new.list \in K!Links /\ K!Chain(K!Skipped(s, Len(s)), new.list)
    BY <2>1, <2>3, <2>4, <2>5, <2>8, KAssumption, K!UnlinkedChain
  <2>10. K!Members(K!Skipped(s, Len(s))) = new.map /\ Len(K!Skipped(s, Len(s))) = Len(s) - 1
    BY <2>1, <2>2, <2>3, <2>4, <2>8, KAssumption, K!SkippedIs
  <2>11. new.value \in Tables
    BY <2>5, <2>8 DEF Tables
  <2>12. new \in States
    BY <2>6, <2>8, <2>9, <2>11, <2>s DEF States
  <2>13. new.list.cnt = st.list.cnt - 1
    BY <2>2, <2>9, <2>10 DEF K!Chain
  <2>14. \A x \in Blocks : x \in new.map <=> new.value[x] # Null
    BY <2>4, <2>5, <2>8, <2>s DEF Sound, Tables
  <2>15. Sound(new)
    BY <2>9, <2>10, <2>12, <2>14 DEF Sound, Listed
  <2>16. Labelled(new, t)
    BY <2>6, <2>8 DEF Labelled
  <2>17. Content(new, t) = c
    <3>1. st.queue \in Seq(Statement)
      BY <2>s DEF States
    <3>2. Applied(t, st.queue) \in Tables
      BY <3>1, AppliedTyped
    <3>3. \A x \in Blocks : Applied(t, new.queue)[x] = IF x = k THEN st.value[k]
                                                       ELSE Applied(t, st.queue)[x]
      BY <2>6, <2>8, <3>2 DEF Tables
    <3>4. \A x \in Blocks : x \in new.map => new.value[x] = st.value[x]
      BY <2>5, <2>8 DEF Tables
    <3>5. \A x \in Blocks : (IF x \in new.map THEN new.value[x] ELSE Applied(t, new.queue)[x])
                          = (IF x \in st.map THEN st.value[x] ELSE Applied(t, st.queue)[x])
      BY <2>4, <2>8, <3>3, <3>4
    <3>6. Content(new, t) = Content(st, t)
      BY <3>5 DEF Content
    <3> QED BY <2>s, <3>6
  <2>18. Unsaved(new)
    <3>1. st.map \in SUBSET Blocks /\ st.isInserted \in [Blocks -> BOOLEAN]
      BY <2>s DEF States
    <3>2. new.isInserted = [st.isInserted EXCEPT ![k] = TRUE]
      BY <2>s, <2>8, SaveMarks DEF stored
    <3> QED BY <2>8, <3>1, <3>2 DEF Unsaved
  <2> QED BY <1>2, <2>13, <2>15, <2>16, <2>17, <2>18 DEF Holds, new
<1> QED BY <1>1, <1>2

(* A new key: NoValue everywhere, and at most CacheSize blocks afterwards. *)
WithNew(st, k) == [st EXCEPT !.list = C!PushFront(@, k), !.map = @ \cup {k}, !.value[k] = 0]

LEMMA WithNewIs ==
  ASSUME NEW t \in Tables, NEW c, NEW st, Holds(st, t, c), NEW k \in Blocks, c[k] = Null,
         Unsaved(st)
  PROVE  /\ Holds(WithNew(st, k), t, [c EXCEPT ![k] = 0]) /\ Unsaved(WithNew(st, k))
         /\ WithNew(st, k).list.cnt = st.list.cnt + 1
<1> DEFINE new == WithNew(st, k)
<1>s. st \in States /\ Sound(st) /\ Labelled(st, t) /\ Content(st, t) = c
  BY DEF Holds, Sound
<1>1. PICK s : K!Chain(s, st.list) /\ st.map = K!Members(s)
  BY <1>s DEF Sound, Listed
<1>2. s \in Seq(Blocks) /\ st.list.cnt = Len(s) /\ Len(s) \in Nat
  BY <1>1 DEF K!Chain
<1>3. k \notin st.map
  BY <1>s DEF Content, Sound
<1>4. /\ st.map \in SUBSET Blocks /\ st.list \in K!Links /\ st.value \in Tables
      /\ st.isInserted \in [Blocks -> BOOLEAN] /\ st.queue \in Seq(Statement)
  BY <1>s DEF States
<1>n. new = [map |-> st.map \cup {k}, list |-> C!PushFront(st.list, k),
             value |-> [st.value EXCEPT ![k] = 0],
             isInserted |-> st.isInserted, queue |-> st.queue]
  <2>1. new = [st EXCEPT !.list = C!PushFront(st.list, k), !.map = st.map \cup {k},
                         !.value = [st.value EXCEPT ![k] = 0]]
    BY DEF WithNew
  <2> HIDE DEF new
  <2>2. st = [map |-> st.map, list |-> st.list, value |-> st.value,
              isInserted |-> st.isInserted, queue |-> st.queue]
    BY <1>s DEF States
  <2> QED BY <2>1, <2>2
<1>5. /\ new.map = st.map \cup {k} /\ new.list = K!PushFront(st.list, k)
      /\ new.value = [st.value EXCEPT ![k] = 0]
      /\ new.isInserted = st.isInserted /\ new.queue = st.queue
  <2> HIDE DEF new
  <2> QED BY <1>n, ListOperators
<1> HIDE DEF new
<1>6. new.list \in K!Links /\ K!Chain(K!Pushed(k, s), new.list)
  BY <1>1, <1>3, <1>4, <1>5, KAssumption, K!PushFrontChain
<1>7. K!Members(K!Pushed(k, s)) = new.map /\ Len(K!Pushed(k, s)) = Len(s) + 1
  BY <1>1, <1>2, <1>5, KAssumption, K!PushedIs
<1>8. 0 \in 0..MaxWrites /\ 0 # Null
  BY RasterAssumption
<1>9. new.value \in Tables
  BY <1>4, <1>5, <1>8 DEF Tables
<1>10. new \in States
  BY <1>4, <1>n, <1>5, <1>6, <1>9 DEF States
<1>11. \A x \in Blocks : x \in new.map <=> new.value[x] # Null
  BY <1>s, <1>4, <1>5, <1>8 DEF Sound, Tables
<1>12. Sound(new)
  BY <1>6, <1>7, <1>10, <1>11 DEF Sound, Listed
<1>13. Labelled(new, t)
  BY <1>s, <1>5 DEF Labelled
<1>14. Content(new, t) = [c EXCEPT ![k] = 0]
  <2>1. \A x \in Blocks : (IF x \in new.map THEN new.value[x] ELSE Applied(t, new.queue)[x])
                        = (IF x = k THEN 0 ELSE c[x])
    BY <1>s, <1>4, <1>5 DEF Content, Tables
  <2>2. Content(new, t) = [x \in Blocks |-> IF x = k THEN 0 ELSE c[x]]
    BY <2>1 DEF Content
  <2>3. c = [x \in Blocks |-> c[x]]
    BY <1>s DEF Content
  <2>4. [c EXCEPT ![k] = 0] = [x \in Blocks |-> IF x = k THEN 0 ELSE c[x]]
    BY <2>3
  <2> QED BY <2>2, <2>4
<1>15. new.list.cnt = st.list.cnt + 1
  BY <1>2, <1>6, <1>7 DEF K!Chain
<1>16. Unsaved(new)
  <2>1. Applied(t, st.queue)[k] = Null
    BY <1>s, <1>3 DEF Content
  <2>2. ~ st.isInserted[k]
    BY <1>s, <2>1 DEF Labelled
  <2> QED BY <1>5, <2>2 DEF Unsaved
<1> QED BY <1>12, <1>13, <1>14, <1>15, <1>16 DEF Holds, new

LEMMA DbAddIs ==
  ASSUME NEW t \in Tables, NEW c, NEW st, Holds(st, t, c), NEW k \in Blocks, c[k] = Null,
         Unsaved(st), st.list.cnt <= CacheSize
  PROVE  /\ Holds(DbAdd(st, k), t, [c EXCEPT ![k] = 0]) /\ Unsaved(DbAdd(st, k))
         /\ DbAdd(st, k).list.cnt \in 1..CacheSize
<1> DEFINE more == WithNew(st, k)
           B == BlockWriting
           d == [c EXCEPT ![k] = 0]
           Good(x, n) == /\ Holds(x, t, d) /\ Unsaved(x)
                         /\ x.list.cnt \in 1..(IF n = 0 THEN CacheSize + 1 ELSE CacheSize)
           S == [n \in 0..B |-> {x \in States : Good(x, n)}]
           step == [n \in 1..B |-> [x \in States |-> DropLast(x)]]
           Dropped == CHOOSE f : f = [n \in 0..B |-> IF n = 0 THEN more ELSE DropLast(f[n - 1])]
<1>a. B \in Nat \ {0} /\ CacheSize \in Nat \ {0}
  BY RasterAssumption
<1>1. Holds(more, t, d) /\ Unsaved(more) /\ more.list.cnt = st.list.cnt + 1
  BY WithNewIs
<1>2. DbAdd(st, k) = IF more.list.cnt > CacheSize THEN Dropped[B] ELSE more
  BY DEF DbAdd, Full, WithNew
<1> HIDE DEF more, d
<1>c. st.list.cnt \in Nat
  BY CountIs DEF Holds
<1>3. more.list.cnt \in 1..CacheSize + 1
  BY <1>a, <1>c, <1>1
<1>4. CASE ~ (more.list.cnt > CacheSize)
  BY <1>a, <1>1, <1>2, <1>3, <1>4 DEF d
<1>5. CASE more.list.cnt > CacheSize
  <2>1. \A n \in 0..B : \A x : x \in S[n] <=> x \in States /\ Good(x, n)
    OBVIOUS
  <2>2. \A n \in 1..B : \A x \in States : step[n][x] = DropLast(x)
    OBVIOUS
  <2>3. \A n \in 1..B : n \in 0..B /\ n - 1 \in 0..B /\ n # 0
    BY <1>a
  <2> HIDE DEF S, step
  <2>4. more \in S[0]
    <3>1. 0 \in 0..B /\ more \in States
      BY <1>a, <1>1 DEF Holds, Sound
    <3> QED BY <1>1, <1>3, <2>1, <3>1
  <2>5. \A n \in 1..B : \A x \in S[n - 1] : x \in States /\ DropLast(x) \in S[n]
    <3> TAKE n \in 1..B
    <3> TAKE x \in S[n - 1]
    <3>1. x \in States /\ Holds(x, t, d) /\ Unsaved(x) /\ x.list.cnt \in 1..CacheSize + 1
      BY <1>a, <2>1, <2>3
    <3>2. /\ Holds(DropLast(x), t, d) /\ Unsaved(DropLast(x))
          /\ DropLast(x).list.cnt = IF x.list.cnt <= 1 THEN x.list.cnt ELSE x.list.cnt - 1
      BY <3>1, DropIs
    <3>3. DropLast(x) \in States
      BY <3>2 DEF Holds, Sound
    <3>4. DropLast(x).list.cnt \in 1..CacheSize
      BY <1>a, <3>1, <3>2
    <3> QED BY <2>1, <2>3, <3>1, <3>2, <3>3, <3>4
  <2>6. \A n \in 1..B : \A x \in S[n - 1] : step[n][x] \in S[n]
    BY <2>2, <2>5
  <2>7. PICK g : Loop(g, B, more, step) /\ \A n \in 0..B : g[n] \in S[n]
    BY <1>a, <2>4, <2>6, Recursion
  <2>8. g = [n \in 0..B |-> IF n = 0 THEN more ELSE DropLast(g[n - 1])]
    <3> DEFINE h == [n \in 0..B |-> IF n = 0 THEN more ELSE DropLast(g[n - 1])]
    <3>1. \A n \in 0..B : n = 0 \/ n \in 1..B
      BY <1>a
    <3>2. \A n \in 1..B : step[n][g[n - 1]] = DropLast(g[n - 1])
      BY <2>2, <2>3, <2>5, <2>7
    <3>3. \A n \in 0..B : g[n] = h[n]
      BY <2>7, <3>1, <3>2 DEF Loop
    <3>4. g = h
      BY <2>7, <3>3 DEF Loop
    <3> QED BY <3>4
  <2>9. Dropped = [n \in 0..B |-> IF n = 0 THEN more ELSE DropLast(Dropped[n - 1])]
    BY <2>8
  <2> HIDE DEF Dropped
  <2>10. Dropped[0] \in S[0] /\ \A n \in 1..B : Dropped[n - 1] \in S[n - 1] => Dropped[n] \in S[n]
    <3>1. 0 \in 0..B
      BY <1>a
    <3>2. Dropped[0] = more /\ \A n \in 1..B : Dropped[n] = DropLast(Dropped[n - 1])
      BY <2>3, <2>9, <3>1
    <3> QED BY <2>4, <2>5, <3>2
  <2>11. \A n \in 0..B : Dropped[n] \in S[n]
    BY <1>a, <2>10, Induction
  <2>12. B \in 0..B /\ B # 0
    BY <1>a
  <2>13. Holds(Dropped[B], t, d) /\ Unsaved(Dropped[B]) /\ Dropped[B].list.cnt \in 1..CacheSize
    BY <2>1, <2>11, <2>12
  <2> QED BY <1>2, <1>5, <2>13 DEF d
<1> QED BY <1>4, <1>5

(* The labels and blocks of a new raster. *)
Clean(st, t) == Sound(st) /\ st.map = {} /\ Applied(t, st.queue) = NoRows
Zeros == [k \in Blocks |-> 0]
Begun(n) == [k \in Blocks |-> IF \E i \in 1..n : Labels[i] = k THEN 0 ELSE Null]

LEMMA BegunIs ==
  /\ Labels \in Seq(Blocks) /\ Len(Labels) \in Nat \ {0}
  /\ Begun(0) = NoRows /\ Begun(Len(Labels)) = Zeros
  /\ \A n \in 1..Len(Labels) :
       /\ Begun(n - 1)[Labels[n]] = Null
       /\ Begun(n) = [Begun(n - 1) EXCEPT ![Labels[n]] = 0]
<1> DEFINE N == Len(Labels)
<1>1. /\ Labels \in Seq(Blocks) /\ N \in Nat /\ N # 0
      /\ \A i, j \in 1..N : Labels[i] = Labels[j] => i = j
  BY RasterAssumption DEF IsInjective
<1>2. Begun(0) = NoRows
  <2>1. 1..0 = {}
    OBVIOUS
  <2> QED BY <2>1 DEF Begun, NoRows
<1>3. Begun(N) = Zeros
  <2>1. \A k \in Blocks : \E i \in 1..N : Labels[i] = k
    BY <1>1 DEF Blocks, ToSet
  <2> QED BY <2>1 DEF Begun, Zeros
<1>4. ASSUME NEW n \in 1..N
      PROVE  /\ Begun(n - 1)[Labels[n]] = Null
             /\ Begun(n) = [Begun(n - 1) EXCEPT ![Labels[n]] = 0]
  <2>1. Labels[n] \in Blocks
    BY <1>1
  <2>2. \A i \in 1..(n - 1) : i \in 1..N /\ i # n
    BY <1>1
  <2>3. Begun(n - 1)[Labels[n]] = Null
    BY <1>1, <2>1, <2>2 DEF Begun
  <2>4. \A i : i \in 1..n <=> i = n \/ i \in 1..(n - 1)
    BY <1>1
  <2>5. \A k \in Blocks : (\E i \in 1..n : Labels[i] = k)
                          <=> k = Labels[n] \/ (\E i \in 1..(n - 1) : Labels[i] = k)
    BY <2>4
  <2>6. Begun(n) = [Begun(n - 1) EXCEPT ![Labels[n]] = 0]
    BY <2>1, <2>5 DEF Begun
  <2> QED BY <2>3, <2>6
<1> QED BY <1>1, <1>2, <1>3, <1>4

LEMMA FreshIs ==
  ASSUME NEW t \in Tables, NEW st, Clean(st, t)
  PROVE  Holds(Fresh(st), t, Zeros) /\ Unsaved(Fresh(st)) /\ Fresh(st).list.cnt \in 1..CacheSize
<1> DEFINE b == [st EXCEPT !.isInserted = [k \in Blocks |-> FALSE]]
           N == Len(Labels)
           Good(x, n) == /\ Holds(x, t, Begun(n)) /\ Unsaved(x) /\ x.list.cnt \in 0..CacheSize
                         /\ n # 0 => x.list.cnt # 0
           S == [n \in 0..N |-> {x \in States : Good(x, n)}]
           step == [n \in 1..N |-> [x \in States |-> DbAdd(x, Labels[n])]]
           Added == CHOOSE f : f = [n \in 0..N |-> IF n = 0 THEN b ELSE DbAdd(f[n - 1], Labels[n])]
<1>a. N \in Nat \ {0} /\ CacheSize \in Nat \ {0} /\ Labels \in Seq(Blocks)
  BY BegunIs, RasterAssumption
<1>b. b \in States /\ Holds(b, t, Begun(0)) /\ Unsaved(b) /\ b.list.cnt = 0
  <2>1. st \in States /\ Sound(st) /\ st.map = {} /\ Applied(t, st.queue) = NoRows
    BY DEF Clean, Sound
  <2>2. b = [map |-> st.map, list |-> st.list, value |-> st.value,
             isInserted |-> [k \in Blocks |-> FALSE], queue |-> st.queue]
    <3>1. st = [map |-> st.map, list |-> st.list, value |-> st.value,
                isInserted |-> st.isInserted, queue |-> st.queue]
      BY <2>1 DEF States
    <3> DEFINE none == [k \in Blocks |-> FALSE]
    <3>2. b = [st EXCEPT !.isInserted = none]
      OBVIOUS
    <3> HIDE DEF b, none
    <3>3. b = [map |-> st.map, list |-> st.list, value |-> st.value,
               isInserted |-> none, queue |-> st.queue]
      BY <3>1, <3>2
    <3> QED BY <3>3 DEF none
  <2> HIDE DEF b
  <2>3. b \in States
    BY <2>1, <2>2 DEF States
  <2>4. Sound(b)
    BY <2>1, <2>2, <2>3 DEF Sound, Listed
  <2>5. Labelled(b, t)
    BY <2>1, <2>2 DEF Labelled, NoRows
  <2>6. Content(b, t) = Begun(0)
    <3>1. Content(b, t) = NoRows
      BY <2>1, <2>2 DEF Content, NoRows
    <3> QED BY <3>1, BegunIs
  <2>7. b.list.cnt = 0
    BY <2>1, <2>2, <2>4, CountIs
  <2>8. Unsaved(b)
    BY <2>1, <2>2 DEF Unsaved
  <2> QED BY <2>3, <2>4, <2>5, <2>6, <2>7, <2>8 DEF Holds
<1>1. Fresh(st) = Added[N]
  BY DEF Fresh
<1> HIDE DEF b
<1>2. \A n \in 0..N : \A x : x \in S[n] <=> x \in States /\ Good(x, n)
  OBVIOUS
<1>3. \A n \in 1..N : \A x \in States : step[n][x] = DbAdd(x, Labels[n])
  OBVIOUS
<1>n. \A n \in 1..N : n \in 0..N /\ n - 1 \in 0..N /\ n # 0
  BY <1>a
<1>0. 0 \in 0..N /\ N \in 0..N /\ N # 0
  BY <1>a
<1> HIDE DEF S, step, N
<1>4. b \in S[0]
  BY <1>0, <1>a, <1>b, <1>2
<1>5. \A n \in 1..N : \A x \in S[n - 1] : x \in States /\ DbAdd(x, Labels[n]) \in S[n]
  <2> TAKE n \in 1..N
  <2> TAKE x \in S[n - 1]
  <2>1. x \in States /\ Holds(x, t, Begun(n - 1)) /\ Unsaved(x) /\ x.list.cnt \in 0..CacheSize
    BY <1>2, <1>n
  <2>2. Labels[n] \in Blocks /\ Begun(n - 1)[Labels[n]] = Null
    BY <1>a, BegunIs DEF N
  <2>3. x.list.cnt <= CacheSize
    BY <2>1
  <2>4. /\ Holds(DbAdd(x, Labels[n]), t, [Begun(n - 1) EXCEPT ![Labels[n]] = 0])
        /\ Unsaved(DbAdd(x, Labels[n]))
        /\ DbAdd(x, Labels[n]).list.cnt \in 1..CacheSize
    BY <2>1, <2>2, <2>3, DbAddIs
  <2>5. Begun(n) = [Begun(n - 1) EXCEPT ![Labels[n]] = 0]
    BY BegunIs DEF N
  <2>6. DbAdd(x, Labels[n]) \in States
    BY <2>4 DEF Holds, Sound
  <2>7. DbAdd(x, Labels[n]).list.cnt \in 0..CacheSize /\ DbAdd(x, Labels[n]).list.cnt # 0
    BY <2>4
  <2>8. Good(DbAdd(x, Labels[n]), n)
    BY <2>4, <2>5, <2>7
  <2> QED BY <1>2, <1>n, <2>1, <2>6, <2>8
<1>6. \A n \in 1..N : \A x \in S[n - 1] : step[n][x] \in S[n]
  BY <1>3, <1>5
<1>7. PICK g : Loop(g, N, b, step) /\ \A n \in 0..N : g[n] \in S[n]
  BY <1>a, <1>4, <1>6, Recursion
<1>8. g = [n \in 0..N |-> IF n = 0 THEN b ELSE DbAdd(g[n - 1], Labels[n])]
  <2> DEFINE h == [n \in 0..N |-> IF n = 0 THEN b ELSE DbAdd(g[n - 1], Labels[n])]
  <2>1. \A n \in 0..N : n = 0 \/ n \in 1..N
    BY <1>a
  <2>2. \A n \in 1..N : step[n][g[n - 1]] = DbAdd(g[n - 1], Labels[n])
    BY <1>3, <1>n, <1>5, <1>7
  <2>3. \A n \in 0..N : g[n] = h[n]
    BY <1>7, <2>1, <2>2 DEF Loop
  <2>4. g = h
    BY <1>7, <2>3 DEF Loop
  <2> QED BY <2>4
<1>9. Added = [n \in 0..N |-> IF n = 0 THEN b ELSE DbAdd(Added[n - 1], Labels[n])]
  BY <1>8
<1> HIDE DEF Added
<1>10. Added[0] \in S[0] /\ \A n \in 1..N : Added[n - 1] \in S[n - 1] => Added[n] \in S[n]
  <2>1. Added[0] = b /\ \A n \in 1..N : Added[n] = DbAdd(Added[n - 1], Labels[n])
    BY <1>n, <1>9, <1>0
  <2> QED BY <1>4, <1>5, <2>1
<1>11. \A n \in 0..N : Added[n] \in S[n]
  BY <1>a, <1>10, Induction
<1>12. Good(Added[N], N)
  BY <1>0, <1>2, <1>11
<1>13. Begun(N) = Zeros
  BY BegunIs DEF N
<1> QED BY <1>0, <1>1, <1>12, <1>13

(* A raster without cells leaves no row behind. *)
LEMMA DeletedIs ==
  ASSUME NEW t \in Tables, NEW st, Sound(st)
  PROVE  Clean(Deleted(st), t)
<1> DEFINE new == Deleted(st)
           q == [op |-> "delete"]
<1>s. st \in States
  BY DEF Sound
<1>n. new = [map |-> {}, list |-> C!Empty, value |-> NoRows,
             isInserted |-> st.isInserted, queue |-> Append(st.queue, q)]
  <2>1. st = [map |-> st.map, list |-> st.list, value |-> st.value,
              isInserted |-> st.isInserted, queue |-> st.queue]
    BY <1>s DEF States
  <2>2. new = [st EXCEPT !.map = {}, !.list = C!Empty, !.value = NoRows,
                         !.queue = Append(st.queue, q)]
    BY DEF Deleted
  <2> HIDE DEF new, q
  <2> QED BY <2>1, <2>2
<1>1. st.queue \in Seq(Statement) /\ st.isInserted \in [Blocks -> BOOLEAN]
  BY <1>s DEF States
<1>2. q \in Statement /\ q.op = "delete"
  BY DEF Statement
<1> HIDE DEF new, q
<1>3. K!Empty \in K!Links /\ K!Chain(<<>>, K!Empty)
  BY KAssumption, K!EmptyChain
<1>4. new.map = {} /\ new.list = K!Empty /\ new.value = NoRows /\ new.queue = Append(st.queue, q)
  BY <1>n, ListOperators
<1>5. new \in States
  <2>1. NoRows \in Tables /\ Append(st.queue, q) \in Seq(Statement)
    BY <1>1, <1>2 DEF NoRows, Tables
  <2> QED BY <1>n, <1>1, <1>3, <1>4, <2>1 DEF States
<1>6. Sound(new)
  <2>1. K!Members(<<>>) = {}
    BY DEF K!Members
  <2>2. Listed(new)
    BY <1>3, <1>4, <2>1 DEF Listed
  <2>3. \A k \in Blocks : k \in new.map <=> new.value[k] # Null
    BY <1>4 DEF NoRows
  <2> QED BY <1>5, <2>2, <2>3 DEF Sound
<1>7. Applied(t, new.queue) = NoRows
  <2>1. Applied(t, new.queue) = Executed(Applied(t, st.queue), q)
    BY <1>1, <1>2, <1>4, AppliedAppend
  <2> QED BY <1>2, <2>1 DEF Executed
<1> QED BY <1>4, <1>6, <1>7 DEF Clean, new

LEMMA MovedIs ==
  ASSUME NEW st, Sound(st), NEW k \in st.map, NEW l, l = C!MovedToFront(st.list, k)
  PROVE  /\ l \in K!Links /\ l.cnt = st.list.cnt
         /\ \E s : K!Chain(s, l) /\ st.map = K!Members(s)
<1>1. PICK s : K!Chain(s, st.list) /\ st.map = K!Members(s)
  BY DEF Sound, Listed
<1>2. /\ s \in Seq(Blocks) /\ st.list.cnt = Len(s) /\ Len(s) \in Nat
      /\ \A i, j \in 1..Len(s) : s[i] = s[j] => i = j
  BY <1>1 DEF K!Chain
<1>3. PICK i \in 1..Len(s) : s[i] = k
  BY <1>1 DEF K!Members
<1>4. st.list \in K!Links /\ k \in Blocks
  BY DEF Sound, States
<1> DEFINE r == K!Skipped(s, i)
           q == K!Pushed(k, r)
<1>5. l \in K!Links /\ K!Chain(q, l)
  BY <1>1, <1>3, <1>4, KAssumption, K!MovedChain, ListOperators
<1>6. r \in Seq(Blocks) /\ Len(r) = Len(s) - 1 /\ K!Members(r) = K!Members(s) \ {k}
  BY <1>2, <1>3, KAssumption, K!SkippedIs
<1> HIDE DEF r
<1>7. Len(q) = Len(r) + 1 /\ K!Members(q) = K!Members(r) \cup {k}
  BY <1>4, <1>6, KAssumption, K!PushedIs
<1>8. K!Members(q) = st.map
  BY <1>1, <1>6, <1>7
<1>9. l.cnt = Len(q)
  BY <1>5 DEF K!Chain
<1>10. Len(q) = Len(s)
  BY <1>2, <1>6, <1>7
<1> HIDE DEF q
<1> QED BY <1>2, <1>5, <1>8, <1>9, <1>10

(* What the rows of the cached blocks will hold. *)
Kept(st, t, w) == \A k \in st.map : Applied(t, st.queue)[k] = w[k]

(* Synchronize saves what the cache has and leaves the cache as it is. *)
LEMMA OrderIs ==
  ASSUME NEW s, K!Chain(s, list), map = K!Members(s)
  PROVE  /\ C!Order = s /\ C!Backward[C!Cardinality(map)] = s
         /\ C!Cardinality(map) = Len(s) /\ Cardinality(map) = Len(s)
<1>1. K!Listing(s)
  BY DEF K!Listing
<1>2. /\ K!Order = s /\ K!Backward[K!Cardinality(map)] = s
      /\ K!Cardinality(map) = Len(s)
  BY <1>1, KAssumption, K!OrderIs
<1>3. /\ K!Cardinality(map) = Cardinality(map) /\ K!Cardinality(map) = C!Cardinality(map)
  BY DEF K!Cardinality, Cardinality, C!Cardinality
<1>4. C!Order = K!Order
  BY <1>3 DEF C!Order, K!Order, C!Forward, K!Forward
<1>5. C!Backward = K!Backward
  BY DEF C!Backward, K!Backward
<1> QED BY <1>2, <1>3, <1>4, <1>5

LEMMA SavedIs ==
  ASSUME NEW t \in Tables, NEW c, Holds(State, t, c)
  PROVE  LET Saved[n \in 0..Len(Walk)] ==
               IF n = 0 THEN State ELSE SaveToDb(Saved[n - 1], Walk[n], value[Walk[n]])
         IN /\ Holds(Saved[Len(Walk)], t, c) /\ Saved[Len(Walk)].list = list
            /\ Kept(Saved[Len(Walk)], t, c)
<1> DEFINE N == Len(Walk)
           Good(x, n) == /\ Labelled(x, t)
                         /\ x.map = map /\ x.list = list /\ x.value = value
                         /\ \A k \in Blocks \ map : Applied(t, x.queue)[k] = c[k]
                         /\ \A i \in 1..n : Applied(t, x.queue)[Walk[i]] = value[Walk[i]]
           S == [n \in 0..N |-> {x \in States : Good(x, n)}]
           step == [n \in 1..N |-> [x \in States |-> SaveToDb(x, Walk[n], value[Walk[n]])]]
           Saved == CHOOSE f : f = [n \in 0..N |-> IF n = 0 THEN State
                                     ELSE SaveToDb(f[n - 1], Walk[n], value[Walk[n]])]
<1>s. /\ State \in States /\ Listed(State) /\ Labelled(State, t) /\ Content(State, t) = c
      /\ \A k \in Blocks : k \in State.map <=> State.value[k] # Null
  BY DEF Holds, Sound
<1>f. /\ State.map = map /\ State.list = list /\ State.value = value
  BY DEF State
<1> HIDE DEF State
<1>1. PICK s : K!Chain(s, list) /\ map = K!Members(s)
  BY <1>s, <1>f DEF Listed
<1>2. Walk = s /\ s \in Seq(Blocks)
  BY <1>1, OrderIs DEF Walk, K!Chain
<1>w. \A n \in 1..N : Walk[n] \in Blocks /\ Walk[n] \in map /\ value[Walk[n]] \in 0..MaxWrites
  <2>1. \A n \in 1..N : Walk[n] \in Blocks /\ Walk[n] \in map
    BY <1>1, <1>2 DEF K!Members
  <2>2. value \in Tables /\ \A k \in map : value[k] # Null
    BY <1>s, <1>f DEF States
  <2> QED BY <2>1, <2>2 DEF Tables
<1>a. N \in Nat
  BY <1>2
<1>3. \A n \in 0..N : \A x : x \in S[n] <=> x \in States /\ Good(x, n)
  OBVIOUS
<1>5. \A n \in 1..N : \A x \in States : step[n][x] = SaveToDb(x, Walk[n], value[Walk[n]])
  OBVIOUS
<1>n. \A n \in 1..N : n \in 0..N /\ n - 1 \in 0..N /\ n # 0
  BY <1>a
<1>0. 0 \in 0..N /\ N \in 0..N
  BY <1>a
<1>d. Walk = s /\ N = Len(s)
  BY <1>2
<1> HIDE DEF S, step, N
<1>6. State \in S[0]
  <2>1. \A k \in Blocks \ map : Applied(t, State.queue)[k] = c[k]
    BY <1>s, <1>f DEF Content
  <2>2. 1..0 = {}
    OBVIOUS
  <2> QED BY <1>0, <1>s, <1>f, <1>3, <2>1, <2>2
<1>7. \A n \in 1..N : \A x \in S[n - 1] :
        x \in States /\ SaveToDb(x, Walk[n], value[Walk[n]]) \in S[n]
  <2> TAKE n \in 1..N
  <2> TAKE x \in S[n - 1]
  <2> DEFINE k == Walk[n]
             new == SaveToDb(x, k, value[k])
  <2>1. x \in States /\ Good(x, n - 1)
    BY <1>n, <1>3
  <2>2. k \in Blocks /\ k \in map /\ value[k] \in 0..MaxWrites
    BY <1>w
  <2>v. \A i \in 1..n : i \in 1..(n - 1) \/ Walk[i] = k
    BY <1>a
  <2>b. \A i \in 1..n : Walk[i] \in Blocks
    BY <1>a, <1>w
  <2> HIDE DEF k
  <2>3. /\ new \in States /\ Labelled(new, t)
        /\ new.map = x.map /\ new.list = x.list /\ new.value = x.value
        /\ Applied(t, new.queue) = [Applied(t, x.queue) EXCEPT ![k] = value[k]]
    BY <2>1, <2>2, SaveIs
  <2> HIDE DEF new
  <2>4. Applied(t, x.queue) \in Tables
    <3>1. x.queue \in Seq(Statement)
      BY <2>1 DEF States
    <3> QED BY <3>1, AppliedTyped
  <2>5. \A y \in Blocks : Applied(t, new.queue)[y] = IF y = k THEN value[k]
                                                     ELSE Applied(t, x.queue)[y]
    BY <2>2, <2>3, <2>4 DEF Tables
  <2>6. \A y \in Blocks \ map : Applied(t, new.queue)[y] = c[y]
    BY <2>1, <2>2, <2>5
  <2>7. \A i \in 1..n : Applied(t, new.queue)[Walk[i]] = value[Walk[i]]
    <3> TAKE i \in 1..n
    <3>1. Walk[i] \in Blocks /\ (i \in 1..(n - 1) \/ Walk[i] = k)
      BY <2>v, <2>b
    <3>2. i \in 1..(n - 1) => Applied(t, x.queue)[Walk[i]] = value[Walk[i]]
      BY <2>1
    <3> QED BY <2>5, <3>1, <3>2
  <2>8. Good(new, n)
    BY <2>1, <2>3, <2>6, <2>7
  <2>9. new \in S[n]
    BY <1>n, <1>3, <2>3, <2>8
  <2> QED BY <2>1, <2>9 DEF new, k
<1>8. State \in S[0] /\ \A n \in 1..N : \A x \in S[n - 1] : step[n][x] \in S[n]
  BY <1>5, <1>6, <1>7
<1>9. PICK g : Loop(g, N, State, step) /\ \A n \in 0..N : g[n] \in S[n]
  BY <1>a, <1>8, Recursion
<1>10. g = [n \in 0..N |-> IF n = 0 THEN State ELSE SaveToDb(g[n - 1], Walk[n], value[Walk[n]])]
  <2> DEFINE h == [n \in 0..N |-> IF n = 0 THEN State
                                  ELSE SaveToDb(g[n - 1], Walk[n], value[Walk[n]])]
  <2>1. \A n \in 0..N : n = 0 \/ n \in 1..N
    BY <1>a
  <2>2. \A n \in 1..N : step[n][g[n - 1]] = SaveToDb(g[n - 1], Walk[n], value[Walk[n]])
    BY <1>5, <1>7, <1>n, <1>9
  <2>3. \A n \in 0..N : g[n] = h[n]
    BY <1>9, <2>1, <2>2 DEF Loop
  <2>4. g = h
    BY <1>9, <2>3 DEF Loop
  <2> QED BY <2>4
<1>11. Saved = [n \in 0..N |-> IF n = 0 THEN State
                              ELSE SaveToDb(Saved[n - 1], Walk[n], value[Walk[n]])]
  BY <1>10
<1> HIDE DEF Saved
<1>12. Saved[0] \in S[0] /\ \A n \in 1..N : Saved[n - 1] \in S[n - 1] => Saved[n] \in S[n]
  <2>1. /\ Saved[0] = State
        /\ \A n \in 1..N : Saved[n] = SaveToDb(Saved[n - 1], Walk[n], value[Walk[n]])
    BY <1>n, <1>11, <1>0
  <2> QED BY <1>6, <1>7, <2>1
<1>13. \A n \in 0..N : Saved[n] \in S[n]
  BY <1>a, <1>12, Induction
<1>14. Saved[N] \in States /\ Good(Saved[N], N)
  BY <1>0, <1>3, <1>13
<1> DEFINE x == Saved[N]
<1> HIDE DEF x
<1>15. x \in States /\ Good(x, N)
  BY <1>14 DEF x
<1>16. Sound(x)
  <2>1. Listed(x)
    BY <1>1, <1>15 DEF Listed
  <2> QED BY <1>s, <1>f, <1>15, <2>1 DEF Sound
<1>17. Content(x, t) = c
  <2>1. \A k \in Blocks : (IF k \in x.map THEN x.value[k] ELSE Applied(t, x.queue)[k])
                        = (IF k \in State.map THEN State.value[k] ELSE Applied(t, State.queue)[k])
    BY <1>s, <1>f, <1>15 DEF Content
  <2>2. Content(x, t) = Content(State, t)
    BY <2>1 DEF Content
  <2> QED BY <1>s, <2>2
<1>18. Kept(x, t, c)
  <2> SUFFICES ASSUME NEW k \in map PROVE Applied(t, x.queue)[k] = c[k]
    BY <1>15 DEF Kept
  <2>1. PICK i \in 1..N : Walk[i] = k
    BY <1>1, <1>d DEF K!Members
  <2>2. Applied(t, x.queue)[k] = value[k]
    BY <1>15, <2>1
  <2>3. c[k] = value[k]
    <3>1. k \in Blocks
      BY <1>w, <2>1
    <3> QED BY <1>s, <1>f, <3>1 DEF Content
  <2> QED BY <2>2, <2>3
<1>19. Holds(Saved[N], t, c) /\ Saved[N].list = list /\ Kept(Saved[N], t, c)
  BY <1>15, <1>16, <1>17, <1>18 DEF Holds, x
<1> QED BY <1>19 DEF Saved, N

-----------------------------------------------------------------------------
(* The inductive invariant.  A raster with cells has at least one block in *)
(* its cache; it reads as the writes before, and its labels name its rows. *)
(* One without cells has no block, no label that counts and no rows.  The  *)
(* rows of the cached blocks will hold what Synchronize saved last.        *)
Rest ==
  /\ answer \in 0..MaxWrites \cup {Null} /\ field \in BOOLEAN /\ rows \in Tables
  /\ undefined \in BOOLEAN /\ cellWrites \in 0..MaxWrites /\ resizes \in 0..MaxResizes
  /\ truth \in [Blocks -> 0..MaxWrites] /\ saved \in Tables
RasterInv ==
  /\ Rest /\ list.cnt <= CacheSize
  /\ field => list.cnt # 0 /\ Holds(State, rows, truth) /\ Kept(State, rows, saved)
  /\ ~ field => Clean(State, rows)

LEMMA StateParts ==
  /\ State.map = map /\ State.list = list /\ State.value = value
  /\ State.isInserted = isInserted /\ State.queue = queue
  BY DEF State

LEMMA RasterInvMeans ==
  RasterInv => TypeOK /\ RowsAsSaved /\ LabelsMatchRows /\ CacheKept
<1> SUFFICES ASSUME RasterInv PROVE TypeOK /\ RowsAsSaved /\ LabelsMatchRows /\ CacheKept
  OBVIOUS
<1>1. Sound(State) /\ State \in States /\ Rest
  BY DEF RasterInv, Holds, Clean, Sound
<1>2. /\ map \in SUBSET Blocks /\ list \in K!Links /\ value \in Tables
      /\ isInserted \in [Blocks -> BOOLEAN] /\ queue \in Seq(Statement)
  BY <1>1, StateParts DEF States
<1>3. TypeOK
  BY <1>1, <1>2 DEF TypeOK, C!TypeOK, Rest, K!Links, Tables
<1>4. RowsAsSaved
  <2> SUFFICES ASSUME field, NEW k \in Blocks
               PROVE  Stored[k] = IF k \in map THEN saved[k] ELSE truth[k]
    BY DEF RowsAsSaved
  <2>1. Content(State, rows)[k] = truth[k]
    BY DEF RasterInv, Holds
  <2>2. k \in map => Applied(rows, queue)[k] = saved[k]
    BY StateParts DEF RasterInv, Kept
  <2> QED BY <2>1, <2>2, StateParts DEF Content, Stored
<1>5. LabelsMatchRows
  <2>1. CASE field
    <3>1. Labelled(State, rows)
      BY <2>1 DEF RasterInv, Holds
    <3> QED BY <2>1, <3>1, StateParts DEF Labelled, LabelsMatchRows, Stored
  <2>2. CASE ~ field
    <3>1. Stored = NoRows
      BY <2>2, StateParts DEF RasterInv, Clean, Stored
    <3> QED BY <2>2, <3>1 DEF LabelsMatchRows, NoRows
  <2> QED BY <2>1, <2>2
<1>6. CacheKept
  <2>1. PICK s : K!Chain(s, list) /\ map = K!Members(s)
    BY <1>1, StateParts DEF Sound, Listed
  <2>2. s \in Seq(Blocks) /\ list.cnt = Len(s)
    BY <2>1 DEF K!Chain
  <2>3. /\ C!Order = s /\ C!Backward[C!Cardinality(map)] = s
        /\ C!Cardinality(map) = Len(s) /\ Cardinality(map) = Len(s)
    BY <2>1, OrderIs
  <2>4. {s[i] : i \in DOMAIN s} = map
    <3>1. DOMAIN s = 1..Len(s)
      BY <2>2
    <3> QED BY <2>1, <3>1 DEF K!Members
  <2>5. C!ListMatchesMap
    BY <2>2, <2>3, <2>4 DEF C!ListMatchesMap
  <2>6. Cardinality(map) <= CacheSize
    BY <2>2, <2>3 DEF RasterInv
  <2>7. field => map # {}
    BY <1>1, CountIs, StateParts DEF RasterInv
  <2> QED BY <2>5, <2>6, <2>7 DEF CacheKept
<1> QED BY <1>3, <1>4, <1>5, <1>6

LEMMA InitRaster == Init => RasterInv
<1> SUFFICES ASSUME Init PROVE RasterInv
  OBVIOUS
<1>1. /\ map = {} /\ list = K!Empty /\ value = NoRows /\ answer = Null
      /\ isInserted = [k \in Blocks |-> FALSE] /\ queue = <<>> /\ rows = NoRows
  BY ListOperators DEF Init, C!Init, NoRows
<1>2. K!Empty \in K!Links /\ K!Chain(<<>>, K!Empty) /\ K!Empty.cnt = 0
  BY KAssumption, K!EmptyChain DEF K!Empty
<1>3. Rest
  <2>1. 0 \in 0..MaxWrites /\ 0 \in 0..MaxResizes
    BY RasterAssumption
  <2>2. /\ field = FALSE /\ undefined = FALSE /\ cellWrites = 0 /\ resizes = 0
        /\ truth = [k \in Blocks |-> 0] /\ saved = NoRows
    BY DEF Init
  <2>3. rows \in Tables /\ saved \in Tables /\ truth \in [Blocks -> 0..MaxWrites]
    BY <1>1, <2>1, <2>2 DEF Tables, NoRows
  <2> QED BY <1>1, <2>1, <2>2, <2>3 DEF Rest
<1>4. State \in States
  BY <1>1, <1>2 DEF State, States, Tables, NoRows
<1>5. Sound(State)
  <2>1. K!Members(<<>>) = {}
    BY DEF K!Members
  <2>2. Listed(State)
    BY <1>1, <1>2, <2>1, StateParts DEF Listed
  <2>3. \A k \in Blocks : k \in State.map <=> State.value[k] # Null
    BY <1>1, StateParts DEF NoRows
  <2> QED BY <1>4, <2>2, <2>3 DEF Sound
<1>6. Clean(State, rows)
  <2>1. Applied(rows, <<>>) = rows
    BY <1>3, AppliedEmpty DEF Rest
  <2> QED BY <1>1, <1>5, <2>1, StateParts DEF Clean
<1>7. list.cnt <= CacheSize
  BY <1>1, <1>2, RasterAssumption
<1> QED BY <1>3, <1>6, <1>7 DEF RasterInv, Init

(* The state that a step leads to. *)
LEMMA BecomesIs ==
  ASSUME NEW st \in States, Becomes(st)
  PROVE  State' = st
<1>1. st = [map |-> st.map, list |-> st.list, value |-> st.value,
            isInserted |-> st.isInserted, queue |-> st.queue]
  BY DEF States
<1>2. State' = [map |-> st.map, list |-> st.list, value |-> st.value,
                isInserted |-> st.isInserted, queue |-> st.queue]
  BY DEF State, Becomes
<1> QED BY <1>1, <1>2

LEMMA SoundNow == RasterInv => State \in States /\ Sound(State) /\ Rest
  BY DEF RasterInv, Holds, Clean, Sound

LEMMA SetSizeKeeps ==
  ASSUME RasterInv, NEW open \in BOOLEAN, SetSize(open)
  PROVE  RasterInv'
<1> DEFINE closed == IF field THEN Deleted(State) ELSE State
           new == IF open THEN Fresh(closed) ELSE closed
<1>1. rows \in Tables /\ rows' = rows
  BY DEF RasterInv, Rest, SetSize
<1>2. Clean(closed, rows)
  BY <1>1, SoundNow, DeletedIs DEF RasterInv
<1>3. Becomes(new)
  BY DEF SetSize
<1>4. truth' = Zeros /\ field' = open /\ saved' = NoRows
  BY DEF SetSize, Zeros
<1> HIDE DEF closed
<1>5. Sound(new) /\ new \in States
  BY <1>1, <1>2, FreshIs DEF Clean, Holds, Sound
<1>6. open => Holds(new, rows, Zeros) /\ Unsaved(new) /\ new.list.cnt \in 1..CacheSize
  BY <1>1, <1>2, FreshIs
<1>7. ~ open => Clean(new, rows) /\ new.list.cnt = 0
  BY <1>2, CountIs DEF Clean
<1> HIDE DEF new
<1>8. State' = new /\ list' = new.list
  BY <1>3, <1>5, BecomesIs DEF Becomes
<1>9. Rest'
  <2>1. 0 \in 0..MaxWrites
    BY RasterAssumption
  <2>2. Zeros \in [Blocks -> 0..MaxWrites]
    BY <2>1 DEF Zeros
  <2>3. resizes' \in 0..MaxResizes
    BY RasterAssumption DEF RasterInv, Rest, SetSize
  <2>4. saved' \in Tables
    BY <1>4 DEF NoRows, Tables
  <2> QED BY <1>4, <2>2, <2>3, <2>4 DEF RasterInv, Rest, SetSize
<1>10. list'.cnt <= CacheSize
  BY <1>6, <1>7, <1>8, RasterAssumption
<1>11. field' => list'.cnt # 0 /\ Holds(State', rows', truth')
  BY <1>1, <1>4, <1>6, <1>8
<1>12. ~ field' => Clean(State', rows')
  BY <1>1, <1>4, <1>7, <1>8
<1>13. field' => Kept(State', rows', saved')
  <2> SUFFICES ASSUME open, NEW k \in new.map PROVE Applied(rows, new.queue)[k] = NoRows[k]
    BY <1>1, <1>4, <1>8 DEF Kept
  <2>1. k \in Blocks /\ ~ new.isInserted[k]
    BY <1>5, <1>6 DEF States, Unsaved
  <2>2. Labelled(new, rows)
    BY <1>6 DEF Holds
  <2> QED BY <2>1, <2>2 DEF Labelled, NoRows
<1> QED BY <1>9, <1>10, <1>11, <1>12, <1>13 DEF RasterInv

(* setCell and getCell of a cached block: c is what the blocks then hold.  *)
LEMMA CellKeeps ==
  ASSUME RasterInv, field, NEW k \in map, Rest', NEW v \in 0..MaxWrites,
         map' = map, list' = C!MovedToFront(list, k), value' = [value EXCEPT ![k] = v],
         truth' = [truth EXCEPT ![k] = v],
         UNCHANGED <<field, isInserted, queue, rows, saved>>
  PROVE  RasterInv'
<1>1. State \in States /\ Sound(State) /\ Rest
  BY SoundNow
<1>2. /\ map \in SUBSET Blocks /\ value \in Tables /\ rows \in Tables
      /\ isInserted \in [Blocks -> BOOLEAN] /\ queue \in Seq(Statement)
      /\ truth \in [Blocks -> 0..MaxWrites]
  BY <1>1, StateParts DEF States, Rest
<1>3. /\ list' \in K!Links /\ list'.cnt = list.cnt
      /\ \E s : K!Chain(s, list') /\ map = K!Members(s)
  BY <1>1, StateParts, MovedIs
<1> DEFINE new == State'
<1>4. /\ new.map = map /\ new.list = list' /\ new.value = [value EXCEPT ![k] = v]
      /\ new.isInserted = isInserted /\ new.queue = queue
  BY DEF State
<1>5. new \in States
  BY <1>2, <1>3 DEF State, States, Tables
<1> HIDE DEF new
<1>6. v # Null
  BY RasterAssumption
<1>7. \A x \in Blocks : x \in map <=> value[x] # Null
  BY <1>1, StateParts DEF Sound
<1>8. \A x \in Blocks : x \in new.map <=> new.value[x] # Null
  BY <1>2, <1>4, <1>6, <1>7 DEF Tables
<1>9. Sound(new)
  BY <1>3, <1>4, <1>5, <1>8 DEF Sound, Listed
<1>10. Labelled(State, rows) /\ Content(State, rows) = truth /\ list.cnt # 0
  BY DEF RasterInv, Holds
<1>11. Labelled(new, rows)
  BY <1>4, <1>10, StateParts DEF Labelled
<1>12. Content(new, rows) = [truth EXCEPT ![k] = v]
  <2>1. \A x \in Blocks : (IF x \in map THEN value[x] ELSE Applied(rows, queue)[x]) = truth[x]
    <3>1. \A x \in Blocks : Content(State, rows)[x]
                          = IF x \in map THEN value[x] ELSE Applied(rows, queue)[x]
      BY StateParts DEF Content
    <3> QED BY <1>10, <3>1
  <2>2. \A x \in Blocks :
          (IF x \in new.map THEN new.value[x] ELSE Applied(rows, new.queue)[x])
          = [truth EXCEPT ![k] = v][x]
    BY <1>2, <1>4, <2>1 DEF Tables
  <2>3. [truth EXCEPT ![k] = v] = [x \in Blocks |-> [truth EXCEPT ![k] = v][x]]
    BY <1>2
  <2> QED BY <2>2, <2>3 DEF Content
<1>13. Holds(State', rows', truth')
  BY <1>9, <1>11, <1>12 DEF Holds, new
<1>14. Kept(State', rows', saved')
  <2>1. Kept(State, rows, saved)
    BY DEF RasterInv
  <2> QED BY <1>4, <2>1, StateParts DEF Kept, new
<1> QED BY <1>3, <1>10, <1>13, <1>14 DEF RasterInv

LEMMA SynchronizeKeeps ==
  ASSUME RasterInv, Synchronize
  PROVE  RasterInv'
<1> DEFINE Saved == CHOOSE f : f = [n \in 0..Len(Walk) |-> IF n = 0 THEN State
                                 ELSE SaveToDb(f[n - 1], Walk[n], value[Walk[n]])]
           new == Saved[Len(Walk)]
<1>1. field /\ rows \in Tables /\ Holds(State, rows, truth)
  BY DEF RasterInv, Rest, Synchronize
<1>2. Holds(new, rows, truth) /\ new.list = list /\ Kept(new, rows, truth)
  BY <1>1, SavedIs
<1>3. /\ Becomes(new) /\ saved' = truth
      /\ UNCHANGED <<answer, field, rows, undefined, cellWrites, resizes, truth>>
  BY DEF Synchronize
<1> HIDE DEF new
<1>4. State' = new /\ list' = list
  BY <1>2, <1>3, BecomesIs DEF Holds, Sound, Becomes
<1>5. Rest'
  <2>1. truth \in Tables /\ Rest
    BY DEF RasterInv, Rest, Tables
  <2> QED BY <1>3, <2>1 DEF Rest
<1>6. Holds(State', rows', truth') /\ Kept(State', rows', saved')
  BY <1>2, <1>3, <1>4
<1> QED BY <1>1, <1>3, <1>4, <1>5, <1>6 DEF RasterInv

LEMMA ExecuteKeeps ==
  ASSUME RasterInv, Execute
  PROVE  RasterInv'
<1>1. State \in States /\ Sound(State) /\ Rest
  BY SoundNow
<1>2. queue \in Seq(Statement) /\ queue # <<>> /\ rows \in Tables
  BY <1>1, StateParts DEF States, Rest, Execute
<1>3. rows' = Executed(rows, Head(queue)) /\ queue' = Tail(queue)
  BY DEF Execute
<1>4. Head(queue) \in Statement /\ Tail(queue) \in Seq(Statement)
  BY <1>2
<1>5. rows' \in Tables
  BY <1>2, <1>3, <1>4, ExecutedTyped
<1>6. Applied(rows', queue') = Applied(rows, queue)
  BY <1>2, <1>3, AppliedTail
<1>7. Rest'
  BY <1>1, <1>5 DEF Rest, Execute
<1> DEFINE new == State'
<1>8. /\ new.map = map /\ new.list = list /\ new.value = value
      /\ new.isInserted = isInserted /\ new.queue = queue'
  BY DEF State, Execute, cache
<1>9. new \in States
  BY <1>1, <1>3, <1>4 DEF State, States, Execute, cache
<1> HIDE DEF new
<1>10. Sound(new)
  BY <1>1, <1>8, <1>9, StateParts DEF Sound, Listed
<1>11. Labelled(State, rows) => Labelled(new, rows')
  BY <1>6, <1>8, StateParts DEF Labelled
<1>12. Content(new, rows') = Content(State, rows)
  BY <1>6, <1>8, StateParts DEF Content
<1>13. Holds(State, rows, truth) => Holds(new, rows', truth)
  BY <1>10, <1>11, <1>12 DEF Holds
<1>14. Clean(State, rows) => Clean(new, rows')
  BY <1>6, <1>8, <1>10, StateParts DEF Clean
<1>15. UNCHANGED <<list, field, truth, saved>>
  BY DEF Execute, cache
<1>16. Kept(State, rows, saved) => Kept(new, rows', saved)
  BY <1>6, <1>8, StateParts DEF Kept
<1> QED BY <1>7, <1>13, <1>14, <1>15, <1>16 DEF RasterInv, new

LEMMA RasterInvInductive == RasterInv /\ [Next]_vars => RasterInv'
<1> SUFFICES ASSUME RasterInv, [Next]_vars PROVE RasterInv'
  OBVIOUS
<1>r. Rest /\ State \in States /\ Sound(State)
  BY SoundNow
<1>1. ASSUME NEW open \in BOOLEAN, SetSize(open) PROVE RasterInv'
  BY <1>1, SetSizeKeeps
<1>2. ASSUME NEW k \in Blocks, SetCell(k) PROVE RasterInv'
  <2> DEFINE v == cellWrites + 1
  <2>1. /\ field /\ k \in map /\ cellWrites' = v /\ list' = C!MovedToFront(list, k)
        /\ value' = [value EXCEPT ![k] = v] /\ truth' = [truth EXCEPT ![k] = v]
        /\ UNCHANGED <<map, answer, field, isInserted, queue, rows, undefined, resizes, saved>>
    BY <1>2 DEF SetCell
  <2>2. v \in 0..MaxWrites
    BY <1>r, <1>2, RasterAssumption DEF SetCell, Rest
  <2> HIDE DEF v
  <2>3. Rest'
    BY <1>r, <2>1, <2>2 DEF Rest
  <2> QED BY <2>1, <2>2, <2>3, CellKeeps
<1>3. ASSUME NEW k \in Blocks, GetCell(k) PROVE RasterInv'
  <2> DEFINE v == value[k]
  <2>1. /\ field /\ k \in map /\ list' = C!MovedToFront(list, k) /\ answer' = value[k]
        /\ UNCHANGED <<map, value, field, isInserted, queue, rows, undefined, cellWrites, resizes,
                       truth, saved>>
    BY <1>3 DEF GetCell, C!Get
  <2>2. value \in Tables /\ value[k] # Null
    BY <1>r, <2>1, StateParts DEF Sound, States
  <2>3. v \in 0..MaxWrites
    BY <2>2 DEF Tables
  <2>4. truth[k] = v
    <3>1. Content(State, rows)[k] = truth[k]
      BY <2>1 DEF RasterInv, Holds
    <3> QED BY <2>1, <3>1, StateParts DEF Content
  <2>5. value' = [value EXCEPT ![k] = v] /\ truth' = [truth EXCEPT ![k] = v]
    BY <1>r, <2>1, <2>2, <2>4 DEF Tables, Rest
  <2>6. Rest'
    BY <1>r, <2>1, <2>3 DEF Rest
  <2> HIDE DEF v
  <2> QED BY <2>1, <2>3, <2>5, <2>6, CellKeeps
<1>4. ASSUME NEW k \in Blocks, LoadBlock(k) PROVE RasterInv'
  <2>1. /\ UNCHANGED <<map, list, value, answer, field, isInserted, queue, rows, cellWrites,
                       resizes, truth, saved>>
        /\ undefined' = TRUE
    BY <1>4 DEF LoadBlock, cache
  <2>2. State' = State
    BY <2>1 DEF State
  <2>3. Rest'
    BY <1>r, <2>1 DEF Rest
  <2> QED BY <2>1, <2>2, <2>3 DEF RasterInv
<1>5. CASE Synchronize
  BY <1>5, SynchronizeKeeps
<1>6. CASE Execute
  BY <1>6, ExecuteKeeps
<1>7. CASE UNCHANGED vars
  <2>1. UNCHANGED <<map, list, value, answer, field, isInserted, queue, rows, undefined,
                    cellWrites, resizes, truth, saved>>
    BY <1>7 DEF vars, cache
  <2>2. State' = State
    BY <2>1 DEF State
  <2>3. Rest'
    BY <1>r, <2>1 DEF Rest
  <2> QED BY <2>1, <2>2, <2>3 DEF RasterInv
<1> QED BY <1>1, <1>2, <1>3, <1>4, <1>5, <1>6, <1>7 DEF Next

-----------------------------------------------------------------------------
(* The invariant holds in every state that setSize, setCell, getCell,      *)
(* Synchronize and the database thread lead to.                            *)
THEOREM SpecRasterInv == Spec => []RasterInv
<1>1. Init => RasterInv
  BY InitRaster
<1> QED BY <1>1, RasterInvInductive, PTL DEF Spec

(* Cache, labels, queue and rows keep their types.                         *)
THEOREM SpecTypeOK == Spec => []TypeOK
<1>1. RasterInv => TypeOK
  BY RasterInvMeans
<1> QED BY <1>1, SpecRasterInv, PTL

(* Once the queue is executed the row of a cached block holds the cells    *)
(* that Synchronize found in it the last time, and the row of a block that *)
(* SQLInsertField dropped holds NoValue.                                   *)
THEOREM SpecRowsAsSaved == Spec => []RowsAsSaved
<1>1. RasterInv => RowsAsSaved
  BY RasterInvMeans
<1> QED BY <1>1, SpecRasterInv, PTL

(* RasterBlockLabel::isInserted says which rows the database will have, so *)
(* that neither an INSERT meets a row nor an UPDATE misses one.            *)
THEOREM SpecLabelsMatchRows == Spec => []LabelsMatchRows
<1>1. RasterInv => LabelsMatchRows
  BY RasterInvMeans
<1> QED BY <1>1, SpecRasterInv, PTL

(* The cache of blocks keeps its size, its list and its map in step, and   *)
(* add never drops the block it has just added.                            *)
THEOREM SpecCacheKept == Spec => []CacheKept
<1>1. RasterInv => CacheKept
  BY RasterInvMeans
<1> QED BY <1>1, SpecRasterInv, PTL

-----------------------------------------------------------------------------
(* The database thread: safety of the worker for any number of clients,    *)
(* commands and calls and for every stack size the configuration accepts.  *)

USE DEF Commands, Writes

(* The steps of a client and of the worker, split into their actions.      *)
LEMMA NextCases ==
  ASSUME DBNext
  PROVE  \/ \E c \in Clients, q \in Commands : Call(c, q)
         \/ \E c \in Clients : LockQueries(c)
         \/ \E c \in Clients : SeePrepared(c)
         \/ \E c \in Clients : TakePrepared(c)
         \/ \E c \in Clients : AddQuery(c)
         \/ \E c \in Clients : LockClientSelect(c)
         \/ \E c \in Clients : SubmitSelect(c)
         \/ \E c \in Clients : ResetStatus(c)
         \/ \E c \in Clients : SeeAnswer(c)
         \/ \E c \in Clients : ReturnStatus(c)
         \/ \E c \in Clients : ReadRows(c)
         \/ LoopTop \/ RefillList \/ SkipList \/ PushPrepared \/ ListRefilled
         \/ AllRefilled \/ Wake \/ DrainOne \/ DrainDone \/ NoSelect
         \/ BeginSelect \/ ExecSelect \/ EndSelect \/ Kill
         \/ UNCHANGED dbVars
BY DEF DBNext, ClientStep, WorkerStep, Exited

-----------------------------------------------------------------------------
(* The inductive invariant.  Locks: which thread holds which mutex at      *)
(* which place.                                                            *)
Locks ==
  /\ \A c \in Clients :
       /\ clientPc[c] \in {"pop", "take"} => queryMutex = c
       /\ clientPc[c] \in {"submit", "reset", "await"} => clientSelectMutex = c
       /\ clientPc[c] = "reset" => selectMutex = c
  /\ workerPc \in {"exec", "release"} => selectMutex = Worker /\ qSelect # NoOne

(* Stacks: a client at its pop still finds what it saw, and the pushes a   *)
(* refill has to go fit on the stack.                                      *)
Stacks ==
  /\ \A c \in Clients : clientPc[c] = "take" => prepared[cmd[c]] > 0
  /\ \A q \in Commands : prepared[q] <= StackSize
  /\ workerPc = "push" =>
       /\ listAt \in DOMAIN queryLists
       /\ prepared[queryLists[listAt]] + toPush <= StackSize

(* Slot: whose select the slot and the result set belong to.               *)
Slot ==
  /\ workerPc = "release" => selectStatus # "notdone"
  /\ qSelect # NoOne /\ workerPc # "release" =>
       /\ clientPc[qSelect] \in {"reset", "await"}
       /\ clientPc[qSelect] = "await" => selectStatus = "notdone"
  /\ \A c \in Clients :
       /\ clientPc[c] = "reset" => qSelect = c
       /\ clientPc[c] = "await" /\ selectStatus = "notdone" => qSelect = c
       /\ clientPc[c] = "await" /\ selectStatus # "notdone" =>
            /\ qSelect = NoOne \/ (workerPc = "release" /\ qSelect = c)
            /\ selectRows \subseteq {c} \X (1..MaxCalls)
            /\ selectStatus = "rows" <=> selectRows # {}

(* Counts: a call that has not queued its write yet has been counted.      *)
Counts ==
  \A c \in Clients :
    /\ issued[c] <= calls[c]
    /\ clientPc[c] \in {"lock", "pop", "take", "bound"} => issued[c] < calls[c]

DBInv == DBTypeOK /\ Counts /\ Locks /\ Stacks /\ Slot

(* The rows of a client's select are writes of that client.                *)
LEMMA WrittenOwn ==
  ASSUME NEW c \in Clients, NEW s \in Seq(Writes)
  PROVE  Written(c, s) \subseteq {c} \X (1..MaxCalls)
<1> SUFFICES ASSUME NEW w \in Written(c, s) PROVE w \in {c} \X (1..MaxCalls)
  OBVIOUS
<1>1. w \in Writes /\ w[1] = c
  BY DEF Written, Range2
<1> QED BY <1>1

LEMMA InitDBInv == DBInit => DBInv
<1> SUFFICES ASSUME DBInit PROVE DBInv
  OBVIOUS
<1>1. (CHOOSE q \in Commands : TRUE) \in Commands
  BY CommandAssumption
<1>2. DBTypeOK
  <2>1. calls \in [Clients -> 0..MaxCalls] /\ issued \in [Clients -> 0..MaxCalls]
    BY BoundAssumption DEF DBInit
  <2>2. cmd \in [Clients -> Commands]
    BY <1>1 DEF DBInit
  <2>3. /\ queryLists \in Seq(Commands)
        /\ prepared \in [Commands -> Nat]
        /\ writes \in Seq(Writes)
        /\ db \in Seq(Writes)
    BY DEF DBInit
  <2>4. result \in [Clients -> SUBSET Writes]
    BY DEF DBInit
  <2>5. listAt \in Nat \ {0} /\ toPush \in Nat
    BY DEF DBInit
  <2>6. clientPc \in [Clients -> {"idle", "lock", "pop", "take", "bound", "submit",
                                 "reset", "await", "status", "rows"}]
    BY DEF DBInit
  <2>7. kill \in BOOLEAN
    BY Zenon DEF DBInit
  <2> QED BY <2>1, <2>2, <2>3, <2>4, <2>5, <2>6, <2>7 DEF DBInit, DBTypeOK
<1>3. Locks /\ Slot
  BY ThreadAssumption DEF DBInit, Locks, Slot
<1>4. Stacks
  BY <1>1, BoundAssumption DEF DBInit, Stacks
<1>5. Counts
  BY DEF DBInit, Counts
<1> QED BY <1>2, <1>3, <1>4, <1>5 DEF DBInv

LEMMA NextDBInv == DBInv /\ [DBNext]_dbVars => DBInv'
<1> SUFFICES ASSUME DBInv, [DBNext]_dbVars PROVE DBInv'
  OBVIOUS
<1> USE ThreadAssumption, CommandAssumption, BoundAssumption
<1> USE DEF DBInv, Goto, WorkerGoto, stacks, mutexes, slot, workerVars, clientVars
<1>1. ASSUME NEW c \in Clients, NEW q \in Commands, Call(c, q) PROVE DBInv'
  <2>1. DBTypeOK'
    <3>1. calls' \in [Clients -> 0..MaxCalls]
      <4>1. calls[c] + 1 \in 0..MaxCalls
        BY <1>1 DEF Call, DBTypeOK
      <4> QED BY <1>1, <4>1 DEF Call, DBTypeOK
    <3> QED BY <1>1, <3>1 DEF Call, DBTypeOK
  <2>2. Counts' BY <1>1 DEF Call, DBTypeOK, Counts
  <2>3. Locks' BY <1>1 DEF Call, DBTypeOK, Locks
  <2>4. Stacks' BY <1>1 DEF Call, DBTypeOK, Stacks
  <2>5. Slot' BY <1>1 DEF Call, DBTypeOK, Slot
  <2> QED BY <2>1, <2>2, <2>3, <2>4, <2>5
<1>2. ASSUME NEW c \in Clients, LockQueries(c) PROVE DBInv'
  <2>1. DBTypeOK' BY <1>2, SMTT(30) DEF LockQueries, DBTypeOK
  <2>2. Counts' BY <1>2 DEF LockQueries, DBTypeOK, Counts
  <2>3. Locks' BY <1>2 DEF LockQueries, DBTypeOK, Locks, QueryMutexFree
  <2>4. Stacks' BY <1>2 DEF LockQueries, DBTypeOK, Stacks
  <2>5. Slot' BY <1>2 DEF LockQueries, DBTypeOK, Slot
  <2> QED BY <2>1, <2>2, <2>3, <2>4, <2>5
<1>3. ASSUME NEW c \in Clients, SeePrepared(c) PROVE DBInv'
  <2>1. DBTypeOK' BY <1>3, SMTT(30) DEF SeePrepared, DBTypeOK
  <2>2. Counts' BY <1>3 DEF SeePrepared, DBTypeOK, Counts
  <2>3. Locks' BY <1>3 DEF SeePrepared, DBTypeOK, Locks
  <2>4. Stacks' BY <1>3 DEF SeePrepared, DBTypeOK, Stacks, IsEmptyStack
  <2>5. Slot' BY <1>3 DEF SeePrepared, DBTypeOK, Slot
  <2> QED BY <2>1, <2>2, <2>3, <2>4, <2>5
<1>4. ASSUME NEW c \in Clients, TakePrepared(c) PROVE DBInv'
  <2>1. DBTypeOK'
    <3>1. prepared' \in [Commands -> Nat]
      <4>1. cmd[c] \in Commands /\ prepared[cmd[c]] > 0
        BY <1>4 DEF TakePrepared, DBTypeOK, Stacks
      <4> QED BY <1>4, <4>1 DEF TakePrepared, DBTypeOK
    <3> QED BY <1>4, <3>1 DEF TakePrepared, DBTypeOK
  <2>2. Counts' BY <1>4 DEF TakePrepared, DBTypeOK, Counts
  <2>3. Locks' BY <1>4 DEF TakePrepared, DBTypeOK, Locks
  <2>4. Stacks'
    <3>1. cmd[c] \in Commands /\ prepared[cmd[c]] \in Nat
      BY DEF DBTypeOK
    <3>2. \A p \in Commands : /\ prepared'[p] <= prepared[p]
                              /\ p # cmd[c] => prepared'[p] = prepared[p]
      BY <1>4, <3>1 DEF TakePrepared, DBTypeOK
    <3>3. \A p \in Commands : prepared'[p] <= StackSize
      BY <2>1, <3>2 DEF DBTypeOK, Stacks
    <3>4. \A d \in Clients : clientPc'[d] = "take" => FALSE
      BY <1>4 DEF TakePrepared, DBTypeOK, Locks
    <3>5. workerPc' = "push" =>
            /\ listAt' \in DOMAIN queryLists'
            /\ prepared'[queryLists'[listAt']] + toPush' <= StackSize
      <4>1. SUFFICES ASSUME workerPc = "push"
                     PROVE  /\ listAt \in DOMAIN queryLists
                            /\ prepared'[queryLists[listAt]] + toPush <= StackSize
        BY <1>4 DEF TakePrepared
      <4>2. listAt \in DOMAIN queryLists /\ queryLists[listAt] \in Commands
        BY <4>1 DEF DBTypeOK, Stacks
      <4>3. prepared'[queryLists[listAt]] <= prepared[queryLists[listAt]]
        BY <3>2, <4>2
      <4>4. prepared[queryLists[listAt]] + toPush <= StackSize
        BY <4>1 DEF Stacks
      <4>5. /\ prepared[queryLists[listAt]] \in Nat /\ toPush \in Nat
            /\ prepared'[queryLists[listAt]] \in Nat
        BY <2>1, <4>2 DEF DBTypeOK
      <4> QED BY <4>2, <4>3, <4>4, <4>5
    <3> QED BY <3>3, <3>4, <3>5 DEF Stacks
  <2>5. Slot' BY <1>4 DEF TakePrepared, DBTypeOK, Slot
  <2> QED BY <2>1, <2>2, <2>3, <2>4, <2>5
<1>5. ASSUME NEW c \in Clients, AddQuery(c) PROVE DBInv'
  <2>1. DBTypeOK'
    <3>1. issued[c] + 1 \in 1..MaxCalls
      <4>1. issued[c] \in 0..MaxCalls /\ calls[c] \in 0..MaxCalls
        BY DEF DBTypeOK
      <4>2. issued[c] < calls[c]
        BY <1>5 DEF AddQuery, Counts
      <4> QED BY <4>1, <4>2, BoundAssumption
    <3>2. issued' \in [Clients -> 0..MaxCalls] /\ issued'[c] = issued[c] + 1
      BY <1>5, <3>1 DEF AddQuery, DBTypeOK
    <3>3. writes' \in Seq(Writes)
      BY <1>5, <3>1, <3>2 DEF AddQuery, DBTypeOK, Push
    <3> QED BY <1>5, <3>2, <3>3 DEF AddQuery, DBTypeOK
  <2>2. Counts' BY <1>5 DEF AddQuery, DBTypeOK, Counts
  <2>3. Locks' BY <1>5 DEF AddQuery, DBTypeOK, Locks
  <2>4. Stacks' BY <1>5 DEF AddQuery, DBTypeOK, Stacks
  <2>5. Slot' BY <1>5 DEF AddQuery, DBTypeOK, Slot
  <2> QED BY <2>1, <2>2, <2>3, <2>4, <2>5
<1>6. ASSUME NEW c \in Clients, LockClientSelect(c) PROVE DBInv'
  <2>1. DBTypeOK' BY <1>6, SMTT(30) DEF LockClientSelect, DBTypeOK
  <2>2. Counts' BY <1>6 DEF LockClientSelect, DBTypeOK, Counts
  <2>3. Locks' BY <1>6 DEF LockClientSelect, DBTypeOK, Locks, ClientSelectFree
  <2>4. Stacks' BY <1>6 DEF LockClientSelect, DBTypeOK, Stacks
  <2>5. Slot' BY <1>6 DEF LockClientSelect, DBTypeOK, Slot, Locks, ClientSelectFree
  <2> QED BY <2>1, <2>2, <2>3, <2>4, <2>5
<1>7. ASSUME NEW c \in Clients, SubmitSelect(c) PROVE DBInv'
  <2>1. DBTypeOK' BY <1>7, SMTT(30) DEF SubmitSelect, DBTypeOK
  <2>2. Counts' BY <1>7 DEF SubmitSelect, DBTypeOK, Counts
  <2>3. Locks' BY <1>7 DEF SubmitSelect, DBTypeOK, Locks, SelectFree
  <2>4. Stacks' BY <1>7 DEF SubmitSelect, DBTypeOK, Stacks
  <2>5. Slot' BY <1>7 DEF SubmitSelect, DBTypeOK, Slot, SelectFree, Locks
  <2> QED BY <2>1, <2>2, <2>3, <2>4, <2>5
<1>8. ASSUME NEW c \in Clients, ResetStatus(c) PROVE DBInv'
  <2>1. DBTypeOK' BY <1>8, SMTT(30) DEF ResetStatus, DBTypeOK
  <2>2. Counts' BY <1>8 DEF ResetStatus, DBTypeOK, Counts
  <2>3. Locks' BY <1>8 DEF ResetStatus, DBTypeOK, Locks
  <2>4. Stacks' BY <1>8 DEF ResetStatus, DBTypeOK, Stacks
  <2>5. Slot' BY <1>8 DEF ResetStatus, DBTypeOK, Slot, Locks
  <2> QED BY <2>1, <2>2, <2>3, <2>4, <2>5
<1>9. ASSUME NEW c \in Clients, SeeAnswer(c) PROVE DBInv'
  <2>1. DBTypeOK' BY <1>9, SMTT(30) DEF SeeAnswer, DBTypeOK
  <2>2. Counts' BY <1>9 DEF SeeAnswer, DBTypeOK, Counts
  <2>3. Locks' BY <1>9 DEF SeeAnswer, DBTypeOK, Locks
  <2>4. Stacks' BY <1>9 DEF SeeAnswer, DBTypeOK, Stacks
  <2>5. Slot' BY <1>9 DEF SeeAnswer, DBTypeOK, Slot, Locks
  <2> QED BY <2>1, <2>2, <2>3, <2>4, <2>5
<1>10. ASSUME NEW c \in Clients, ReturnStatus(c) PROVE DBInv'
  <2>1. DBTypeOK' BY <1>10, SMTT(30) DEF ReturnStatus, DBTypeOK
  <2>2. Counts' BY <1>10 DEF ReturnStatus, DBTypeOK, Counts
  <2>3. Locks' BY <1>10 DEF ReturnStatus, DBTypeOK, Locks
  <2>4. Stacks' BY <1>10 DEF ReturnStatus, DBTypeOK, Stacks
  <2>5. Slot' BY <1>10 DEF ReturnStatus, DBTypeOK, Slot
  <2> QED BY <2>1, <2>2, <2>3, <2>4, <2>5
<1>11. ASSUME NEW c \in Clients, ReadRows(c) PROVE DBInv'
  <2>1. DBTypeOK' BY <1>11, SMTT(30) DEF ReadRows, DBTypeOK
  <2>2. Counts' BY <1>11 DEF ReadRows, DBTypeOK, Counts
  <2>3. Locks' BY <1>11 DEF ReadRows, DBTypeOK, Locks
  <2>4. Stacks' BY <1>11 DEF ReadRows, DBTypeOK, Stacks
  <2>5. Slot' BY <1>11 DEF ReadRows, DBTypeOK, Slot
  <2> QED BY <2>1, <2>2, <2>3, <2>4, <2>5
<1>12. CASE LoopTop
  <2>1. DBTypeOK'
    <3>1. listAt' \in Nat \ {0}
      BY <1>12 DEF LoopTop
    <3> QED BY <1>12, <3>1 DEF LoopTop, DBTypeOK
  <2>2. Counts' BY <1>12 DEF LoopTop, DBTypeOK, Counts
  <2>3. Locks' BY <1>12 DEF LoopTop, DBTypeOK, Locks
  <2>4. Stacks' BY <1>12 DEF LoopTop, DBTypeOK, Stacks
  <2>5. Slot' BY <1>12 DEF LoopTop, DBTypeOK, Slot
  <2> QED BY <2>1, <2>2, <2>3, <2>4, <2>5
<1>13. CASE RefillList
  <2>1. DBTypeOK'
    <3>1. toPush' \in Nat
      BY <1>13 DEF RefillList, RefillCount
    <3> QED BY <1>13, <3>1 DEF RefillList, DBTypeOK
  <2>2. Counts' BY <1>13 DEF RefillList, DBTypeOK, Counts
  <2>3. Locks' BY <1>13 DEF RefillList, DBTypeOK, Locks
  <2>4. Stacks'
    <3>1. queryLists[listAt] \in Commands /\ listAt \in DOMAIN queryLists
      BY <1>13 DEF RefillList, DBTypeOK
    <3>2. prepared[queryLists[listAt]] + (StackSize - 1) <= StackSize
      BY <1>13, <3>1 DEF RefillList, DBTypeOK, IsMaxOneLeft
    <3> QED BY <1>13, <3>1, <3>2 DEF RefillList, DBTypeOK, Stacks, RefillCount
  <2>5. Slot' BY <1>13 DEF RefillList, DBTypeOK, Slot
  <2> QED BY <2>1, <2>2, <2>3, <2>4, <2>5
<1>14. CASE SkipList
  <2>1. DBTypeOK' BY <1>14, SMTT(30) DEF SkipList, DBTypeOK
  <2>2. Counts' BY <1>14 DEF SkipList, DBTypeOK, Counts
  <2>3. Locks' BY <1>14 DEF SkipList, DBTypeOK, Locks
  <2>4. Stacks' BY <1>14 DEF SkipList, DBTypeOK, Stacks
  <2>5. Slot' BY <1>14 DEF SkipList, DBTypeOK, Slot
  <2> QED BY <2>1, <2>2, <2>3, <2>4, <2>5
<1>15. CASE PushPrepared
  <2>1. DBTypeOK'
    <3>1. toPush - 1 \in Nat /\ queryLists[listAt] \in Commands
      BY <1>15 DEF PushPrepared, DBTypeOK, Stacks
    <3>2. prepared' \in [Commands -> Nat]
      <4> DEFINE q == queryLists[listAt]
      <4>1. q \in Commands /\ prepared \in [Commands -> Nat]
        BY <3>1 DEF DBTypeOK
      <4>2. prepared' = [prepared EXCEPT ![q] = prepared[q] + 1]
        BY <1>15 DEF PushPrepared
      <4> HIDE DEF q
      <4>3. prepared[q] + 1 \in Nat
        BY <4>1
      <4> QED BY <4>1, <4>2, <4>3
    <3> QED BY <1>15, <3>1, <3>2 DEF PushPrepared, DBTypeOK
  <2>2. Counts' BY <1>15 DEF PushPrepared, DBTypeOK, Counts
  <2>3. Locks' BY <1>15 DEF PushPrepared, DBTypeOK, Locks
  <2>4. Stacks'
    <3> DEFINE q == queryLists[listAt]
    <3>1. q \in Commands /\ listAt \in DOMAIN queryLists
      BY <1>15 DEF PushPrepared, DBTypeOK, Stacks
    <3>2. /\ prepared' = [prepared EXCEPT ![q] = @ + 1]
          /\ prepared[q] + toPush <= StackSize
          /\ toPush' = toPush - 1 /\ toPush > 0
          /\ UNCHANGED <<queryLists, listAt, clientPc, cmd>>
      BY <1>15 DEF PushPrepared, Stacks
    <3>3. /\ prepared'[q] = prepared[q] + 1
          /\ \A p \in Commands : p # q => prepared'[p] = prepared[p]
      BY <3>1, <3>2 DEF DBTypeOK
    <3>4. \A p \in Commands : prepared'[p] >= prepared[p] /\ prepared'[p] <= StackSize
      <4>1. ASSUME NEW p \in Commands
            PROVE  prepared[p] \in Nat /\ toPush \in Nat /\ prepared[p] <= StackSize
        BY DEF DBTypeOK, Stacks
      <4> QED BY <3>1, <3>2, <3>3, <4>1
    <3>5. prepared'[q] + toPush' <= StackSize
      BY <3>1, <3>2, <3>3 DEF DBTypeOK
    <3>6. ASSUME NEW c \in Clients, clientPc[c] = "take" PROVE prepared'[cmd[c]] > 0
      <4>1. cmd[c] \in Commands /\ prepared[cmd[c]] \in Nat /\ prepared'[cmd[c]] \in Nat
        BY <2>1, <3>2 DEF DBTypeOK
      <4> QED BY <3>4, <3>6, <4>1 DEF Stacks
    <3> QED BY <3>1, <3>2, <3>4, <3>5, <3>6 DEF Stacks
  <2>5. Slot' BY <1>15 DEF PushPrepared, DBTypeOK, Slot
  <2> QED BY <2>1, <2>2, <2>3, <2>4, <2>5
<1>16. CASE ListRefilled
  <2>1. DBTypeOK' BY <1>16, SMTT(30) DEF ListRefilled, DBTypeOK
  <2>2. Counts' BY <1>16 DEF ListRefilled, DBTypeOK, Counts
  <2>3. Locks' BY <1>16 DEF ListRefilled, DBTypeOK, Locks
  <2>4. Stacks' BY <1>16 DEF ListRefilled, DBTypeOK, Stacks
  <2>5. Slot' BY <1>16 DEF ListRefilled, DBTypeOK, Slot
  <2> QED BY <2>1, <2>2, <2>3, <2>4, <2>5
<1>17. CASE AllRefilled
  <2>1. DBTypeOK' BY <1>17, SMTT(30) DEF AllRefilled, DBTypeOK
  <2>2. Counts' BY <1>17 DEF AllRefilled, DBTypeOK, Counts
  <2>3. Locks' BY <1>17 DEF AllRefilled, DBTypeOK, Locks
  <2>4. Stacks' BY <1>17 DEF AllRefilled, DBTypeOK, Stacks
  <2>5. Slot' BY <1>17 DEF AllRefilled, DBTypeOK, Slot
  <2> QED BY <2>1, <2>2, <2>3, <2>4, <2>5
<1>18. CASE Wake
  <2>1. DBTypeOK' BY <1>18, SMTT(30) DEF Wake, DBTypeOK
  <2>2. Counts' BY <1>18 DEF Wake, DBTypeOK, Counts
  <2>3. Locks' BY <1>18 DEF Wake, DBTypeOK, Locks
  <2>4. Stacks' BY <1>18 DEF Wake, DBTypeOK, Stacks
  <2>5. Slot' BY <1>18 DEF Wake, DBTypeOK, Slot
  <2> QED BY <2>1, <2>2, <2>3, <2>4, <2>5
<1>19. CASE DrainOne
  <2>1. DBTypeOK'
    <3>1. db' \in Seq(Writes) /\ writes' \in Seq(Writes)
      BY <1>19 DEF DrainOne, DBTypeOK
    <3> QED BY <1>19, <3>1 DEF DrainOne, DBTypeOK
  <2>2. Counts' BY <1>19 DEF DrainOne, DBTypeOK, Counts
  <2>3. Locks' BY <1>19 DEF DrainOne, DBTypeOK, Locks
  <2>4. Stacks' BY <1>19 DEF DrainOne, DBTypeOK, Stacks
  <2>5. Slot' BY <1>19 DEF DrainOne, DBTypeOK, Slot
  <2> QED BY <2>1, <2>2, <2>3, <2>4, <2>5
<1>20. CASE DrainDone
  <2>1. DBTypeOK' BY <1>20, SMTT(30) DEF DrainDone, DBTypeOK
  <2>2. Counts' BY <1>20 DEF DrainDone, DBTypeOK, Counts
  <2>3. Locks' BY <1>20 DEF DrainDone, DBTypeOK, Locks
  <2>4. Stacks' BY <1>20 DEF DrainDone, DBTypeOK, Stacks
  <2>5. Slot' BY <1>20 DEF DrainDone, DBTypeOK, Slot
  <2> QED BY <2>1, <2>2, <2>3, <2>4, <2>5
<1>21. CASE NoSelect
  <2>1. DBTypeOK' BY <1>21, SMTT(30) DEF NoSelect, DBTypeOK
  <2>2. Counts' BY <1>21 DEF NoSelect, DBTypeOK, Counts
  <2>3. Locks' BY <1>21 DEF NoSelect, DBTypeOK, Locks
  <2>4. Stacks' BY <1>21 DEF NoSelect, DBTypeOK, Stacks
  <2>5. Slot' BY <1>21 DEF NoSelect, DBTypeOK, Slot
  <2> QED BY <2>1, <2>2, <2>3, <2>4, <2>5
<1>22. CASE BeginSelect
  <2>1. DBTypeOK' BY <1>22, SMTT(30) DEF BeginSelect, DBTypeOK
  <2>2. Counts' BY <1>22 DEF BeginSelect, DBTypeOK, Counts
  <2>3. Locks' BY <1>22 DEF BeginSelect, DBTypeOK, Locks, SelectFree
  <2>4. Stacks' BY <1>22 DEF BeginSelect, DBTypeOK, Stacks
  <2>5. Slot' BY <1>22 DEF BeginSelect, DBTypeOK, Slot, SelectFree, Locks
  <2> QED BY <2>1, <2>2, <2>3, <2>4, <2>5
<1>23. CASE ExecSelect
  <2>1. DBTypeOK'
    <3>1. selectRows' \in SUBSET Writes
      <4>1. qSelect \in Clients /\ db \in Seq(Writes) /\ selectRows' = Written(qSelect, db)
        BY <1>23 DEF ExecSelect, DBTypeOK, Locks
      <4> QED BY <4>1, WrittenOwn
    <3> QED BY <1>23, <3>1 DEF ExecSelect, DBTypeOK
  <2>2. Counts' BY <1>23 DEF ExecSelect, DBTypeOK, Counts
  <2>3. Locks' BY <1>23 DEF ExecSelect, DBTypeOK, Locks
  <2>4. Stacks' BY <1>23 DEF ExecSelect, DBTypeOK, Stacks
  <2>5. Slot'
    <3>1. selectRows' \subseteq {qSelect} \X (1..MaxCalls)
      <4>1. qSelect \in Clients /\ db \in Seq(Writes) /\ selectRows' = Written(qSelect, db)
        BY <1>23 DEF ExecSelect, DBTypeOK, Locks
      <4> QED BY <4>1, WrittenOwn
    <3>2. /\ selectStatus' \in {"rows", "false"}
          /\ selectStatus' = "rows" <=> selectRows' # {}
      BY <1>23 DEF ExecSelect
    <3>3. /\ qSelect # NoOne /\ workerPc = "exec" /\ workerPc' = "release"
          /\ UNCHANGED <<qSelect, clientPc, clientSelectMutex, selectMutex>>
      BY <1>23 DEF ExecSelect, Locks
    <3>4. ASSUME NEW c \in Clients, clientPc[c] = "await" PROVE qSelect = c
      BY <3>3, <3>4 DEF Slot, Locks
    <3> QED BY <3>1, <3>2, <3>3, <3>4 DEF Slot
  <2> QED BY <2>1, <2>2, <2>3, <2>4, <2>5
<1>24. CASE EndSelect
  <2>1. DBTypeOK' BY <1>24, SMTT(30) DEF EndSelect, DBTypeOK
  <2>2. Counts' BY <1>24 DEF EndSelect, DBTypeOK, Counts
  <2>3. Locks' BY <1>24 DEF EndSelect, DBTypeOK, Locks
  <2>4. Stacks' BY <1>24 DEF EndSelect, DBTypeOK, Stacks
  <2>5. Slot' BY <1>24 DEF EndSelect, DBTypeOK, Slot, Locks
  <2> QED BY <2>1, <2>2, <2>3, <2>4, <2>5
<1>25. CASE Kill
  <2>1. DBTypeOK' BY <1>25, SMTT(30) DEF Kill, DBTypeOK
  <2>2. Counts' BY <1>25 DEF Kill, DBTypeOK, Counts
  <2>3. Locks' BY <1>25 DEF Kill, DBTypeOK, Locks
  <2>4. Stacks' BY <1>25 DEF Kill, DBTypeOK, Stacks
  <2>5. Slot' BY <1>25 DEF Kill, DBTypeOK, Slot
  <2> QED BY <2>1, <2>2, <2>3, <2>4, <2>5
<1>26. CASE UNCHANGED dbVars
  <2>1. DBTypeOK' BY <1>26, SMTT(30) DEF dbVars, DBTypeOK
  <2>2. Counts' BY <1>26 DEF dbVars, Counts
  <2>3. Locks' BY <1>26 DEF dbVars, Locks
  <2>4. Stacks' BY <1>26 DEF dbVars, Stacks
  <2>5. Slot' BY <1>26 DEF dbVars, Slot
  <2> QED BY <2>1, <2>2, <2>3, <2>4, <2>5
<1> QED
  BY NextCases, <1>1, <1>2, <1>3, <1>4, <1>5, <1>6, <1>7, <1>8, <1>9, <1>10, <1>11, <1>12, <1>13, <1>14, <1>15, <1>16, <1>17, <1>18, <1>19, <1>20, <1>21, <1>22, <1>23, <1>24, <1>25, <1>26

-----------------------------------------------------------------------------
THEOREM Invariance == DBSpec => []DBInv
BY InitDBInv, NextDBInv, PTL DEF DBSpec

(* Every variable of the worker and its clients keeps its type: no stack   *)
(* of prepared queries goes below zero and no listAt leaves the lists.     *)
THEOREM TypeCorrect == DBSpec => []DBTypeOK
BY Invariance, PTL DEF DBInv

(* The pop of getQuery, which tests isEmpty before it takes the queue's    *)
(* mutex, never follows a null root, and no command ever has more than     *)
(* queryStackSize prepared queries.                                        *)
THEOREM StackSafe == DBSpec => []StackSound
<1>1. DBInv => StackSound
  BY DEF DBInv, Stacks, StackSound, DBTypeOK
<1> QED BY <1>1, Invariance, PTL

(* A client waiting in ExecuteSelect is answered with its own rows.        *)
THEOREM AnswersGoToAsker == DBSpec => []AwaitsOwnAnswer
<1>1. DBInv => AwaitsOwnAnswer
  BY DEF DBInv, Slot, AwaitsOwnAnswer
<1> QED BY <1>1, Invariance, PTL

-----------------------------------------------------------------------------
(* Appending to the right operand of a concatenation, and moving the head  *)
(* of the right operand to the end of the left one.                        *)
LEMMA AppendRight ==
  ASSUME NEW S, NEW s \in Seq(S), NEW t \in Seq(S), NEW e \in S
  PROVE  s \o Append(t, e) = Append(s \o t, e)
BY AppendIsConcat, ConcatAssociative, ConcatProperties, <<e>> \in Seq(S)

LEMMA MoveHead ==
  ASSUME NEW S, NEW s \in Seq(S), NEW t \in Seq(S), t # <<>>
  PROVE  Append(s, Head(t)) \o Tail(t) = s \o t
<1>1. /\ Head(t) \in S /\ Tail(t) \in Seq(S) /\ <<Head(t)>> \in Seq(S)
      /\ t = <<Head(t)>> \o Tail(t)
  <2>1. Head(t) \in S /\ Tail(t) \in Seq(S)
    BY HeadTailProperties
  <2>2. <<Head(t)>> \in Seq(S) /\ <<Head(t)>> \o Tail(t) \in Seq(S)
    BY <2>1, ConcatProperties
  <2>3. /\ Len(t) = Len(<<Head(t)>> \o Tail(t))
        /\ \A i \in 1..Len(t) : t[i] = (<<Head(t)>> \o Tail(t))[i]
    BY <2>1, <2>2
  <2> QED BY <2>1, <2>2, <2>3, SeqEqual
<1>2. Append(s, Head(t)) = s \o <<Head(t)>>
  BY <1>1, AppendIsConcat
<1> QED BY <1>1, <1>2, ConcatAssociative

(* Only two actions touch the log of writes: AddQuery appends the client's *)
(* next write and DrainOne moves the boundary between db and writes.       *)
LEMMA LogSteps ==
  ASSUME DBInv, [DBNext]_dbVars
  PROVE  \/ Log' = Log /\ issued' = issued
         \/ \E c \in Clients : /\ Log' = Append(Log, <<c, issued[c] + 1>>)
                               /\ issued' = [issued EXCEPT ![c] = @ + 1]
<1> USE DEF DBInv, stacks, mutexes, slot, workerVars, clientVars
<1>1. ASSUME NEW c \in Clients, AddQuery(c)
      PROVE  /\ Log' = Append(Log, <<c, issued[c] + 1>>)
             /\ issued' = [issued EXCEPT ![c] = @ + 1]
  <2>1. /\ issued' = [issued EXCEPT ![c] = @ + 1]
        /\ writes' = Append(writes, <<c, issued[c] + 1>>)
        /\ db' = db
    BY <1>1 DEF AddQuery, Push, DBTypeOK
  <2>2. db \o Append(writes, <<c, issued[c] + 1>>) = Append(db \o writes, <<c, issued[c] + 1>>)
    <3>1. issued[c] + 1 \in 1..MaxCalls
      BY <1>1, BoundAssumption DEF AddQuery, DBTypeOK, Counts, Goto
    <3>2. <<c, issued[c] + 1>> \in Writes
      BY <3>1
    <3>3. db \in Seq(Writes) /\ writes \in Seq(Writes)
      BY DEF DBTypeOK
    <3> HIDE DEF Writes
    <3> QED BY <3>2, <3>3, AppendRight
  <2> QED BY <2>1, <2>2 DEF Log
<1>2. CASE DrainOne
  <2>1. /\ db' = Append(db, Head(writes)) /\ writes' = Tail(writes)
        /\ writes # <<>> /\ issued' = issued
    BY <1>2 DEF DrainOne
  <2>2. Append(db, Head(writes)) \o Tail(writes) = db \o writes
    BY <2>1, MoveHead DEF DBTypeOK
  <2> QED BY <2>1, <2>2 DEF Log
<1>3. ASSUME NEW c \in Clients,
             \/ \E q \in Commands : Call(c, q)
             \/ LockQueries(c) \/ SeePrepared(c) \/ TakePrepared(c)
             \/ LockClientSelect(c) \/ SubmitSelect(c) \/ ResetStatus(c)
             \/ SeeAnswer(c) \/ ReturnStatus(c) \/ ReadRows(c)
      PROVE  UNCHANGED <<db, writes, issued>>
  BY <1>3 DEF Call, LockQueries, SeePrepared, TakePrepared, LockClientSelect, SubmitSelect,
              ResetStatus, SeeAnswer, ReturnStatus, ReadRows
<1>4. ASSUME \/ LoopTop \/ RefillList \/ SkipList \/ PushPrepared \/ ListRefilled
             \/ AllRefilled \/ Wake \/ DrainDone \/ NoSelect \/ BeginSelect
             \/ ExecSelect \/ EndSelect \/ Kill
      PROVE  UNCHANGED <<db, writes, issued>>
  BY <1>4 DEF LoopTop, RefillList, SkipList, PushPrepared, ListRefilled, AllRefilled, Wake,
              DrainDone, NoSelect, BeginSelect, ExecSelect, EndSelect, Kill
<1>5. ASSUME UNCHANGED dbVars PROVE UNCHANGED <<db, writes, issued>>
  BY <1>5 DEF dbVars
<1>6. UNCHANGED <<db, writes, issued>> => Log' = Log /\ issued' = issued
  BY DEF Log
<1> QED BY NextCases, <1>1, <1>2, <1>3, <1>4, <1>5, <1>6

LEMMA NextWritesInOrder ==
  DBInv /\ WritesInOrder /\ [DBNext]_dbVars => WritesInOrder'
<1> SUFFICES ASSUME DBInv, WritesInOrder, [DBNext]_dbVars PROVE WritesInOrder'
  OBVIOUS
<1>1. CASE Log' = Log /\ issued' = issued
  BY <1>1 DEF WritesInOrder
<1>2. ASSUME NEW c \in Clients,
             Log' = Append(Log, <<c, issued[c] + 1>>),
             issued' = [issued EXCEPT ![c] = @ + 1]
      PROVE  WritesInOrder'
  <2> DEFINE n == Len(Log)
  <2> USE DEF DBInv
  <2>1. Log \in Seq(Writes) /\ n \in Nat /\ DOMAIN Log = 1..n
    BY DEF DBTypeOK, Log
  <2>2. /\ DOMAIN Log' = 1..(n + 1)
        /\ \A i \in 1..n : Log'[i] = Log[i]
        /\ Log'[n + 1] = <<c, issued[c] + 1>>
    BY <1>2, <2>1
  <2>3. /\ issued'[c] = issued[c] + 1 /\ issued[c] \in Nat
        /\ \A d \in Clients : d # c => issued'[d] = issued[d]
    BY <1>2 DEF DBTypeOK
  <2>4. \A i \in 1..n : /\ Log[i][1] \in Clients /\ Log[i][2] \in Nat
                        /\ Log[i][2] <= issued[Log[i][1]]
                        /\ issued[Log[i][1]] \in Nat
    <3>1. ASSUME NEW i \in 1..n
          PROVE  Log[i][1] \in Clients /\ Log[i][2] \in 1..MaxCalls
      <4>1. Log[i] \in Writes
        BY <2>1, ElementOfSeq
      <4> QED BY <4>1
    <3>2. \A d \in Clients : issued[d] \in Nat
      BY BoundAssumption DEF DBTypeOK
    <3> QED BY <2>1, <3>1, <3>2, BoundAssumption DEF WritesInOrder
  <2>5. \A i \in 1..(n + 1) : Log'[i][2] <= issued'[Log'[i][1]]
    <3>1. ASSUME NEW i \in 1..n PROVE Log'[i][2] <= issued'[Log'[i][1]]
      BY <2>2, <2>3, <2>4
    <3>2. Log'[n + 1][2] <= issued'[Log'[n + 1][1]]
      BY <2>2, <2>3
    <3> QED BY <2>1, <3>1, <3>2
  <2>6. ASSUME NEW i \in 1..(n + 1), NEW j \in 1..(n + 1), i < j, Log'[i][1] = Log'[j][1]
        PROVE  Log'[i][2] < Log'[j][2]
    <3>1. i \in 1..n
      BY <2>1, <2>6
    <3>2. CASE j \in 1..n
      BY <2>1, <2>2, <2>6, <3>1, <3>2 DEF WritesInOrder
    <3>3. CASE j = n + 1
      <4>1. Log[i][1] = c /\ Log[i][2] <= issued[c]
        BY <2>2, <2>4, <2>6, <3>1, <3>3
      <4> QED BY <2>2, <2>3, <2>4, <3>1, <3>3, <4>1
    <3> QED BY <2>1, <3>2, <3>3
  <2>7. ASSUME NEW d \in Clients, NEW k \in 1..issued'[d]
        PROVE  \E i \in 1..(n + 1) : Log'[i] = <<d, k>>
    <3>1. CASE k \in 1..issued[d]
      <4>1. PICK i \in 1..n : Log[i] = <<d, k>>
        BY <2>1, <3>1 DEF WritesInOrder
      <4>2. i \in 1..(n + 1) /\ Log'[i] = <<d, k>>
        BY <2>1, <2>2, <4>1
      <4> QED BY <4>2
    <3>2. CASE k \notin 1..issued[d]
      <4>1. d = c /\ k = issued[c] + 1
        BY <2>3, <2>7, <3>2
      <4>2. n + 1 \in 1..(n + 1) /\ Log'[n + 1] = <<d, k>>
        BY <2>1, <2>2, <4>1
      <4> QED BY <4>2
    <3> QED BY <3>1, <3>2
  <2> HIDE DEF n
  <2> QED BY <2>2, <2>5, <2>6, <2>7 DEF WritesInOrder
<1> QED BY LogSteps, <1>1, <1>2

(* No write is lost, executed twice or overtaken by a later write of the   *)
(* same client between ExecuteQuery and the database.                      *)
THEOREM WritesKeepOrder == DBSpec => []WritesInOrder
<1>1. DBInit => WritesInOrder
  BY DEF DBInit, WritesInOrder, Log
<1> QED BY <1>1, NextWritesInOrder, Invariance, PTL DEF DBSpec
=============================================================================
