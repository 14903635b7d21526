--------------------------- MODULE SystemVersions ---------------------------
(***************************************************************************)
(* What dmsystem.h promises of successors: a successor state starts with   *)
(* what its predecessor holds, and "if a Object is added, removed or       *)
(* changed only the successor system is altered".  A system is a map from  *)
(* names to values; only systems without successors are changed.           *)
(***************************************************************************)
EXTENDS Integers

CONSTANTS
  LastSystem,   \* bound: the systems are 0..LastSystem
  Names,        \* names of components
  Values,       \* what the attribute of a component may hold
  None          \* no predecessor, no component

VARIABLES
  last,         \* the youngest system
  parent,       \* system -> its predecessor
  content       \* system -> name -> value, or None without such a component
vars == <<last, parent, content>>

Systems == 0..LastSystem
Leaf(s) == s <= last /\ \A t \in Systems : parent[t] # s

Init ==
  /\ last = 0
  /\ parent = [s \in Systems |-> None]
  /\ content = [s \in Systems |-> [n \in Names |-> None]]

CreateSuccessor(p) ==
  /\ last < LastSystem
  /\ last' = last + 1
  /\ parent' = [parent EXCEPT ![last + 1] = p]
  /\ content' = [content EXCEPT ![last + 1] = content[p]]

Put(s, n, v) ==
  /\ Leaf(s)
  /\ content' = [content EXCEPT ![s][n] = v]
  /\ UNCHANGED <<last, parent>>

(* A removal in a successor uncovers what the predecessor holds.           *)
Remove(s, n) ==
  /\ Leaf(s)
  /\ content' = [content EXCEPT ![s][n] =
                   IF parent[s] = None THEN None ELSE content[parent[s]][n]]
  /\ UNCHANGED <<last, parent>>

Next ==
  \/ \E p \in 0..last : CreateSuccessor(p)
  \/ \E s \in Systems, n \in Names, v \in Values : Put(s, n, v)
  \/ \E s \in Systems, n \in Names : Remove(s, n)

Spec == Init /\ [][Next]_vars
=============================================================================
