------------------------------ MODULE LruCache ------------------------------
(***************************************************************************)
(* What dmcache.h promises: "a dictionary, with limited size, sorted by    *)
(* access order".  The keys are a sequence, the last used one first; a new *)
(* key beyond the size drops the key at the end.                           *)
(***************************************************************************)
EXTENDS Naturals, Sequences, SequencesExt

CONSTANTS
  Keys, Values,
  Size,          \* the largest number of keys, 0 for no limit
  Nothing        \* the answer of a get that finds no key, or of no get

VARIABLES entries, value, answer
vars == <<entries, value, answer>>

Cached == ToSet(entries)
Place(k) == CHOOSE i \in DOMAIN entries : entries[i] = k
Without(k) == IF k \in Cached THEN RemoveAt(entries, Place(k)) ELSE entries
Touched(k) == <<k>> \o Without(k)
Limited(s) == IF Size = 0 THEN s ELSE SubSeq(s, 1, IF Len(s) < Size THEN Len(s) ELSE Size)

(* The values of the keys in a sequence, and nothing for the others.       *)
Of(s, v) == [k \in Keys |-> IF k \in ToSet(s) THEN v[k] ELSE Nothing]

Init == entries = <<>> /\ value = [k \in Keys |-> Nothing] /\ answer = Nothing

Get(k) ==
  /\ entries' = IF k \in Cached THEN Touched(k) ELSE entries
  /\ answer' = value[k]
  /\ UNCHANGED value

Add(k, v) ==
  /\ k \notin Cached
  /\ entries' = Limited(<<k>> \o entries)
  /\ value' = Of(entries', [value EXCEPT ![k] = v])
  /\ UNCHANGED answer

Replace(k, v) ==
  /\ k \in Cached
  /\ entries' = Touched(k)
  /\ value' = [value EXCEPT ![k] = v]
  /\ UNCHANGED answer

Drop(k) ==
  /\ entries' = Without(k)
  /\ value' = [value EXCEPT ![k] = Nothing]
  /\ UNCHANGED answer

Clear ==
  /\ entries' = <<>>
  /\ value' = [k \in Keys |-> Nothing]
  /\ UNCHANGED answer

Next ==
  \/ \E k \in Keys : Get(k) \/ Drop(k)
  \/ \E k \in Keys, v \in Values : Add(k, v) \/ Replace(k, v)
  \/ Clear

Spec == Init /\ [][Next]_vars
=============================================================================
