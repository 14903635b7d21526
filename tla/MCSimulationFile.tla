-------------------------- MODULE MCSimulationFile --------------------------
(* A network to edit and files to load for model checking SimulationFile.  *)
EXTENDS SimulationFile

CONSTANTS a, b, d, g, m, s, t, v1, v2

Empty == [x \in Modules |-> {}]
L(x, o, y, i) == [src |-> x, out |-> o, dst |-> y, in |-> i]
E(x, y) == [id |-> x, group |-> y, known |-> TRUE]

(* Sources a (view v1), b (view v2), a group g with a member m that reads *)
(* v1, adds v2, and a module d: v2 of one stream, v1 of another.          *)
MCInPorts  == (g :> {s}) @@ (m :> {s}) @@ (d :> {s, t}) @@ Empty
MCOutPorts == (a :> {s}) @@ (b :> {s}) @@ (g :> {s}) @@ (m :> {s}) @@ Empty
MCAsks == (m :> {<<s, v1>>}) @@ (d :> {<<s, v2>>, <<t, v1>>}) @@ Empty
MCAdds == (a :> {<<s, v1>>}) @@ (b :> {<<s, v2>>}) @@ (m :> {<<s, v2>>}) @@ Empty

MCModules == <<a, g, m, d>>
MCOwner == (m :> g) @@ [x \in Modules |-> Root]
MCParents == (b :> {g, Root}) @@ (m :> {g}) @@ [x \in Modules |-> {Root}]
MCOffers == {L(a, s, g, s), L(b, s, g, s), L(g, s, m, s), L(m, s, g, s), L(g, s, d, s),
             L(a, s, d, t)}

(* Members before their groups; an unknown class; a group that is missing. *)
MCFiles ==
  {[entries |-> <<E(m, g), E(d, g), E(a, Root), E(g, Root)>>,
    links |-> {L(a, s, g, s), L(g, s, m, s)}],
   [entries |-> <<E(a, Root), [E(g, Root) EXCEPT !.known = FALSE], E(m, g), E(d, Root)>>,
    links |-> {L(a, s, g, s), L(g, s, m, s), L(a, s, d, t)}],
   [entries |-> <<E(m, g), E(b, g), E(d, g), E(a, Root)>>,
    links |-> {L(a, s, m, s), L(a, s, d, t), L(b, s, d, s)}]}
=============================================================================
