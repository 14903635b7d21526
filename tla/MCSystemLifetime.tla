-------------------------- MODULE MCSystemLifetime --------------------------
(* Networks of modules for model checking SystemLifetime.                  *)
EXTENDS SystemLifetime, TLC

CONSTANTS a, b, c, g, s, t

L(m, o, n, i) == [src |-> m, out |-> o, dst |-> n, in |-> i]
R(x) == <<x, "read">>
M(x) == <<x, "modify">>
W(x) == <<x, "write">>
Network(groups, owner, views, links) ==
  [groups |-> groups, links |-> links, successorMode |-> {},
   owner |-> owner @@ [m \in Modules |-> Root],
   views |-> views @@ [m \in Modules |-> {}]]

(* A source with two branches, one of which goes on.                       *)
Branches ==
  Network({}, <<>>, (a :> {W(s)}) @@ (b :> {M(s)}) @@ (c :> {R(s), R(t)}) @@ (g :> {R(s)}),
          {L(a, s, b, s), L(a, s, c, t), L(b, s, c, s), L(b, s, g, s)})

(* A chain with a module in successor mode.                                *)
Chain ==
  [Network({}, <<>>, (a :> {W(s)}) @@ (b :> {M(s)}) @@ (c :> {M(s)}) @@ (g :> {R(s)}),
           {L(a, s, b, s), L(b, s, c, s), L(c, s, g, s)})
   EXCEPT !.successorMode = {b}]

(* A group with two in-ports, both fed by one source, and one member.      *)
WideGroup ==
  Network({g}, (b :> g), (a :> {W(s)}) @@ (g :> {M(s), R(t)}) @@ (b :> {M(s), R(t)}) @@ (c :> {R(s)}),
          {L(a, s, g, s), L(a, s, g, t), L(g, s, b, s), L(g, t, b, t), L(b, s, g, s), L(g, s, c, s)})

(* The same without the link inwards from t.                               *)
LostPort ==
  Network({g}, (b :> g), (a :> {W(s)}) @@ (g :> {M(s), R(t)}) @@ (b :> {M(s)}) @@ (c :> {R(s)}),
          {L(a, s, g, s), L(a, s, g, t), L(g, s, b, s), L(b, s, g, s), L(g, s, c, s)})

(* A group with one in-port and two members on it, one of which branches;  *)
(* and one member with two in-ports on it.                                 *)
FanIn ==
  Network({g}, (b :> g) @@ (c :> g),
          (a :> {W(s)}) @@ (g :> {M(s)}) @@ (b :> {M(s)}) @@ (c :> {M(s), R(t)}),
          {L(a, s, g, s), L(g, s, b, s), L(g, s, c, s), L(b, s, c, t), L(b, s, g, s)})
Twofold ==
  Network({g}, (b :> g), (a :> {W(s)}) @@ (g :> {M(s)}) @@ (b :> {M(s), R(t)}) @@ (c :> {R(s)}),
          {L(a, s, g, s), L(g, s, b, s), L(g, s, b, t), L(b, s, g, s), L(g, s, c, s)})

AllNets == {Branches, Chain, WideGroup, LostPort, FanIn, Twofold}
ASSUME LinkedAssumption == \A n \in Nets : Linked(n)
=============================================================================
