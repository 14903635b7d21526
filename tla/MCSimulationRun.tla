-------------------------- MODULE MCSimulationRun --------------------------
(* Networks of modules for model checking SimulationRun.                   *)
EXTENDS SimulationRun

CONSTANTS a, b, c, d, e, g, h, s, t

L(m, o, n, i) == [src |-> m, out |-> o, dst |-> n, in |-> i]
R(x) == <<x, "read">>
M(x) == <<x, "modify">>
W(x) == <<x, "write">>

(* A network given by its module list, a partial owner and view function.  *)
Network(list, groups, owner, views, links) ==
  [list |-> list, groups |-> groups, links |-> links,
   owner |-> [m \in Modules |-> IF m \in DOMAIN owner THEN owner[m] ELSE Root],
   views |-> [m \in Modules |-> IF m \in DOMAIN views THEN views[m] ELSE {}],
   successorMode |-> {}, broken |-> {}]

(* A source, two branches with their own successor, a join; the list is in *)
(* reverse order.                                                          *)
Diamond ==
  Network(<<d, c, b, a>>, {}, <<>>,
    (a :> {W(s)}) @@ (b :> {M(s)}) @@ (c :> {R(s), W(t)}) @@ (d :> {M(s), R(t)}),
    {L(a, s, b, s), L(a, s, c, s), L(b, s, d, s), L(c, t, d, t)})

(* A source, a module that fails its check, a module in successor mode     *)
(* and a sink.                                                             *)
Chain ==
  [Network(<<c, a, b, d>>, {}, <<>>,
     (a :> {W(s)}) @@ (b :> {M(s)}) @@ (c :> {M(s)}) @@ (d :> {R(s)}),
     {L(a, s, b, s), L(b, s, c, s), L(c, s, d, s)})
   EXCEPT !.successorMode = {b}]
BrokenChain == [Chain EXCEPT !.broken = {b}, !.successorMode = {}]

(* One group between a source and a last module, with two members in line. *)
OneGroup ==
  Network(<<a, g, b, c, d>>, {g}, (b :> g) @@ (c :> g),
    (a :> {W(s)}) @@ (g :> {M(s)}) @@ (b :> {M(s)}) @@ (c :> {M(s)}) @@ (d :> {R(s)}),
    {L(a, s, g, s), L(g, s, b, s), L(b, s, c, s), L(c, s, g, s), L(g, s, d, s)})

(* Two groups fed by one source, and a join behind them.                   *)
TwoGroups ==
  Network(<<a, g, b, h, c, d>>, {g, h}, (b :> g) @@ (c :> h),
    (a :> {W(s)}) @@ (g :> {M(s)}) @@ (h :> {M(t)}) @@ (b :> {M(s)}) @@ (c :> {M(t)})
      @@ (d :> {R(s), R(t)}),
    {L(a, s, g, s), L(a, s, h, t), L(g, s, b, s), L(b, s, g, s),
     L(h, t, c, t), L(c, t, h, t), L(g, s, d, s), L(h, t, d, t)})

(* A group with two in-ports and a member on each, one of which feeds the  *)
(* other and the group at once.                                            *)
WideGroup ==
  Network(<<a, b, g, c, d, e>>, {g}, (c :> g) @@ (d :> g),
    (a :> {W(s)}) @@ (b :> {W(t)}) @@ (g :> {M(s), M(t)})
      @@ (c :> {M(s)}) @@ (d :> {M(t), R(s)}) @@ (e :> {R(s), R(t)}),
    {L(a, s, g, s), L(b, t, g, t), L(g, s, c, s), L(g, t, d, t), L(c, s, d, s),
     L(c, s, g, s), L(d, t, g, t), L(g, s, e, s), L(g, t, e, t)})

(* A group in a group, the only way through.                               *)
Nested ==
  Network(<<a, g, h, b, d>>, {g, h}, (h :> g) @@ (b :> h),
    (a :> {W(s)}) @@ (g :> {M(s)}) @@ (h :> {M(s)}) @@ (b :> {M(s)}) @@ (d :> {R(s)}),
    {L(a, s, g, s), L(g, s, h, s), L(h, s, b, s), L(b, s, h, s), L(h, s, g, s),
     L(g, s, d, s)})

(* A group with one in-port and two members on it, and a group that only   *)
(* reads.                                                                  *)
FanIn ==
  Network(<<a, g, b, c, h, d>>, {g, h}, (b :> g) @@ (c :> g) @@ (d :> h),
    (a :> {W(s)}) @@ (g :> {M(s)}) @@ (b :> {M(s)}) @@ (c :> {R(s)})
      @@ (h :> {R(s)}) @@ (d :> {R(s)}),
    {L(a, s, g, s), L(g, s, b, s), L(g, s, c, s), L(b, s, g, s), L(g, s, h, s),
     L(h, s, d, s)})

(* A group with an in-port that is not linked to a member.                 *)
LostPort ==
  Network(<<a, b, g, c, d>>, {g}, (c :> g),
    (a :> {W(s)}) @@ (b :> {W(t)}) @@ (g :> {M(s), R(t)}) @@ (c :> {M(s)}) @@ (d :> {R(s)}),
    {L(a, s, g, s), L(b, t, g, t), L(g, s, c, s), L(c, s, g, s), L(g, s, d, s)})

(* A member of the outer group delivers to it beside the inner group.      *)
NestedBeside ==
  Network(<<a, g, c, h, b, d>>, {g, h}, (c :> g) @@ (h :> g) @@ (b :> h),
    (a :> {W(s)}) @@ (g :> {M(s), W(t)}) @@ (c :> {M(s), W(t)})
      @@ (h :> {M(s)}) @@ (b :> {M(s)}) @@ (d :> {R(s), R(t)}),
    {L(a, s, g, s), L(g, s, c, s), L(c, t, g, t), L(c, s, h, s), L(h, s, b, s),
     L(b, s, h, s), L(h, s, g, s), L(g, s, d, s), L(g, t, d, t)})

AllNets == {Diamond, Chain, BrokenChain, OneGroup, TwoGroups, WideGroup, Nested, FanIn, LostPort}
Besides == {NestedBeside}
Chains == {Chain}
=============================================================================
