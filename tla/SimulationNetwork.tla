------------------------- MODULE SimulationNetwork -------------------------
(***************************************************************************)
(* The network of dmsimulation while it is edited: modules, groups, links  *)
(* and the views each port is known to carry.  A new or removed link makes *)
(* checkModuleStreamForward walk from the changed place only, depth first: *)
(* a module whose in-ports all have views and hold what it asks for hands  *)
(* its views on along its links, a group hands on each stream by itself.   *)
(* The recursion is a stack of calls, todo, one link per step; the order   *)
(* of the links of one call is left open.                                  *)
(***************************************************************************)
EXTENDS Integers, Sequences, FiniteSets, SequencesExt

CONSTANTS
  Modules, Groups,     \* modules, those of them that are groups
  Streams, Views,      \* names of ports and of views
  InPorts, OutPorts,   \* Module -> the streams it has ports for
  Asks, Adds,          \* Module -> the <<stream, view>> it reads or modifies; writes
  Root,                \* the owner of a module outside of every group
  NULL                 \* a port without an entry in the map of views

ASSUME NetworkAssumption ==
  /\ Groups \subseteq Modules /\ Root \notin Modules
  /\ InPorts \in [Modules -> SUBSET Streams] /\ OutPorts \in [Modules -> SUBSET Streams]
  /\ Asks \in [Modules -> SUBSET (Streams \X Views)]
  /\ Adds \in [Modules -> SUBSET (Streams \X Views)]
  /\ \A p \in SUBSET Views : NULL # p
(* addData makes the ports of a module, addWriteStream those of a group:   *)
(* its out-ports are in-ports too, and it asks for nothing itself.         *)
ASSUME PortAssumption ==
  /\ \A m \in Modules : \A a \in Asks[m] : a[1] \in InPorts[m]
  /\ \A m \in Modules : \A a \in Adds[m] : a[1] \in OutPorts[m]
  /\ \A g \in Groups : Asks[g] = {} /\ Adds[g] = {} /\ OutPorts[g] \subseteq InPorts[g]
(* addData makes an out-port of a module for a view it adds to that stream *)
(* or modifies in it: once it passes its check it has something to offer.  *)
ASSUME OfferAssumption ==
  \A m \in Modules \ Groups : \A s \in OutPorts[m] :
    \E v \in Views : <<s, v>> \in Adds[m] \/ <<s, v>> \in Asks[m]

(* The ports the views of which are kept: in-ports, and out-ports of groups. *)
Ports == (UNION {{<<"in", m, s>> : s \in InPorts[m]} : m \in Modules})
         \cup (UNION {{<<"out", g, s>> : s \in OutPorts[g]} : g \in Groups})
Link  == [src : Modules, out : Streams, dst : Modules, in : Streams]

VARIABLES
  modules,      \* the modules of the simulation, in the order they were added
  owner,        \* Module -> its group; the group may be removed before it
  links,
  streamViews,  \* Port -> the views in it: streamViews, and of groups outStreamViews
  status,       \* Module -> its status as the stream check sets it
  todo,         \* the calls of the recursion, innermost first
  patched       \* history: a removal emptied a port that other links still serve

network == <<modules, owner, links, streamViews, status, todo, patched>>

Present == ToSet(modules)
(* The elements of a sequence that are in S, in its order.                 *)
Kept(s, S) ==
  LET Upto[n \in 0..Len(s)] ==
        IF n = 0 THEN <<>>
        ELSE IF s[n] \in S THEN Append(Upto[n - 1], s[n]) ELSE Upto[n - 1]
  IN Upto[Len(s)]
Entered(p) == IF p = NULL THEN {} ELSE p
Status == {"untouched", "checked", "error"}

IsIntoGroup(l)  == owner[l.dst] = l.src
IsOutOfGroup(l) == owner[l.src] = l.dst
Outgoing(ls, m)       == {l \in ls : l.src = m /\ ~IsIntoGroup(l)}
IntoGroupAt(ls, g, s) == {l \in ls : l.src = g /\ l.out = s /\ IsIntoGroup(l)}
Target(l) == <<IF IsOutOfGroup(l) THEN "out" ELSE "in", l.dst, l.in>>

NetworkTypeOK ==
  /\ modules \in Seq(Modules) /\ IsInjective(modules)
  /\ owner \in [Modules -> Groups \cup {Root}]
  /\ links \subseteq {l \in Link : l.src \in Present /\ l.dst \in Present}
  /\ DOMAIN streamViews = Ports
  /\ \A p \in Ports : streamViews[p] = NULL \/ streamViews[p] \subseteq Views
  /\ status \in [Modules -> Status]
  /\ \A i \in DOMAIN todo :
       /\ todo[i].of \in Modules /\ todo[i].ok \in BOOLEAN
       /\ DOMAIN todo[i].carry \subseteq links
       /\ \A l \in DOMAIN todo[i].carry : todo[i].carry[l] \subseteq Views
  /\ patched \in BOOLEAN

NoViews == [p \in Ports |-> NULL]

(* Modules as addModule has made them: no links, nothing checked.          *)
NetworkInit(list, own) ==
  /\ modules = list /\ owner = own
  /\ links = {} /\ streamViews = NoViews
  /\ status = [m \in Modules |-> "untouched"]
  /\ todo = <<>> /\ patched = FALSE

-----------------------------------------------------------------------------
(* The check of one module *)

Verdict(sv, m) ==
  IF \E s \in InPorts[m] : sv[<<"in", m, s>>] = NULL THEN "untouched"
  ELSE IF \E a \in Asks[m] : a[2] \notin sv[<<"in", m, a[1]>>] THEN "error"
  ELSE "checked"

(* The views of the stream a module hands on: those it got and its own.    *)
Updated(sv, m, s) ==
  {v \in Views : <<s, v>> \in Adds[m]}
    \cup IF s \in InPorts[m] THEN Entered(sv[<<"in", m, s>>]) ELSE {}

(* A call of the recursion, in a simulation with the links ls, and the     *)
(* views it still has to deliver.                                          *)
ModuleCall(ls, sv, m) ==
  [of |-> m, ok |-> TRUE,
   carry |-> [l \in {k \in Outgoing(ls, m) : Updated(sv, m, k.out) # {}}
              |-> Updated(sv, m, l.out)]]
GroupCall(ls, sv, g, s, side) ==
  [of |-> g, ok |-> TRUE,
   carry |-> [l \in IF side = "in" THEN IntoGroupAt(ls, g, s)
                    ELSE {k \in Outgoing(ls, g) : k.out = s}
              |-> Entered(sv[<<side, g, s>>])]]

KeepsError(st, m, v) ==                                   \* mutant of Judged
  IF st[m] = "error" THEN st ELSE [st EXCEPT ![m] = v]
Judged(st, m, v) == [st EXCEPT ![m] = v]

(* The innermost call learns that one it made has failed.                  *)
Told(stack, ok) ==
  IF stack = <<>> THEN <<>>
  ELSE <<[Head(stack) EXCEPT !.ok = @ /\ ok]>> \o Tail(stack)

(* checkModuleStreamForward(m), called by the innermost call of stack.     *)
CheckModule(ls, sv, st, m, stack) ==
  LET v == Verdict(sv, m) IN
  /\ status' = Judged(st, m, v)
  /\ todo' = IF v = "checked" THEN <<ModuleCall(ls, sv, m)>> \o stack
             ELSE Told(stack, v # "error")

(* checkGroupStreamForward(g, s, into)                                     *)
CheckGroup(ls, sv, g, s, side, stack) ==
  /\ status' = status
  /\ todo' = <<GroupCall(ls, sv, g, s, side)>> \o stack

-----------------------------------------------------------------------------
(* The recursion *)

KeepsFirst(sv, p, views) ==                               \* mutant of Received
  IF sv[p] = NULL THEN [sv EXCEPT ![p] = views] ELSE sv
Received(sv, p, views) == [sv EXCEPT ![p] = views]

(* The innermost call delivers its views along a link and goes on there.   *)
Deliver(l) ==
  /\ todo # <<>>
  /\ l \in DOMAIN Head(todo).carry
  /\ LET top   == Head(todo)
         rest  == [top EXCEPT !.carry = [k \in DOMAIN @ \ {l} |-> @[k]]]
         stack == <<rest>> \o Tail(todo)
         sv    == Received(streamViews, Target(l), top.carry[l])
     IN /\ streamViews' = sv
        /\ IF l.dst \in Groups
           THEN CheckGroup(links, sv, l.dst, l.in, Target(l)[1], stack)
           ELSE CheckModule(links, sv, status, l.dst, stack)
  /\ UNCHANGED <<modules, owner, links, patched>>

Return ==
  /\ todo # <<>>
  /\ DOMAIN Head(todo).carry = {}
  /\ LET top == Head(todo) IN
     /\ status' = IF top.of \in Groups
                  THEN Judged(status, top.of, IF top.ok THEN "checked" ELSE "error")
                  ELSE status
     /\ todo' = Told(Tail(todo), top.ok)
  /\ UNCHANGED <<modules, owner, links, streamViews, patched>>

(* checkStream: every module without in-ports, in the order of the list.   *)
(* None of these calls is made by another: what they tell is not read.     *)
Sources == Kept(modules, {m \in Modules : InPorts[m] = {}})
CheckStream(ls, sv, st) ==
  /\ status' = [m \in Modules |-> IF m \in ToSet(Sources) THEN "checked" ELSE st[m]]
  /\ todo' = [i \in DOMAIN Sources |-> ModuleCall(ls, sv, Sources[i])]

-----------------------------------------------------------------------------
(* Editing *)

(* isLinkingValid                                                          *)
IsLinkingValid(l) ==
  /\ l.src \in Present /\ l.dst \in Present /\ l.src # l.dst
  /\ l.out \in IF IsIntoGroup(l) THEN InPorts[l.src] ELSE OutPorts[l.src]
  /\ l.in \in IF IsOutOfGroup(l) THEN OutPorts[l.dst] ELSE InPorts[l.dst]
  /\ l \notin links
  /\ l.dst \notin Groups => ~\E k \in links : k.dst = l.dst /\ k.in = l.in

(* The users' part: isLinkingValid does not refuse a cycle, on which the   *)
(* recursion would never end.  The modules have the owners own.            *)
FollowsIn(own, k, l) ==
  /\ k.src = l.dst
  /\ l.dst \in Groups => k.out = l.in /\ (own[k.dst] = k.src <=> own[l.src] # l.dst)
EndsIn(own, ls) ==
  LET Onward[n \in Nat] ==       \* those from which n links can be followed
        IF n = 0 THEN ls
        ELSE LET next == Onward[n - 1] IN {l \in next : \E k \in next : FollowsIn(own, k, l)}
  IN Onward[Cardinality(ls)] = {}
Follows(k, l) == FollowsIn(owner, k, l)
Acyclic(ls)   == EndsIn(owner, ls)

AddModule(m, parent) ==
  /\ todo = <<>>
  /\ m \notin Present /\ parent \in (Groups \cap Present) \cup {Root}
  /\ m \in Groups => \A n \in Present : owner[n] # m
  /\ modules' = Append(modules, m)
  /\ owner' = [owner EXCEPT ![m] = parent]
  /\ UNCHANGED <<links, streamViews, status, todo, patched>>

(* addLink goes on from the module it starts at; for a group that makes an *)
(* empty entry for the port if there was none.                             *)
AddLink(l) ==
  /\ todo = <<>>
  /\ IsLinkingValid(l) /\ Acyclic(links \cup {l})
  /\ links' = links \cup {l}
  /\ LET side == IF IsIntoGroup(l) THEN "in" ELSE "out"
         from == <<side, l.src, l.out>>
     IN IF l.src \in Groups
        THEN /\ streamViews' = [streamViews EXCEPT ![from] = Entered(@)]
             /\ CheckGroup(links', streamViews, l.src, l.out, side, <<>>)
        ELSE /\ streamViews' = streamViews
             /\ CheckModule(links', streamViews, status, l.src, <<>>)
  /\ UNCHANGED <<modules, owner, patched>>

(* A port that loses the link l although others lead to it, or to the      *)
(* in-port of the same name.                                               *)
StillServed(l) == \E k \in links \ {l} : k.dst = l.dst /\ k.in = l.in

(* removeLink: the destination forgets the views of this port, of a group  *)
(* always those of the in-port, and is checked as a module.                *)
Forgotten(sv, l) == [sv EXCEPT ![<<"in", l.dst, l.in>>] = NULL]

RemoveLink(l) ==
  /\ todo = <<>> /\ l \in links
  /\ links' = links \ {l}
  /\ streamViews' = Forgotten(streamViews, l)
  /\ CheckModule(links', Forgotten(streamViews, l), status, l.dst, <<>>)
  /\ patched' = (patched \/ StillServed(l))
  /\ UNCHANGED <<modules, owner>>

LinksFrom(m) == {l \in links : l.src = m}                 \* mutant of LinksOf
LinksOf(m) == {l \in links : m \in {l.src, l.dst}}

(* removeModule takes its links along and checks nothing; the members of a *)
(* group keep it as their owner.                                           *)
RemoveModule(m) ==
  /\ todo = <<>> /\ m \in Present
  /\ links' = links \ LinksOf(m)
  /\ patched' = (patched \/ \E l \in LinksOf(m) : l.dst # m /\ StillServed(l))
  /\ modules' = Kept(modules, Present \ {m})
  /\ streamViews' = [p \in Ports |-> IF p[2] = m THEN NULL ELSE streamViews[p]]
  /\ status' = [status EXCEPT ![m] = "untouched"]
  /\ owner' = [owner EXCEPT ![m] = Root]
  /\ UNCHANGED todo

(* The check at the start of run, on what the ports hold.                  *)
Recheck ==
  /\ todo = <<>>
  /\ CheckStream(links, streamViews, status)
  /\ UNCHANGED <<modules, owner, links, streamViews, patched>>

(* reset: the maps streamViews of all modules are cleared, outStreamViews  *)
(* of the groups are not, and the streams are checked again.               *)
Cleared == [p \in Ports |-> IF p[1] = "in" THEN NULL ELSE streamViews[p]]
ResetNetwork ==
  /\ todo = <<>>
  /\ streamViews' = Cleared
  /\ CheckStream(links, Cleared, [m \in Modules |-> "untouched"])
  /\ patched' = FALSE
  /\ UNCHANGED <<modules, owner, links>>

NetworkStep ==
  \/ \E l \in links : Deliver(l)
  \/ Return

-----------------------------------------------------------------------------
(* Safety *)

(* The links that carry views: from a module that passes its check, and    *)
(* from the port of a group another such link leads to.                    *)
Live[n \in Nat] ==
  IF n = 0 THEN {}
  ELSE LET before == Live[n - 1] IN
       {l \in links :
          IF l.src \in Groups
          THEN \E k \in before : Follows(l, k)
          ELSE Verdict(streamViews, l.src) = "checked"}
LiveLinks == Live[Cardinality(links) + 1]
Offered(l) ==
  IF l.src \in Groups
  THEN Entered(streamViews[<<IF IsIntoGroup(l) THEN "in" ELSE "out", l.src, l.out>>])
  ELSE Updated(streamViews, l.src, l.out)

(* However the links were added and removed, the incremental checks leave  *)
(* what a check of everything would: a port that one link leads to, a live *)
(* one, holds the views this link offers now and not earlier ones.  Not    *)
(* after a removal has emptied a port that is still served.  (A port of a  *)
(* group with several links holds what came last.)                         *)
NetworkCurrent ==
  (todo = <<>> /\ ~patched) =>
    \A l \in LiveLinks :
      (Offered(l) # {} /\ \A k \in links : Target(k) = Target(l) => k = l) =>
        streamViews[Target(l)] = Offered(l)

(* Between two edits the status of a module is what the views on its       *)
(* in-ports say now, whichever edit brought them there.                    *)
ChecksCurrent ==
  todo = <<>> =>
    \A m \in Present \ Groups : InPorts[m] # {} => status[m] = Verdict(streamViews, m)
=============================================================================
