--------------------------- MODULE SimulationFile ---------------------------
(***************************************************************************)
(* A network that is edited, saved, cleared and loaded again.  The writer  *)
(* lists the modules in the order they were added, each with the address   *)
(* of its owner, and all links.  The loader takes the entries one by one   *)
(* and sends a member whose group is not there yet to the end of the list; *)
(* it gives up by counting.  Then it adds the links without a check, and   *)
(* checks all streams at once.                                             *)
(***************************************************************************)
EXTENDS SimulationNetwork

CONSTANTS
  InitModules, InitOwner,   \* a network of added modules to begin with
  Parents,                  \* Module -> the owners it may be added with
  Offers,                   \* the links the users try
  Files,                    \* files from elsewhere
  MaxChanges                \* bound: modules added, removed, files loaded

Entry == [id : Modules, group : Groups \cup {Root}, known : BOOLEAN]
IsFile(f) ==
  /\ f.entries \in Seq(Entry) /\ f.links \subseteq Link
  /\ \A i, j \in DOMAIN f.entries : f.entries[i].id = f.entries[j].id => i = j
(* The links of a file between modules it lists, and the owners these get. *)
Listed(f) == {e.id : e \in ToSet(f.entries)}
Between(f) == {l \in f.links : {l.src, l.dst} \subseteq Listed(f)}
OwnerIn(f) == [m \in Modules |-> IF m \in Listed(f)
                                 THEN (CHOOSE e \in ToSet(f.entries) : e.id = m).group
                                 ELSE Root]
ASSUME FileAssumption ==
  /\ InitModules \in Seq(Modules) /\ IsInjective(InitModules)
  /\ InitOwner \in [Modules -> Groups \cup {Root}]
  /\ Parents \in [Modules -> SUBSET (Groups \cup {Root})]
  /\ Offers \subseteq Link
  /\ \A f \in Files : IsFile(f)
  /\ MaxChanges \in Nat
(* As for links added by hand: no file has a cycle.                        *)
ASSUME CycleAssumption ==
  \A f \in Files : IsFiniteSet(f.links) /\ EndsIn(OwnerIn(f), Between(f))

VARIABLES
  phase,       \* "edit", or where saving, clearing and loading are
  file,        \* the file being saved or loaded, and until the next edit
  entries,     \* moduleEntries, those not dealt with
  waitingForGroup,
  linkEntries, \* links of the file, not dealt with
  changes      \* bound

loader == <<phase, file, entries, waitingForGroup, linkEntries>>
vars   == <<network, loader, changes>>

NoFile == [entries |-> <<>>, links |-> {}]

TypeOK ==
  /\ NetworkTypeOK
  /\ phase \in {"edit", "saved", "cleared", "entries", "links", "loaded"}
  /\ IsFile(file)
  /\ entries \in Seq(Entry) /\ ToSet(entries) \subseteq ToSet(file.entries)
  /\ waitingForGroup \in Int
  /\ linkEntries \subseteq file.links
  /\ changes \in 0..MaxChanges

Init ==
  /\ NetworkInit(InitModules, InitOwner)
  /\ phase = "edit" /\ file = NoFile
  /\ entries = <<>> /\ waitingForGroup = 0 /\ linkEntries = {}
  /\ changes = 0

-----------------------------------------------------------------------------
(* An edit, once the call before it has returned.                          *)
Editing ==
  /\ phase \in {"edit", "loaded"}
  /\ phase' = "edit" /\ file' = NoFile
  /\ UNCHANGED <<entries, waitingForGroup, linkEntries>>
Counted == changes < MaxChanges /\ changes' = changes + 1

Edit ==
  \/ \E m \in Modules : \E parent \in Parents[m] :
       Editing /\ Counted /\ AddModule(m, parent)
  \/ \E m \in Modules : Editing /\ Counted /\ RemoveModule(m)
  \/ \E l \in Offers : Editing /\ AddLink(l) /\ UNCHANGED changes
  \/ \E l \in links : Editing /\ RemoveLink(l) /\ UNCHANGED changes
  \/ Editing /\ Recheck /\ UNCHANGED changes
  \/ Editing /\ ResetNetwork /\ UNCHANGED changes

(* writeSimulation; the users clear the simulation next.                   *)
Save ==
  /\ phase \in {"edit", "loaded"} /\ todo = <<>> /\ Counted
  /\ phase' = "saved"
  /\ file' = [entries |-> [i \in DOMAIN modules |->
                 [id |-> modules[i], group |-> owner[modules[i]], known |-> TRUE]],
              links |-> links]
  /\ UNCHANGED <<network, entries, waitingForGroup, linkEntries>>

(* clear: reset, then removeModule for every module.                       *)
Clear ==
  /\ phase = "saved"
  /\ phase' = "cleared"
  /\ modules' = <<>> /\ links' = {} /\ streamViews' = NoViews
  /\ status' = [m \in Modules |-> "untouched"]
  /\ owner' = [m \in Modules |-> Root] /\ patched' = FALSE
  /\ UNCHANGED <<todo, file, entries, waitingForGroup, linkEntries, changes>>

(* loadSimulation into the empty simulation, of the file saved or another. *)
Load(f) ==
  /\ phase = "cleared"
  /\ phase' = "entries"
  /\ file' = f
  /\ entries' = f.entries /\ waitingForGroup' = 0 /\ linkEntries' = f.links
  /\ UNCHANGED <<network, changes>>

GivesUpEarly(n, waiting) == n > waiting                   \* mutant of GoesOn
GoesOn(n, waiting) == n >= waiting

Taking == phase = "entries" /\ entries # <<>> /\ GoesOn(Len(entries), waitingForGroup)
Waits(e) == e.group # Root /\ e.group \notin Present

NotCounted(waiting) == waiting                            \* mutant of OneMore
OneMore(waiting) == waiting + 1

PostponeEntry ==
  /\ Taking /\ Waits(Head(entries))
  /\ entries' = Append(Tail(entries), Head(entries))
  /\ waitingForGroup' = OneMore(waitingForGroup)
  /\ UNCHANGED <<network, phase, file, linkEntries, changes>>

(* An entry whose group is there counts down, also if it never waited; one *)
(* of an unknown class is dropped.                                         *)
CreateEntry ==
  /\ Taking /\ ~Waits(Head(entries))
  /\ LET e == Head(entries) IN
     /\ waitingForGroup' = IF e.group = Root THEN waitingForGroup ELSE waitingForGroup - 1
     /\ modules' = IF e.known THEN Append(modules, e.id) ELSE modules
     /\ owner' = IF e.known THEN [owner EXCEPT ![e.id] = e.group] ELSE owner
  /\ entries' = Tail(entries)
  /\ UNCHANGED <<links, streamViews, status, todo, patched, phase, file, linkEntries, changes>>

EndEntries ==
  /\ phase = "entries" /\ ~Taking
  /\ phase' = "links" /\ entries' = <<>>
  /\ UNCHANGED <<network, file, waitingForGroup, linkEntries, changes>>

(* A link between modules that are there is added, without a check.        *)
LoadLink(l) ==
  /\ phase = "links" /\ l \in linkEntries
  /\ linkEntries' = linkEntries \ {l}
  /\ links' = IF IsLinkingValid(l) THEN links \cup {l} ELSE links
  /\ UNCHANGED <<modules, owner, streamViews, status, todo, patched, phase, file, entries,
                 waitingForGroup, changes>>

EndLoad ==
  /\ phase = "links" /\ linkEntries = {}
  /\ phase' = "loaded"
  /\ CheckStream(links, streamViews, status)
  /\ UNCHANGED <<modules, owner, links, streamViews, patched, file, entries,
                 waitingForGroup, linkEntries, changes>>

(* What goes on by itself once a call is made.                             *)
Walk == NetworkStep /\ UNCHANGED <<loader, changes>>
LoadStep == PostponeEntry \/ CreateEntry \/ EndEntries
            \/ (\E l \in linkEntries : LoadLink(l)) \/ EndLoad
Step == Walk \/ LoadStep

Next == Edit \/ Save \/ Clear \/ (\E f \in Files \cup {file} : Load(f)) \/ Step

(* One thread edits, saves and loads: a call that is made goes on.         *)
Spec == Init /\ [][Next]_vars /\ WF_vars(Step)

-----------------------------------------------------------------------------
(* Safety and liveness *)

(* What the network promises while it is edited, promised again as soon as *)
(* a file has been loaded: the views are those a full check would bring.   *)
StreamsCurrent == phase \in {"edit", "loaded"} => NetworkCurrent

(* The entries that can be loaded: of a known class, in no group or in one *)
(* that can be.                                                            *)
Resolvable(f) ==
  LET byId(i) == CHOOSE e \in ToSet(f.entries) : e.id = i
      Ids == {e.id : e \in ToSet(f.entries)}
      Upto[n \in Nat] ==
        IF n = 0 THEN {}
        ELSE {i \in Ids : byId(i).known
                          /\ (byId(i).group = Root \/ byId(i).group \in Upto[n - 1])}
  IN Upto[Len(f.entries)]

PrecedesGroup(f, i) ==
  \E j \in DOMAIN f.entries : i < j /\ f.entries[j].id = f.entries[i].group
Sorted(f) ==
  \A i \in DOMAIN f.entries : f.entries[i].id \in Resolvable(f) => ~PrecedesGroup(f, i)
Shallow(f) ==
  /\ Resolvable(f) = {e.id : e \in ToSet(f.entries)}
  /\ \A i, j \in DOMAIN f.entries :
       (PrecedesGroup(f, i) /\ f.entries[j].id = f.entries[i].group) => ~PrecedesGroup(f, j)

(* A file whose groups come first, as the writer makes them, or one with   *)
(* nothing missing and no chain of waiting groups is loaded completely:    *)
(* every module that can be is there, with its owner, and every link       *)
(* between two of them; modules of a sorted file keep their order.  What   *)
(* is not loaded hangs on a group that was removed before saving.          *)
LoadsFile ==
  (phase = "loaded" /\ (Sorted(file) \/ Shallow(file))) =>
    /\ Present = Resolvable(file)
    /\ \A e \in ToSet(file.entries) : e.id \in Present => owner[e.id] = e.group
    /\ links = {l \in file.links : {l.src, l.dst} \subseteq Resolvable(file)}
    /\ Sorted(file) =>
         modules = Kept([i \in DOMAIN file.entries |-> file.entries[i].id], Resolvable(file))

(* Every edit and every load returns: the walk along the links ends, and   *)
(* the loader stops postponing entries of groups that never come.          *)
CallReturns == (phase \in {"entries", "links"} \/ todo # <<>>) ~>
                 (phase \notin {"entries", "links"} /\ todo = <<>>)
=============================================================================
