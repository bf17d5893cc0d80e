------------------------------- MODULE Groups -------------------------------
(***************************************************************************)
(* The panel's map (web/app): groups of devices that are to share their    *)
(* access.  The server knows nothing of them: a group is a name and a list *)
(* of members in the layout blob, which every open map keeps a copy of and *)
(* writes back whole.  What a group promises is kept by the page alone,    *)
(* one API call after another, and any of these calls may fail.            *)
(*                                                                         *)
(* A call that succeeds is an operation of AccessStore.  Positions, names  *)
(* and colours are left out, and so are deletions: a device that goes away *)
(* during a flow makes its next call fail, which every call may do.        *)
(***************************************************************************)
EXTENDS AccessStore, FiniteSets, SequencesExt

CONSTANTS
    Browsers,   \* open maps
    Flows,      \* sequences of API calls on their way
    GroupIds,   \* ids newGroupId draws
    CatchAll    \* the rule whose destination is 0.0.0.0/0

ASSUME GroupsAssumption ==
    /\ IsFiniteSet(Clients) /\ IsFiniteSet(Nodes) /\ HubNode \in Nodes
    /\ Nil \notin Clients \cup Nodes \cup Rules
    /\ Clients \cap Nodes = {} /\ Pairs \cap (Clients \cup Nodes) = {}

VARIABLES
    blob,       \* the groups in the row of graph_layout
    groups,     \* the copy of each map
    puts,       \* blobs each map has sent
    view,       \* the lists of granted nodes each page shows
    polls,      \* and those that are on their way to it
    flow,       \* the flows
    settled     \* history: no call failed so far, and everything was done on an
                \* up-to-date map with nothing else going on

pageVars == <<blob, groups, puts, view, polls>>
vars == <<dbVars, pageVars, flow, settled>>

---------------------------------------------------------------------------
(* Shapes.                                                                 *)

\* NoGroup and NoDevice: the id is of no group, the list has no such device.
NoGroup  == {Nil}
NoDevice == {Nil}
Members  == (SUBSET Clients) \cup {NoGroup}
Layout   == [GroupIds -> Members]
NoGroups == [g \in GroupIds |-> NoGroup]

\* ListClients: granted_nodes of every device.
Listed == [c \in Clients |-> IF Exists(c) THEN {n \in Nodes : <<c, n>> \in Granted} ELSE NoDevice]

Call == [op : {"create", "grant", "revoke", "copy", "exit", "rules", "place"},
         on : Pairs, of : Clients \cup {Nil}, exit : BOOLEAN, rules : SUBSET Rules]

\* alone: no other flow ran beside this one; goal: what a save is to bring about.
NoFlow == [calls |-> <<>>, browser |-> Nil, ends |-> "idle", alone |-> TRUE, goal |-> {}]

Running(f) == flow[f].calls # <<>>

Init ==
    /\ client \in [Clients -> {"absent", "enabled"}]
    /\ node \in [Nodes -> {"active", "gone"}] /\ node[HubNode] = "active"
    /\ access = [g \in Pairs |-> NoAccess]
    /\ exits = {}
    /\ blob = NoGroups
    /\ groups = [b \in Browsers |-> NoGroups]
    /\ puts = [b \in Browsers |-> {}]
    /\ view = [b \in Browsers |-> Listed]
    /\ polls = [b \in Browsers |-> {}]
    /\ flow = [f \in Flows |-> NoFlow]
    /\ settled = TRUE

---------------------------------------------------------------------------
(* The page and the layout blob.                                           *)

\* load: polls overlap, and their answers come in any order.
Poll(b) ==
    /\ polls' = [polls EXCEPT ![b] = @ \cup {Listed}]
    /\ UNCHANGED <<dbVars, blob, groups, puts, view, flow, settled>>

PollAnswered(b, list) ==
    /\ list \in polls[b]
    /\ polls' = [polls EXCEPT ![b] = @ \ {list}]
    /\ view' = [view EXCEPT ![b] = list]
    /\ UNCHANGED <<dbVars, blob, groups, puts, flow, settled>>

\* The map is opened: it loads the blob once, or takes a failure for an empty one.
OpenMap(b) ==
    /\ groups' = [groups EXCEPT ![b] = blob]
    /\ UNCHANGED <<dbVars, blob, puts, view, polls, flow, settled>>

OpenMapFails(b) ==
    /\ groups' = [groups EXCEPT ![b] = NoGroups]
    /\ UNCHANGED <<dbVars, blob, puts, view, polls, flow, settled>>

\* SetGraphLayout: the last to arrive is what stays.
LayoutStored(b, m) ==
    /\ m \in puts[b]
    /\ blob' = m
    /\ puts' = [puts EXCEPT ![b] = @ \ {m}]
    /\ UNCHANGED <<dbVars, groups, view, polls, flow, settled>>

\* The page ignores the error.
LayoutLost(b, m) ==
    /\ m \in puts[b]
    /\ puts' = [puts EXCEPT ![b] = @ \ {m}]
    /\ UNCHANGED <<dbVars, blob, groups, view, polls, flow, settled>>

\* serializeLayout and setLayout, of the copy as it is from now on.
Saves(b, m) ==
    /\ groups' = [groups EXCEPT ![b] = m]
    /\ puts' = [puts EXCEPT ![b] = @ \cup {m}]
    /\ UNCHANGED <<blob, view, polls>>

\* The page shows what is there, and nothing is on its way.
UpToDate(b) ==
    /\ view[b] = Listed /\ groups[b] = blob
    /\ \A x \in Browsers : puts[x] = {}
    /\ \A f \in Flows : ~ Running(f)

\* persist, after a drag
SavePositions(b) ==
    /\ Saves(b, groups[b])
    /\ settled' = (settled /\ UpToDate(b))
    /\ UNCHANGED <<dbVars, flow>>

CreateGroup(b, g) ==
    /\ blob[g] = NoGroup /\ \A x \in Browsers : groups[x][g] = NoGroup
    /\ Saves(b, [groups[b] EXCEPT ![g] = {}])
    /\ settled' = (settled /\ UpToDate(b))
    /\ UNCHANGED <<dbVars, flow>>

DissolveGroup(b, g) ==
    /\ groups[b][g] # NoGroup
    /\ Saves(b, [groups[b] EXCEPT ![g] = NoGroup])
    /\ settled' = (settled /\ UpToDate(b))
    /\ UNCHANGED <<dbVars, flow>>

\* Dragged out of the frame, or taken out in GroupModal: its access stays.
TakeOut(b, g, c) ==
    /\ groups[b][g] # NoGroup /\ c \in groups[b][g]
    /\ Saves(b, [groups[b] EXCEPT ![g] = @ \ {c}])
    /\ settled' = (settled /\ UpToDate(b))
    /\ UNCHANGED <<dbVars, flow>>

---------------------------------------------------------------------------
(* Flows: what the page sets out to do, call by call.                      *)

CallOn(op, c, n) == [op |-> op, on |-> <<c, n>>, of |-> Nil, exit |-> FALSE, rules |-> {}]

\* A flow starts; each one that is running is not alone any more.
Starts(f, b, calls, goal) ==
    /\ ~ Running(f)
    /\ flow' = [x \in Flows |->
                  IF x = f THEN [calls |-> calls, browser |-> b, ends |-> "well",
                                 alone |-> \A y \in Flows : ~ Running(y), goal |-> goal]
                  ELSE [flow[x] EXCEPT !.alone = @ /\ ~ Running(x)]]
    /\ settled' = (settled /\ UpToDate(b))
    /\ UNCHANGED dbVars

GroupOf(b, c) == {g \in GroupIds : groups[b][g] # NoGroup /\ c \in groups[b][g]}

\* The devices of a group that still exist, and the union of what they are granted.
Shown(b, S) == {c \in S : view[b][c] # NoDevice}
GroupGrants(b, S) == UNION {view[b][c] : c \in Shown(b, S)}

\* One call for each, in the order of the list; here in any order.
OneByOne(op, S) ==
    {[i \in DOMAIN s |-> CallOn(op, s[i][1], s[i][2])] : s \in SetToSeqs(S)}

NoCopies(b, S, c, target) == {<<>>}

\* Exit and rules of each node, from a member that has the grant.
Copies(b, S, c, target) ==
    LET reps(n) == {m \in Shown(b, S) : n \in view[b][m]} IN
      UNION {{[i \in DOMAIN s |-> [CallOn("copy", c, s[i]) EXCEPT !.of = rep[s[i]]]] :
                s \in SetToSeqs({n \in target : reps(n) # {}})} :
             rep \in {r \in [target -> Clients \cup {Nil}] :
                        \A n \in target : IF reps(n) = {} THEN r[n] = Nil ELSE r[n] \in reps(n)}}

\* joinGroup, with the lists the page shows: the blob is sent first, then syncPlan's
\* grants and revocations, then the copies.
JoinGroup(b, f, g, c) ==
    /\ groups[b][g] # NoGroup
    /\ view[b][c] # NoDevice /\ GroupOf(b, c) = {}
    /\ LET S      == groups[b][g]
           target == IF S = {} THEN view[b][c] ELSE GroupGrants(b, S)
       IN  /\ Saves(b, [groups[b] EXCEPT ![g] = S \cup {c}])
           /\ \E add    \in OneByOne("grant", {c} \X (target \ view[b][c])),
                 remove \in OneByOne("revoke", {c} \X (view[b][c] \ target)),
                 copies \in Copies(b, S, c, target) :
                Starts(f, b, add \o remove \o copies, {})

GrantDissolvedGroup(b, f, g, n) ==
    /\ \E calls \in OneByOne("grant", groups[b][g] \X {n}) : Starts(f, b, calls, {})
    /\ UNCHANGED pageVars

\* A group that is linked to a node, or a line of its own removed.
GrantGroup(b, f, g, n) ==
    /\ groups[b][g] \notin {NoGroup, {}}
    /\ \E calls \in OneByOne("grant", groups[b][g] \X {n}) : Starts(f, b, calls, {})
    /\ UNCHANGED pageVars

RevokeGroup(b, f, g, n) ==
    /\ groups[b][g] # NoGroup
    /\ n \in GroupGrants(b, groups[b][g])
    /\ \E calls \in OneByOne("revoke", groups[b][g] \X {n}) : Starts(f, b, calls, {})
    /\ UNCHANGED pageVars

\* The same for a device in no group; a member's card has no lines of its own.
GrantDevice(b, f, c, n) ==
    /\ view[b][c] # NoDevice /\ GroupOf(b, c) = {}
    /\ Starts(f, b, <<CallOn("grant", c, n)>>, {})
    /\ UNCHANGED pageVars

RevokeDevice(b, f, c, n) ==
    /\ view[b][c] # NoDevice /\ GroupOf(b, c) = {} /\ n \in view[b][c]
    /\ Starts(f, b, <<CallOn("revoke", c, n)>>, {})
    /\ UNCHANGED pageVars

LeadOnly(s, n, exit, R) ==
    <<[CallOn("exit", s[1], n) EXCEPT !.exit = exit], [CallOn("rules", s[1], n) EXCEPT !.rules = R]>>

\* RulesModal's save: first the exit, then the rules, device by device.
SaveCalls(s, n, exit, R) ==
    [i \in 1..(2 * Len(s)) |->
       LET c == s[(i + 1) \div 2] IN
         IF i % 2 = 1 THEN [CallOn("exit", c, n) EXCEPT !.exit = exit]
         ELSE [CallOn("rules", c, n) EXCEPT !.rules = R]]

\* What the editor is open for: the line of a group, or of a device in none.
Edited(b) ==
    {groups[b][g] : g \in GroupIds} \cup {{c} : c \in {x \in Clients : GroupOf(b, x) = {}}}

\* With the exit on the catch-all rule is dropped.
SaveRules(b, f, S, n, exit, R) ==
    /\ S \in Edited(b) \ {NoGroup, {}}
    /\ n \in GroupGrants(b, S)
    /\ LET toSave == IF exit THEN R \ {CatchAll} ELSE R IN
         \E s \in SetToSeqs(S) :
           Starts(f, b, SaveCalls(s, n, exit, toSave),
                  {[on |-> <<c, n>>, exit |-> exit, rules |-> toSave] : c \in S})
    /\ UNCHANGED pageVars

\* AddDeviceWizard: the device, its grants, and its place on the map.
AddDevice(b, f, c, picked) ==
    /\ client[c] = "absent"
    /\ \A x \in Flows : Running(x) => \A i \in DOMAIN flow[x].calls : flow[x].calls[i].on[1] # c
    /\ \E grants \in OneByOne("grant", {c} \X picked), place \in {<<>>, <<CallOn("place", c, HubNode)>>} :
         Starts(f, b, <<CallOn("create", c, HubNode)>> \o grants \o place, {})
    /\ UNCHANGED pageVars

---------------------------------------------------------------------------
(* The calls.                                                              *)

\* What a call that succeeds does to the database.
Commits(f, call) ==
    LET g == call.on IN
      \/ call.op = "create" /\ CreateClient(g[1])
      \/ call.op = "grant" /\ SetGrant(g)
      \/ call.op = "revoke" /\ IF g \in Granted THEN Delete(g) ELSE UNCHANGED dbVars
      \/ /\ call.op = "exit" /\ SetGrantExit(g, call.exit)
         /\ call.exit => \A x \in exits : x[1] = g[1] => x = g
      \/ /\ call.op = "rules" /\ SetGrantRules(g, call.rules)
         /\ flow[f].alone => access'[g] = call.rules
      \/ call.op \in {"copy", "place"} /\ UNCHANGED dbVars

\* GrantExit and GrantRules of the representative become the calls that follow.
Copied(call) ==
    LET rep == <<call.of, call.on[2]>> IN
      <<[call EXCEPT !.op = "exit", !.exit = rep \in exits],
        [call EXCEPT !.op = "rules", !.rules = access[rep]]>>

CallSucceeds(f) ==
    /\ Running(f)
    /\ LET call == Head(flow[f].calls)
           b    == flow[f].browser
           rest == Tail(flow[f].calls)
       IN  /\ Commits(f, call)
           /\ call.op = "copy" => <<call.of, call.on[2]>> \in Granted
           /\ flow' = [flow EXCEPT ![f].calls =
                         IF call.op = "copy" THEN Copied(call) \o rest ELSE rest]
           /\ puts' = [puts EXCEPT ![b] = IF call.op = "place" THEN @ \cup {NoGroups} ELSE @]
    /\ UNCHANGED <<blob, groups, view, polls, settled>>

\* It is refused, lost, or committed and not applied; the rest is not tried.
CallFails(f) ==
    /\ Running(f)
    /\ Head(flow[f].calls).op # "place"
    /\ Commits(f, Head(flow[f].calls)) \/ UNCHANGED dbVars
    /\ flow' = [flow EXCEPT ![f].calls = <<>>, ![f].ends = "badly"]
    /\ settled' = FALSE
    /\ UNCHANGED pageVars

---------------------------------------------------------------------------
OnTheWay ==
    \/ \E b \in Browsers : \/ \E list \in polls[b] : PollAnswered(b, list)
                           \/ \E m \in puts[b] : LayoutStored(b, m)
    \/ \E f \in Flows : CallSucceeds(f)

Failure ==
    \/ \E b \in Browsers : OpenMapFails(b) \/ \E m \in puts[b] : LayoutLost(b, m)
    \/ \E f \in Flows : CallFails(f)

Present == {n \in Nodes : node[n] = "active"}

Operator(b) ==
    \/ OpenMap(b) \/ SavePositions(b)
    \/ \E g \in GroupIds : CreateGroup(b, g) \/ DissolveGroup(b, g) \/ \E c \in Clients : TakeOut(b, g, c)
    \/ \E f \in Flows :
         \/ \E g \in GroupIds : \/ \E c \in Clients : JoinGroup(b, f, g, c)
                                \/ \E n \in Present : GrantGroup(b, f, g, n) \/ RevokeGroup(b, f, g, n)
         \/ \E c \in Clients : \/ \E n \in Present : GrantDevice(b, f, c, n) \/ RevokeDevice(b, f, c, n)
                               \/ \E picked \in SUBSET Present : AddDevice(b, f, c, picked)
         \/ \E S \in Edited(b), n \in Present, exit \in BOOLEAN, R \in SUBSET Rules :
              SaveRules(b, f, S, n, exit, R)

Next == OnTheWay \/ Failure \/ \E b \in Browsers : Poll(b) \/ Operator(b)

Spec == Init /\ [][Next]_vars

---------------------------------------------------------------------------
(* Properties.                                                             *)

\* Layouts, lists and flows have these shapes, and the database those of AccessStore.
TypeOK ==
    /\ StoreTypeOK
    /\ blob \in Layout /\ groups \in [Browsers -> Layout]
    /\ \A b \in Browsers : puts[b] \subseteq Layout
    /\ \A b \in Browsers : {view[b]} \cup polls[b] \subseteq [Clients -> (SUBSET Nodes) \cup {NoDevice}]
    /\ \A f \in Flows : flow[f].calls \in Seq(Call)
    /\ settled \in BOOLEAN

Same(c, d) ==
    \A n \in Nodes : /\ access[<<c, n>>] = access[<<d, n>>]
                     /\ <<c, n>> \in exits <=> <<d, n>> \in exits

\* "Members are kept in sync on join and on every group-level change" (groups.ts:
\* 114-115), "the whole of the group's access, not just its shape" (AccessGraph.tsx:
\* 639-640): after any number of changes, each made on an up-to-date map once the one
\* before had ended without an error, members share nodes, rules and exits.
SettledGroupsShareAccess ==
    settled /\ (\A f \in Flows : ~ Running(f)) =>
      \A g \in GroupIds : blob[g] # NoGroup => \A c, d \in blob[g] : Same(c, d)

\* "saving brings them all into line" (RulesModal.tsx:59-63): whatever the members'
\* exits and rules were before, a save that ran alone and to its end has set all.
SaveBringsIntoLine ==
    [][\A f \in Flows :
         Running(f) /\ flow'[f].calls = <<>> /\ flow'[f].ends = "well" /\ flow'[f].alone
           => \A x \in flow[f].goal : /\ access'[x.on] = x.rules
                                      /\ x.on \in exits' <=> x.exit]_vars
=============================================================================
