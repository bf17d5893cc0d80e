---------------------------- MODULE ExitRoutes ----------------------------
(***************************************************************************)
(* Applier.EnsureExitRoutes: a call rebuilds the hub's internet-exit       *)
(* policy routing with one `ip` command after another.  It flushes its own *)
(* rules, removes the devices no longer wanted, makes and routes the       *)
(* wanted ones, diverts the mesh back to the main table and at last sends  *)
(* each exit client into its node's table.  Service.mu keeps calls apart;  *)
(* a command may fail, and the process may die between two of them.        *)
(*                                                                         *)
(* A device and its table are keyed by the node's tunnel address, which is *)
(* unique in a pool of at most a /16 (exitIndex), so a node stands for     *)
(* both.                                                                   *)
(***************************************************************************)
EXTENDS Naturals, Sequences, Functions

CONSTANTS
    Clients,   \* tunnel addresses of clients
    Nodes,     \* tunnel addresses of home nodes
    Lans,      \* prefixes inside the VPN
    Routes,    \* what Reconcile passes as routes: sets of <<client, exit node>>
    Meshes,    \* what Reconcile passes as mesh: the LAN of every active node, then the pool
    Nil

ASSUME ExitAssumption ==
    /\ Routes \subseteq SUBSET (Clients \X Nodes)
    /\ Meshes \subseteq Seq(Lans)
    /\ Nil \notin Nodes

VARIABLES
    dev,        \* IPIP device of each node: "none", "down" or "up"
    table,      \* nodes whose table has a default route through the device
    diverted,   \* prefixes with a rule at exitMeshPref
    steered,    \* <<client, node>> pairs with a rule at exitPref
    call,       \* the running call, or how the last one ended
    leftovers   \* history: a flush gave up on rules that were still there

kernelVars == <<dev, table, diverted, steered>>
vars == <<kernelVars, call, leftovers>>

WantedByClient(routes) == {r[1] : r \in routes}

\* exitPlan: a device for each distinct exit node, a rule for each route.
Wanted(routes) == {r[2] : r \in routes}

Phases == {"flushMesh", "flushExit", "reap", "devices", "mesh", "rules",
           "ok", "error", "dead"}

Call == [phase  : Phases,
         routes : SUBSET (Clients \X Nodes),
         mesh   : Meshes,
         cur    : Nodes \cup {Nil},                \* the device being made
         sub    : {"link", "up", "addr", "route"}, \* its next command
         devs   : SUBSET Nodes,                    \* devices still to be ensured
         added  : Nat,                             \* mesh rules added
         todo   : SUBSET (Clients \X Nodes),       \* source rules still to be added
         reaped : BOOLEAN,                         \* no unwanted device was left
         fault  : BOOLEAN]                         \* a command failed that could succeed

NothingFlushed(routes, mesh) ==
    [phase |-> "reap", routes |-> routes, mesh |-> mesh, cur |-> Nil, sub |-> "link",
     devs |-> Wanted(routes), added |-> 0, todo |-> routes, reaped |-> TRUE, fault |-> FALSE]

\* A call that starts.
Fresh(routes, mesh) ==
    [phase |-> "flushMesh", routes |-> routes, mesh |-> mesh, cur |-> Nil, sub |-> "link",
     devs |-> Wanted(routes), added |-> 0, todo |-> routes, reaped |-> TRUE, fault |-> FALSE]

Running == call.phase \notin {"ok", "error", "dead"}
At(p) == call.phase = p

Init ==
    /\ dev = [n \in Nodes |-> "none"]
    /\ table = {}
    /\ diverted = {}
    /\ steered = {}
    /\ \E mesh \in Meshes : call = [Fresh({}, mesh) EXCEPT !.phase = "dead"]
    /\ leftovers = FALSE

Goto(p) == call' = [call EXCEPT !.phase = p]

\* A command failed although nothing stood in its way.
Faulty(p) == call' = [call EXCEPT !.phase = p, !.fault = TRUE]

---------------------------------------------------------------------------
Begin(routes, mesh) ==
    /\ ~ Running
    /\ call' = Fresh(routes, mesh)
    /\ UNCHANGED <<kernelVars, leftovers>>

\* ip rule del pref P removes one rule; the loop ends when there is none.
FlushMeshRule ==
    /\ At("flushMesh")
    /\ \E m \in diverted : diverted' = diverted \ {m}
    /\ UNCHANGED <<dev, table, steered, call, leftovers>>

FlushForever ==
    /\ At("flushMesh") /\ diverted = {}
    /\ UNCHANGED vars

FlushMeshDone ==
    /\ At("flushMesh") /\ diverted = {}
    /\ Goto("flushExit")
    /\ UNCHANGED <<kernelVars, leftovers>>

FlushExitRule ==
    /\ At("flushExit")
    /\ \E r \in steered : steered' = steered \ {r}
    /\ UNCHANGED <<dev, table, diverted, call, leftovers>>

FlushExitDone ==
    /\ At("flushExit") /\ steered = {}
    /\ Goto("reap")
    /\ leftovers' = (diverted # {})
    /\ UNCHANGED kernelVars

\* Any error ends the loop, not only "no such rule".
FlushGivesUp ==
    /\ \/ At("flushMesh") /\ diverted # {} /\ Faulty("flushExit")
       \/ At("flushExit") /\ steered # {} /\ Faulty("reap")
    /\ leftovers' = TRUE
    /\ UNCHANGED kernelVars

---------------------------------------------------------------------------
(* Devices.                                                                *)

Made == {n \in Nodes : dev[n] # "none"}

\* A device takes its routes with it.
Unlink(N) == /\ dev' = [n \in Nodes |-> IF n \in N THEN "none" ELSE dev[n]]
             /\ table' = table \ N

NothingReaped ==
    /\ At("reap")
    /\ Goto("devices")
    /\ UNCHANGED <<kernelVars, leftovers>>

\* Deletions are best effort, and so is the listing they start from.
Reap ==
    /\ At("reap")
    /\ LET unwanted == Made \ Wanted(call.routes) IN
         \E N \in SUBSET unwanted :
           /\ Unlink(N)
           /\ call' = [call EXCEPT !.phase = "devices", !.reaped = (N = unwanted),
                                   !.fault = (@ \/ N # unwanted)]
    /\ UNCHANGED <<diverted, steered, leftovers>>

\* The next device; one that exists is neither added nor set up.
NextDevice ==
    /\ At("devices") /\ call.cur = Nil
    /\ \E n \in call.devs :
         call' = [call EXCEPT !.cur = n, !.devs = @ \ {n},
                              !.sub = IF dev[n] = "none" THEN "link" ELSE "addr"]
    /\ UNCHANGED <<kernelVars, leftovers>>

Sub(s) == At("devices") /\ call.cur # Nil /\ call.sub = s

LinkAdd ==
    /\ Sub("link")
    /\ dev' = [dev EXCEPT ![call.cur] = "down"]
    /\ call' = [call EXCEPT !.sub = "up"]
    /\ UNCHANGED <<table, diverted, steered, leftovers>>

LinkUp ==
    /\ Sub("up")
    /\ dev' = [dev EXCEPT ![call.cur] = "up"]
    /\ call' = [call EXCEPT !.sub = "addr"]
    /\ UNCHANGED <<table, diverted, steered, leftovers>>

\* ip addr replace, then rp_filter as far as it can be written.
AddrReplace ==
    /\ Sub("addr")
    /\ call' = [call EXCEPT !.sub = "route"]
    /\ UNCHANGED <<kernelVars, leftovers>>

RouteReplace ==
    /\ Sub("route")
    /\ dev[call.cur] = "up"
    /\ table' = table \cup {call.cur}
    /\ call' = [call EXCEPT !.cur = Nil, !.sub = "link"]
    /\ UNCHANGED <<dev, diverted, steered, leftovers>>

\* The kernel takes no route through a device that is down: ENETDOWN.
RouteRefused ==
    /\ Sub("route")
    /\ dev[call.cur] # "up"
    /\ Goto("error")
    /\ UNCHANGED <<kernelVars, leftovers>>

DevicesDone ==
    /\ At("devices") /\ call.cur = Nil /\ call.devs = {}
    /\ Goto("mesh")
    /\ UNCHANGED <<kernelVars, leftovers>>

---------------------------------------------------------------------------
(* Rules.  ip rule add refuses a rule the kernel already has: EEXIST.      *)

NextPrefix == call.mesh[call.added + 1]

Divert ==
    /\ At("mesh") /\ call.added < Len(call.mesh)
    /\ NextPrefix \notin diverted
    /\ diverted' = diverted \cup {NextPrefix}
    /\ call' = [call EXCEPT !.added = @ + 1]
    /\ UNCHANGED <<dev, table, steered, leftovers>>

DivertRefused ==
    /\ At("mesh") /\ call.added < Len(call.mesh)
    /\ NextPrefix \in diverted
    /\ Goto("error")
    /\ UNCHANGED <<kernelVars, leftovers>>

MeshCutShort ==
    /\ At("mesh")
    /\ Goto("rules")
    /\ UNCHANGED <<kernelVars, leftovers>>

MeshDone ==
    /\ At("mesh") /\ call.added = Len(call.mesh)
    /\ Goto("rules")
    /\ UNCHANGED <<kernelVars, leftovers>>

Steer ==
    /\ At("rules")
    /\ \E r \in call.todo \ steered :
         /\ steered' = steered \cup {r}
         /\ call' = [call EXCEPT !.todo = @ \ {r}]
    /\ UNCHANGED <<dev, table, diverted, leftovers>>

SteerRefused ==
    /\ At("rules") /\ call.todo \cap steered # {}
    /\ Goto("error")
    /\ UNCHANGED <<kernelVars, leftovers>>

Done ==
    /\ At("rules") /\ call.todo = {}
    /\ Goto("ok")
    /\ UNCHANGED <<kernelVars, leftovers>>

---------------------------------------------------------------------------
(* Failure.                                                                *)

\* A command whose error the call returns fails; nothing is undone.
CommandFails ==
    /\ \/ At("devices") /\ call.cur # Nil
       \/ At("mesh") /\ call.added < Len(call.mesh)
       \/ At("rules") /\ call.todo # {}
    /\ Faulty("error")
    /\ UNCHANGED <<kernelVars, leftovers>>

\* The panel dies between two commands; the kernel's state stays, unless the
\* host goes down with it.
Die ==
    /\ Goto("dead")
    /\ \/ UNCHANGED <<kernelVars, leftovers>>
       \/ /\ Unlink(Nodes) /\ diverted' = {} /\ steered' = {}
          /\ leftovers' = FALSE

---------------------------------------------------------------------------
\* The next command of the running call.
NextCommand ==
    \/ FlushMeshRule \/ FlushMeshDone \/ FlushExitRule \/ FlushExitDone
    \/ Reap \/ NextDevice \/ LinkAdd \/ LinkUp \/ AddrReplace
    \/ RouteReplace \/ RouteRefused \/ DevicesDone
    \/ Divert \/ DivertRefused \/ MeshDone \/ Steer \/ SteerRefused \/ Done

Next ==
    \/ \E routes \in Routes, mesh \in Meshes : Begin(routes, mesh)
    \/ NextCommand \/ FlushGivesUp \/ CommandFails \/ Die

Spec == Init /\ [][Next]_vars

\* Each command returns, and the call goes on to the next one.
FairSpec == Spec /\ WF_vars(NextCommand)

---------------------------------------------------------------------------
(* Properties.                                                             *)

\* The kernel's tables and the call have the shapes above.
TypeOK ==
    /\ dev \in [Nodes -> {"none", "down", "up"}]
    /\ table \subseteq Nodes
    /\ diverted \subseteq Lans
    /\ steered \subseteq Clients \X Nodes
    /\ call \in Call
    /\ leftovers \in BOOLEAN

\* EnsureExitRoutes (apply.go:187-194): a call that returns nil has left exactly the
\* given routes: a source rule for each and no other, a device that is up and has
\* the default route for each exit node, and, when every deletion worked, no other
\* device, whatever an earlier call that failed or died had left.
ExactOnSuccess ==
    At("ok") /\ ~ leftovers =>
      /\ steered = call.routes
      /\ diverted = Range(call.mesh)
      /\ \A n \in Wanted(call.routes) : dev[n] = "up" /\ n \in table
      /\ call.reaped => Made = Wanted(call.routes)

\* The order of the steps (apply.go:230-321): at no moment, not even after a crash or
\* a failed call, is a client steered into a table with no route through a device
\* that is up; its traffic would leave by the hub's own WAN.
SteeredTrafficHasARoute ==
    ~ leftovers => \A r \in steered : dev[r[2]] = "up" /\ r[2] \in table

\* A call that gave up half-way leaves no client steered whose mesh traffic is not
\* diverted first (apply.go:196-203): it would lose every other site.
MeshBeforeExit ==
    call.phase \in {"rules", "ok", "error"} /\ ~ leftovers /\ steered # {}
      => Range(call.mesh) \subseteq diverted

\* Every call ends: the flush loops find an end, and so do the lists.
CallsEnd == Running ~> ~ Running

\* The comment (apply.go:247-248): the call is to "create the missing ones, and
\* (re)point each table's default route (idempotent)", so one in which every command
\* that can succeed does, succeeds.
CleanCallSucceeds == At("error") => call.fault
===========================================================================
