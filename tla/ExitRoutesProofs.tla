-------------------------- MODULE ExitRoutesProofs --------------------------
(***************************************************************************)
(* Proofs about ExitRoutes, for every set of clients, nodes and prefixes   *)
(* and every list of them a call is given: no client is ever steered into  *)
(* a table without a route, a call that gives up leaves the mesh diverted, *)
(* and one that succeeds has left exactly what it was asked for, each      *)
(* whatever earlier calls that failed or died have left.                   *)
(*                                                                         *)
(* None of the three is inductive: they hold because of what the call has  *)
(* done so far, which the invariant states phase by phase.                 *)
(***************************************************************************)
EXTENDS ExitRoutes, TLAPS

\* The lists the call works off, as far as each phase has come.
ListsInv ==
    /\ call.devs \subseteq Wanted(call.routes)
    /\ call.cur \in Wanted(call.routes) \cup {Nil}
    /\ call.todo \subseteq call.routes
    /\ call.added \in 0..Len(call.mesh)
    /\ call.phase \in {"flushMesh", "flushExit", "reap"} =>
         call.cur = Nil /\ call.devs = Wanted(call.routes)
    /\ call.phase \in {"flushMesh", "flushExit", "reap", "devices"} => call.added = 0
    /\ call.phase \in {"flushMesh", "flushExit", "reap", "devices", "mesh"} =>
         call.todo = call.routes
    /\ call.phase \in {"mesh", "rules", "ok"} => call.cur = Nil /\ call.devs = {}
    /\ call.phase = "ok" => call.todo = {}

\* A device that carries what is steered into its table.
Ready(n) == dev[n] = "up" /\ n \in table

\* Devices: those the call is done with are ready, and no other was left.
DevicesInv ==
    call.phase \in {"devices", "mesh", "rules", "ok"} =>
      /\ \A n \in Wanted(call.routes) : n \in call.devs \/ n = call.cur \/ Ready(n)
      /\ call.reaped => Made \subseteq Wanted(call.routes)

\* Rules: none of the call's own until the devices are ready, then those it added.
RulesInv ==
    ~ leftovers =>
      /\ call.phase \in {"reap", "devices", "mesh"} => steered = {}
      /\ call.phase \in {"reap", "devices"} => diverted = {}
      /\ call.phase = "mesh" => diverted = {call.mesh[i] : i \in 1..call.added}
      /\ call.phase \in {"rules", "ok"} => /\ diverted = Range(call.mesh)
                                           /\ steered = call.routes \ call.todo

IInv ==
    /\ TypeOK
    /\ ListsInv /\ DevicesInv /\ RulesInv
    /\ SteeredTrafficHasARoute /\ MeshBeforeExit

\* What the fields of a call are.
LEMMA CallFields ==
    ASSUME TypeOK
    PROVE  /\ call.phase \in Phases /\ call.routes \in SUBSET (Clients \X Nodes)
           /\ call.mesh \in Meshes /\ call.mesh \in Seq(Lans)
           /\ call.cur \in Nodes \cup {Nil}
           /\ call.devs \in SUBSET Nodes /\ call.added \in Nat
           /\ Len(call.mesh) \in Nat /\ DOMAIN call.mesh = 1..Len(call.mesh)
           /\ Wanted(call.routes) \subseteq Nodes
<1>1. call.mesh \in Seq(Lans)
  BY ExitAssumption DEF TypeOK, Call
<1>2. Wanted(call.routes) \subseteq Nodes
  BY DEF TypeOK, Call, Wanted
<1> QED
  BY <1>1, <1>2 DEF TypeOK, Call

\* A call that starts has everything before it.
LEMMA FreshCall ==
    ASSUME NEW routes \in SUBSET (Clients \X Nodes), NEW mesh \in Meshes
    PROVE  /\ Fresh(routes, mesh) \in Call
           /\ Wanted(routes) \subseteq Nodes
           /\ Len(mesh) \in Nat
<1>1. Wanted(routes) \subseteq Nodes
  BY DEF Wanted
<1>2. mesh \in Seq(Lans)
  BY ExitAssumption
<1> QED
  BY <1>1, <1>2 DEF Fresh, Call, Phases

\* The invariant holds when the panel has not yet called.
LEMMA ExitStart == Init => IInv
<1> SUFFICES ASSUME Init PROVE IInv
  OBVIOUS
<1>1. PICK mesh \in Meshes : call = [Fresh({}, mesh) EXCEPT !.phase = "dead"]
  BY DEF Init
<1>2. /\ Fresh({}, mesh) \in Call /\ Len(mesh) \in Nat
  BY FreshCall
<1>3. call \in Call
  BY <1>1, <1>2 DEF Call, Phases
<1>4. /\ call.phase = "dead" /\ call.devs = Wanted({}) /\ call.cur = Nil /\ call.todo = {}
      /\ call.routes = {} /\ call.mesh = mesh /\ call.added = 0
  BY <1>1 DEF Fresh
<1>5. TypeOK
  BY <1>3 DEF Init, TypeOK
<1>6. ListsInv
  BY <1>2, <1>4 DEF ListsInv
<1>7. DevicesInv /\ RulesInv /\ SteeredTrafficHasARoute /\ MeshBeforeExit
  BY <1>4 DEF Init, DevicesInv, RulesInv, SteeredTrafficHasARoute, MeshBeforeExit
<1> QED
  BY <1>5, <1>6, <1>7 DEF IInv

\* A command that only moves the call on to another phase.
LEMMA PhaseOnly ==
    ASSUME TypeOK, NEW p \in Phases, Goto(p) \/ Faulty(p)
    PROVE  /\ call' \in Call /\ call'.phase = p
           /\ call'.routes = call.routes /\ call'.mesh = call.mesh /\ call'.cur = call.cur
           /\ call'.devs = call.devs /\ call'.added = call.added /\ call'.todo = call.todo
           /\ call'.reaped = call.reaped
<1>1. CASE Goto(p)
  BY <1>1 DEF Goto, TypeOK, Call
<1>2. CASE Faulty(p)
  BY <1>2 DEF Faulty, TypeOK, Call
<1> QED
  BY <1>1, <1>2

---------------------------------------------------------------------------
(* One lemma for each phase.                                               *)

\* A new call: nothing is steered that was not before.
LEMMA BeginKeeps ==
    ASSUME IInv, NEW routes \in Routes, NEW mesh \in Meshes, Begin(routes, mesh)
    PROVE  IInv'
<1>1. routes \in SUBSET (Clients \X Nodes)
  BY ExitAssumption
<1>2. call' = Fresh(routes, mesh) /\ UNCHANGED <<kernelVars, leftovers>>
  BY DEF Begin
<1>3. call' \in Call /\ Len(mesh) \in Nat
  BY <1>1, <1>2, FreshCall
<1>4. /\ call'.phase = "flushMesh" /\ call'.devs = Wanted(routes) /\ call'.cur = Nil
      /\ call'.todo = routes /\ call'.routes = routes /\ call'.mesh = mesh /\ call'.added = 0
  BY <1>2 DEF Fresh
<1> QED
  BY <1>2, <1>3, <1>4 DEF IInv, TypeOK, ListsInv, DevicesInv, RulesInv, SteeredTrafficHasARoute,
                          MeshBeforeExit, kernelVars

\* The flushes only take rules away, and say when they left some.
LEMMA FlushKeeps ==
    ASSUME IInv, \/ FlushMeshRule \/ FlushMeshDone \/ FlushExitRule \/ FlushExitDone
                 \/ FlushGivesUp
    PROVE  IInv'
<1>1. CASE FlushMeshRule
  BY <1>1 DEF FlushMeshRule, At, IInv, TypeOK, ListsInv, DevicesInv, RulesInv,
              SteeredTrafficHasARoute, MeshBeforeExit, Made, Ready
<1>2. CASE FlushExitRule
  BY <1>2 DEF FlushExitRule, At, IInv, TypeOK, ListsInv, DevicesInv, RulesInv,
              SteeredTrafficHasARoute, MeshBeforeExit, Made, Ready
<1>3. CASE FlushMeshDone
  <2>1. Goto("flushExit") /\ UNCHANGED <<kernelVars, leftovers>> /\ call.phase = "flushMesh"
    BY <1>3 DEF FlushMeshDone, At
  <2> QED
    BY <2>1, PhaseOnly DEF Phases, IInv, TypeOK, ListsInv, DevicesInv, RulesInv,
       SteeredTrafficHasARoute, MeshBeforeExit, kernelVars
<1>4. CASE FlushExitDone
  <2>1. Goto("reap") /\ UNCHANGED kernelVars /\ call.phase = "flushExit"
    BY <1>4 DEF FlushExitDone, At
  <2>2. steered = {} /\ leftovers' = (diverted # {})
    BY <1>4 DEF FlushExitDone
  <2> QED
    BY <2>1, <2>2, PhaseOnly DEF Phases, IInv, TypeOK, ListsInv, DevicesInv, RulesInv,
       SteeredTrafficHasARoute, MeshBeforeExit, kernelVars
<1>5. CASE FlushGivesUp
  <2>1. PICK p \in {"flushExit", "reap"} : Faulty(p)
    BY <1>5 DEF FlushGivesUp
  <2>2. leftovers' = TRUE /\ UNCHANGED kernelVars /\ call.phase \in {"flushMesh", "flushExit"}
    BY <1>5 DEF FlushGivesUp, At
  <2> QED
    BY <2>1, <2>2, PhaseOnly DEF Phases, IInv, TypeOK, ListsInv, DevicesInv, RulesInv,
       SteeredTrafficHasARoute, MeshBeforeExit, kernelVars
<1> QED
  BY <1>1, <1>2, <1>3, <1>4, <1>5

\* No device goes that a rule of a later step steers into: there is none yet.
LEMMA ReapKeeps == ASSUME IInv, Reap PROVE IInv'
<1> DEFINE W == Wanted(call.routes)
<1>1. PICK N \in SUBSET (Made \ W) :
        /\ Unlink(N)
        /\ call' = [call EXCEPT !.phase = "devices", !.reaped = (N = Made \ W),
                                !.fault = (@ \/ N # Made \ W)]
  BY DEF Reap
<1>2. /\ call.phase = "reap" /\ UNCHANGED <<diverted, steered, leftovers>>
  BY DEF Reap, At
<1>3. /\ call'.phase = "devices" /\ call'.reaped = (N = Made \ W)
      /\ call'.routes = call.routes /\ call'.mesh = call.mesh /\ call'.cur = call.cur
      /\ call'.devs = call.devs /\ call'.added = call.added /\ call'.todo = call.todo
  BY <1>1 DEF IInv, TypeOK, Call
<1>4. call' \in Call
  BY <1>1 DEF IInv, TypeOK, Call, Phases
<1>5. dev' \in [Nodes -> {"none", "down", "up"}] /\ table' \subseteq Nodes
  BY <1>1 DEF Unlink, IInv, TypeOK
<1>6. N = Made \ W => Made' \subseteq W
  BY <1>1 DEF Unlink, Made
<1>7. TypeOK'
  BY <1>2, <1>4, <1>5 DEF IInv, TypeOK
<1>8. ListsInv' /\ DevicesInv'
  BY <1>2, <1>3, <1>6 DEF IInv, ListsInv, DevicesInv
<1>9. RulesInv' /\ SteeredTrafficHasARoute' /\ MeshBeforeExit'
  BY <1>2, <1>3 DEF IInv, RulesInv, SteeredTrafficHasARoute, MeshBeforeExit
<1> QED
  BY <1>7, <1>8, <1>9 DEF IInv

\* While devices are made nothing is steered, unless a flush has left rules.
LEMMA DevicesKeep ==
    ASSUME IInv, \/ NextDevice \/ LinkAdd \/ LinkUp \/ AddrReplace \/ RouteReplace
                 \/ RouteRefused \/ DevicesDone
    PROVE  IInv'
<1> USE CallFields DEF IInv
<1>1. call.phase = "devices"
  BY DEF NextDevice, LinkAdd, LinkUp, AddrReplace, RouteReplace, RouteRefused, DevicesDone, Sub, At
<1>2. ~ leftovers => steered = {} /\ diverted = {}
  BY <1>1 DEF RulesInv
<1>3. ASSUME ListsInv', DevicesInv', TypeOK', UNCHANGED <<diverted, steered, leftovers>>,
             call'.phase = "devices"
      PROVE  IInv'
  BY <1>2, <1>3 DEF RulesInv, SteeredTrafficHasARoute, MeshBeforeExit
<1>4. CASE NextDevice
  <2>1. PICK n \in call.devs :
          call' = [call EXCEPT !.cur = n, !.devs = @ \ {n},
                               !.sub = IF dev[n] = "none" THEN "link" ELSE "addr"]
    BY <1>4 DEF NextDevice
  <2>2. call.cur = Nil /\ UNCHANGED <<kernelVars, leftovers>>
    BY <1>4 DEF NextDevice
  <2>3. call' \in Call
    BY <2>1 DEF TypeOK, Call
  <2>4. /\ call'.phase = "devices" /\ call'.routes = call.routes /\ call'.mesh = call.mesh
        /\ call'.cur = n /\ call'.devs = call.devs \ {n} /\ call'.added = call.added
        /\ call'.todo = call.todo /\ call'.reaped = call.reaped
    BY <1>1, <2>1 DEF TypeOK, Call
  <2>5. TypeOK'
    BY <2>2, <2>3 DEF TypeOK, kernelVars
  <2>6. ListsInv'
    BY <1>1, <2>1, <2>4 DEF ListsInv
  <2>7. DevicesInv'
    BY <1>1, <2>2, <2>4, ExitAssumption DEF DevicesInv, Ready, Made, kernelVars
  <2> QED
    BY <1>3, <2>2, <2>4, <2>5, <2>6, <2>7 DEF kernelVars
<1>5. ASSUME LinkAdd \/ LinkUp \/ AddrReplace
      PROVE  IInv'
  <2>1. PICK s \in {"up", "addr", "route"} : call' = [call EXCEPT !.sub = s]
    BY <1>5 DEF LinkAdd, LinkUp, AddrReplace
  <2>2. call.cur \in Nodes \cap Wanted(call.routes) /\ UNCHANGED <<table, diverted, steered, leftovers>>
    BY <1>5 DEF LinkAdd, LinkUp, AddrReplace, Sub, ListsInv, TypeOK, Call, kernelVars
  <2>3. dev' = dev \/ \E v \in {"down", "up"} : dev' = [dev EXCEPT ![call.cur] = v]
    BY <1>5 DEF LinkAdd, LinkUp, AddrReplace, kernelVars
  <2>4. call' \in Call
    BY <2>1 DEF TypeOK, Call
  <2>5. /\ call'.phase = "devices" /\ call'.routes = call.routes /\ call'.mesh = call.mesh
        /\ call'.cur = call.cur /\ call'.devs = call.devs /\ call'.added = call.added
        /\ call'.todo = call.todo /\ call'.reaped = call.reaped
    BY <1>1, <2>1 DEF TypeOK, Call
  <2>6. TypeOK'
    BY <2>2, <2>3, <2>4 DEF TypeOK
  <2>7. ListsInv'
    BY <1>1, <2>5 DEF ListsInv
  <2>8. \A n \in Nodes : n # call.cur => dev'[n] = dev[n]
    BY <2>3 DEF TypeOK
  <2>9. DevicesInv'
    BY <1>1, <2>2, <2>5, <2>8 DEF DevicesInv, Ready, Made
  <2> QED
    BY <1>3, <2>2, <2>5, <2>6, <2>7, <2>9
<1>6. CASE RouteReplace
  <2>1. /\ call' = [call EXCEPT !.cur = Nil, !.sub = "link"] /\ table' = table \cup {call.cur}
        /\ dev[call.cur] = "up" /\ UNCHANGED <<dev, diverted, steered, leftovers>>
    BY <1>6 DEF RouteReplace
  <2>2. call.cur \in Nodes
    BY <1>6 DEF RouteReplace, Sub, TypeOK, Call
  <2>3. call' \in Call
    BY <2>1 DEF TypeOK, Call
  <2>4. /\ call'.phase = "devices" /\ call'.routes = call.routes /\ call'.mesh = call.mesh
        /\ call'.cur = Nil /\ call'.devs = call.devs /\ call'.added = call.added
        /\ call'.todo = call.todo /\ call'.reaped = call.reaped
    BY <1>1, <2>1 DEF TypeOK, Call
  <2>5. TypeOK'
    BY <2>1, <2>2, <2>3 DEF TypeOK
  <2>6. ListsInv'
    BY <1>1, <2>4 DEF ListsInv
  <2>7. DevicesInv'
    BY <1>1, <2>1, <2>4 DEF DevicesInv, Ready, Made
  <2> QED
    BY <1>3, <2>1, <2>4, <2>5, <2>6, <2>7
<1>7. CASE RouteRefused
  <2>1. Goto("error") /\ UNCHANGED <<kernelVars, leftovers>>
    BY <1>7 DEF RouteRefused
  <2> QED
    BY <1>1, <1>2, <2>1, PhaseOnly DEF Phases, TypeOK, ListsInv, DevicesInv, RulesInv,
       SteeredTrafficHasARoute, MeshBeforeExit, kernelVars
<1>8. CASE DevicesDone
  <2>1. /\ Goto("mesh") /\ UNCHANGED <<kernelVars, leftovers>>
        /\ call.cur = Nil /\ call.devs = {}
    BY <1>8 DEF DevicesDone
  <2>2. /\ call' \in Call /\ call'.phase = "mesh"
        /\ call'.routes = call.routes /\ call'.mesh = call.mesh /\ call'.cur = call.cur
        /\ call'.devs = call.devs /\ call'.added = call.added /\ call'.todo = call.todo
        /\ call'.reaped = call.reaped
    BY <2>1, PhaseOnly DEF Phases
  <2>3. TypeOK' /\ ListsInv'
    BY <1>1, <2>1, <2>2 DEF TypeOK, ListsInv, kernelVars
  <2>4. DevicesInv'
    BY <1>1, <2>1, <2>2 DEF DevicesInv, Ready, Made, kernelVars
  <2>5. {call.mesh[i] : i \in 1..call.added} = {}
    BY <1>1 DEF ListsInv
  <2>6. RulesInv' /\ SteeredTrafficHasARoute' /\ MeshBeforeExit'
    BY <1>2, <2>1, <2>2, <2>5 DEF RulesInv, SteeredTrafficHasARoute, MeshBeforeExit, kernelVars
  <2> QED
    BY <2>3, <2>4, <2>6
<1> QED
  BY <1>4, <1>5, <1>6, <1>7, <1>8

\* The mesh rules come in the order of the list, and all before any exit rule.
LEMMA MeshKeeps ==
    ASSUME IInv, Divert \/ DivertRefused \/ MeshDone
    PROVE  IInv'
<1> USE CallFields DEF IInv
<1>1. call.phase = "mesh"
  BY DEF Divert, DivertRefused, MeshDone, At
<1>2. ~ leftovers => steered = {} /\ diverted = {call.mesh[i] : i \in 1..call.added}
  BY <1>1 DEF RulesInv
<1>3. CASE Divert
  <2>1. /\ call' = [call EXCEPT !.added = @ + 1]
        /\ diverted' = diverted \cup {call.mesh[call.added + 1]}
        /\ call.added + 1 \in 1..Len(call.mesh)
        /\ UNCHANGED <<dev, table, steered, leftovers>>
    BY <1>3 DEF Divert, NextPrefix
  <2>2. call' \in Call
    <3>1. call \in Call /\ call.added + 1 \in Nat
      BY DEF TypeOK
    <3> HIDE CallFields
    <3> QED
      BY <2>1, <3>1 DEF Call
  <2>3. /\ call'.phase = "mesh" /\ call'.routes = call.routes /\ call'.mesh = call.mesh
        /\ call'.cur = call.cur /\ call'.devs = call.devs /\ call'.added = call.added + 1
        /\ call'.todo = call.todo /\ call'.reaped = call.reaped
    BY <1>1, <2>1 DEF TypeOK, Call
  <2>4. call.mesh[call.added + 1] \in Lans
    BY <2>1
  <2>5. TypeOK'
    BY <2>1, <2>2, <2>4 DEF TypeOK
  <2>6. ListsInv' /\ DevicesInv'
    BY <1>1, <2>1, <2>3 DEF ListsInv, DevicesInv, Ready, Made
  <2>7. {call.mesh[i] : i \in 1..call.added + 1}
          = {call.mesh[i] : i \in 1..call.added} \cup {call.mesh[call.added + 1]}
    <3>1. 1..call.added + 1 = (1..call.added) \cup {call.added + 1}
      OBVIOUS
    <3> QED
      BY <3>1
  <2>8. RulesInv' /\ SteeredTrafficHasARoute' /\ MeshBeforeExit'
    BY <1>2, <2>1, <2>3, <2>7 DEF RulesInv, SteeredTrafficHasARoute, MeshBeforeExit
  <2> QED
    BY <2>5, <2>6, <2>8
<1>4. CASE DivertRefused
  <2>1. Goto("error") /\ UNCHANGED <<kernelVars, leftovers>>
    BY <1>4 DEF DivertRefused
  <2> QED
    BY <1>1, <1>2, <2>1, PhaseOnly DEF Phases, TypeOK, ListsInv, DevicesInv, RulesInv,
       SteeredTrafficHasARoute, MeshBeforeExit, kernelVars
<1>5. CASE MeshDone
  <2>1. /\ Goto("rules") /\ UNCHANGED <<kernelVars, leftovers>>
        /\ call.added = Len(call.mesh)
    BY <1>5 DEF MeshDone
  <2>2. /\ call' \in Call /\ call'.phase = "rules"
        /\ call'.routes = call.routes /\ call'.mesh = call.mesh /\ call'.cur = call.cur
        /\ call'.devs = call.devs /\ call'.added = call.added /\ call'.todo = call.todo
        /\ call'.reaped = call.reaped
    BY <2>1, PhaseOnly DEF Phases
  <2>3. TypeOK' /\ ListsInv' /\ DevicesInv'
    BY <1>1, <2>1, <2>2 DEF TypeOK, ListsInv, DevicesInv, Ready, Made, kernelVars
  <2>4. {call.mesh[i] : i \in 1..call.added} = Range(call.mesh)
    BY <2>1 DEF Range
  <2>5. ~ leftovers => steered = call.routes \ call.todo
    BY <1>1, <1>2 DEF ListsInv
  <2>6. RulesInv' /\ SteeredTrafficHasARoute' /\ MeshBeforeExit'
    BY <1>2, <2>1, <2>2, <2>4, <2>5 DEF RulesInv, SteeredTrafficHasARoute, MeshBeforeExit, kernelVars
  <2> QED
    BY <2>3, <2>6
<1> QED
  BY <1>3, <1>4, <1>5

\* A client is steered when the devices are ready and the mesh is diverted.
LEMMA RulesKeep ==
    ASSUME IInv, Steer \/ SteerRefused \/ Done
    PROVE  IInv'
<1> USE CallFields DEF IInv
<1>1. call.phase = "rules"
  BY DEF Steer, SteerRefused, Done, At
<1>2. ~ leftovers => /\ diverted = Range(call.mesh)
                     /\ steered = call.routes \ call.todo
  BY <1>1 DEF RulesInv
<1>3. CASE Steer
  <2>1. PICK r \in call.todo \ steered :
          steered' = steered \cup {r} /\ call' = [call EXCEPT !.todo = @ \ {r}]
    BY <1>3 DEF Steer
  <2>2. UNCHANGED <<dev, table, diverted, leftovers>>
    BY <1>3 DEF Steer
  <2>3. call' \in Call
    BY <2>1 DEF TypeOK, Call
  <2>4. /\ call'.phase = "rules" /\ call'.routes = call.routes /\ call'.mesh = call.mesh
        /\ call'.cur = call.cur /\ call'.devs = call.devs /\ call'.added = call.added
        /\ call'.todo = call.todo \ {r} /\ call'.reaped = call.reaped
    BY <1>1, <2>1 DEF TypeOK, Call
  <2>5. r \in call.routes /\ r \in Clients \X Nodes /\ r[2] \in Wanted(call.routes)
    BY <2>1 DEF ListsInv, Wanted
  <2>6. Ready(r[2])
    BY <1>1, <2>5, ExitAssumption DEF DevicesInv, ListsInv
  <2>7. TypeOK' /\ ListsInv' /\ DevicesInv'
    BY <1>1, <2>1, <2>2, <2>3, <2>4, <2>5 DEF TypeOK, ListsInv, DevicesInv, Ready, Made
  <2>8. SteeredTrafficHasARoute'
    BY <2>1, <2>2, <2>6 DEF SteeredTrafficHasARoute, Ready
  <2>9. RulesInv' /\ MeshBeforeExit'
    BY <1>2, <2>1, <2>2, <2>4, <2>5 DEF RulesInv, MeshBeforeExit
  <2> QED
    BY <2>7, <2>8, <2>9
<1>4. CASE SteerRefused
  <2>1. Goto("error") /\ UNCHANGED <<kernelVars, leftovers>>
    BY <1>4 DEF SteerRefused
  <2> QED
    BY <1>1, <1>2, <2>1, PhaseOnly DEF Phases, TypeOK, ListsInv, DevicesInv, RulesInv,
       SteeredTrafficHasARoute, MeshBeforeExit, kernelVars
<1>5. CASE Done
  <2>1. Goto("ok") /\ UNCHANGED <<kernelVars, leftovers>> /\ call.todo = {}
    BY <1>5 DEF Done
  <2> QED
    BY <1>1, <1>2, <2>1, PhaseOnly DEF Phases, TypeOK, ListsInv, DevicesInv, RulesInv,
       SteeredTrafficHasARoute, MeshBeforeExit, Ready, Made, kernelVars
<1> QED
  BY <1>3, <1>4, <1>5

\* Failing at any command leaves what was there.
LEMMA FailureKeeps ==
    ASSUME IInv, CommandFails
    PROVE  IInv'
<1> USE CallFields DEF IInv
<1>1. /\ Faulty("error") /\ UNCHANGED <<kernelVars, leftovers>>
      /\ call.phase \in {"devices", "mesh", "rules"}
  BY DEF CommandFails, At
<1> QED
  BY <1>1, PhaseOnly DEF Phases, TypeOK, ListsInv, DevicesInv, RulesInv,
     SteeredTrafficHasARoute, MeshBeforeExit, kernelVars

\* So does dying, unless the host takes everything down.
LEMMA DieKeeps ==
    ASSUME IInv, Die
    PROVE  IInv'
<1> USE CallFields DEF IInv
<1>1. Goto("dead")
  BY DEF Die
<1>2. CASE UNCHANGED <<kernelVars, leftovers>>
  BY <1>1, <1>2, PhaseOnly DEF Phases, TypeOK, ListsInv, DevicesInv, RulesInv,
     SteeredTrafficHasARoute, MeshBeforeExit, kernelVars
<1>3. CASE Unlink(Nodes) /\ diverted' = {} /\ steered' = {} /\ leftovers' = FALSE
  <2>1. dev' \in [Nodes -> {"none", "down", "up"}] /\ table' \subseteq Nodes
    BY <1>3 DEF Unlink, TypeOK
  <2> QED
    BY <1>1, <1>3, <2>1, PhaseOnly DEF Phases, TypeOK, ListsInv, DevicesInv, RulesInv,
       SteeredTrafficHasARoute, MeshBeforeExit
<1> QED
  BY <1>2, <1>3 DEF Die

---------------------------------------------------------------------------
\* Every step of the specification keeps the invariant.
LEMMA ExitInduction ==
    ASSUME IInv, [Next]_vars
    PROVE  IInv'
<1>1. CASE UNCHANGED vars
  BY <1>1 DEF vars, kernelVars, IInv, TypeOK, ListsInv, DevicesInv, RulesInv,
              SteeredTrafficHasARoute, MeshBeforeExit, Ready, Made
<1>2. CASE Next
  BY <1>2, BeginKeeps, FlushKeeps, ReapKeeps, DevicesKeep, MeshKeeps, RulesKeep, FailureKeeps,
     DieKeeps DEF Next, NextCommand
<1> QED
  BY <1>1, <1>2

\* It holds throughout every behaviour.
LEMMA ExitInvariant == Spec => []IInv
BY ExitStart, ExitInduction, PTL DEF Spec

\* The kernel's tables and the call have their shapes.
THEOREM ExitTypeCorrect == Spec => []TypeOK
BY ExitInvariant, PTL DEF IInv

\* No step of EnsureExitRoutes steers a client into a table without a default route
\* through a device that is up, nor takes a device from under a client that is
\* steered, whichever commands fail and wherever the process dies.
THEOREM SteeredAlwaysRouted == Spec => []SteeredTrafficHasARoute
BY ExitInvariant, PTL DEF IInv

\* A call that steers a client has diverted every LAN and the pool before.
THEOREM MeshAlwaysFirst == Spec => []MeshBeforeExit
BY ExitInvariant, PTL DEF IInv

\* EnsureExitRoutes is exact: when it returns nil, the rules, devices and tables are
\* those it was given, whatever was there before.
THEOREM ExitExact == Spec => []ExactOnSuccess
<1>1. IInv => ExactOnSuccess
  <2> SUFFICES ASSUME IInv, call.phase = "ok", ~ leftovers PROVE ExactOnSuccess
    BY DEF ExactOnSuccess, At
  <2>1. steered = call.routes /\ diverted = Range(call.mesh)
    BY DEF IInv, ListsInv, RulesInv
  <2>2. \A n \in Wanted(call.routes) : Ready(n)
    BY CallFields, ExitAssumption DEF IInv, ListsInv, DevicesInv
  <2>3. call.reaped => Made = Wanted(call.routes)
    BY <2>2, CallFields DEF IInv, DevicesInv, Made, Ready
  <2> QED
    BY <2>1, <2>2, <2>3 DEF ExactOnSuccess, Ready
<1> QED
  BY <1>1, ExitInvariant, PTL
=============================================================================
