----------------------------- MODULE Reconcile -----------------------------
(***************************************************************************)
(* The panel's core loop: every mutation handler commits to the store and  *)
(* then runs Service.Reconcile, which reads the database statement by      *)
(* statement (Store.Snapshot) and brings the running system to it: peers   *)
(* (awg syncconf), access rules (nft -f), routes, exit routes and the      *)
(* domains of the split-horizon resolver.                                  *)
(*                                                                         *)
(* The store is AccessStore, one commit at a time: a snapshot sees nothing *)
(* of a transaction before its commit.  Any step of a call may fail and    *)
(* leaves what the earlier ones did.  The process may die and boot again   *)
(* at any point: boot reconciles once before it serves.                    *)
(***************************************************************************)
EXTENDS AccessStore

CONSTANTS
    Handlers,  \* HTTP requests in flight
    Subnets    \* LANs a node may announce

ASSUME ReconcileAssumption ==
    Nil \notin Handlers \cup Subnets \cup Rules \cup Clients \cup Nodes

VARIABLES
    lan,       \* node_subnets: the LAN each node last announced
    live,      \* the running system
    mutex,     \* the handler holding Service.mu
    job,       \* the Reconcile call of each handler
    serving,   \* ListenAndServe has been reached since the process started
    kept,      \* history: since the mutex was last taken no call has failed and no
               \* handler has answered a commit without reconciling it
    since      \* history: what each grant allowed since a handler's commit

vars == <<dbVars, lan, live, mutex, job, serving, kept, since>>

---------------------------------------------------------------------------
(* What the database says, and what the running system has.                *)

Enabled == {c \in Clients : client[c] = "enabled"}
Active  == {n \in Nodes : node[n] = "active"}

\* What a whole and undisturbed Reconcile brings the system to.
Effective(g) == IF g[1] \in Enabled /\ g[2] \in Active THEN access[g] ELSE NoAccess

\* The running system: awg peers, the LANs in the AllowedIPs of the node
\* peers, the ACL of each pair, the LANs routed to awg0, the exit routes, and the
\* home nodes whose domains the resolver sends to them (each has some).
System == [peers  : SUBSET (Clients \cup Nodes),
           lans   : [Nodes -> Subnets \cup {Nil}],
           acl    : [Pairs -> Allowed],
           routes : SUBSET Subnets,
           exits  : SUBSET Pairs,
           dns    : SUBSET Nodes]

\* A host that has just booted: no interface, no table, no rule.
Nothing == [peers |-> {}, lans |-> [n \in Nodes |-> Nil],
            acl |-> [g \in Pairs |-> NoAccess], routes |-> {}, exits |-> {}, dns |-> {}]

---------------------------------------------------------------------------
(* Reconcile calls.                                                        *)

Steps == {"idle", "lock", "nodes", "clients", "rules", "grants",
          "syncconf", "nft", "routes", "exitRoutes", "resolver", "answer"}

\* A request: what it does next, and what it has read or rendered so far.
Job == [step    : Steps,
        active  : SUBSET Nodes,
        lans    : [Nodes -> Subnets \cup {Nil}],
        enabled : SUBSET Clients,
        rules   : [Pairs -> SUBSET Rules],
        acl     : [Pairs -> Allowed],
        exits   : SUBSET Pairs]

NoJob == [step |-> "idle", active |-> {}, lans |-> [n \in Nodes |-> Nil], enabled |-> {},
          rules |-> [g \in Pairs |-> {}], acl |-> [g \in Pairs |-> NoAccess], exits |-> {}]

\* What the database says of a grant, with and without its client's and node's
\* status: the snapshot reads these at different moments.
Says(g) == {access[g], Effective(g)}

NoHistory == [h \in Handlers |-> [g \in Pairs |-> {}]]

\* A process that starts reconciles once, before any request; the call takes the
\* place of one of them.
Booter == CHOOSE h \in Handlers : TRUE

Boots(jobs, history) ==
    /\ jobs = [[h \in Handlers |-> NoJob] EXCEPT ![Booter].step = "lock"]
    /\ history = [NoHistory EXCEPT ![Booter] = [g \in Pairs |-> Says(g)]]

Init ==
    /\ StoreInit
    /\ lan \in [Nodes -> Subnets]
    /\ live = Nothing
    /\ mutex = Nil
    /\ Boots(job, since)
    /\ serving = FALSE
    /\ kept = FALSE

\* The next step of h's call, with what it has read; the store is only read.
Advance(h, j) ==
    /\ job' = [job EXCEPT ![h] = j]
    /\ UNCHANGED <<dbVars, lan, mutex, serving, kept, since>>

Reads(h, j)   == Advance(h, j) /\ UNCHANGED live
Applies(h, s, step) == Advance(h, [job[h] EXCEPT !.step = step]) /\ live' = s

AlwaysFree == TRUE

\* sync.Mutex: one call at a time.
Free == mutex = Nil

Lock(h) ==
    /\ job[h].step = "lock"
    /\ Free
    /\ mutex' = h
    /\ job' = [job EXCEPT ![h].step = "nodes"]
    /\ kept' = TRUE
    /\ UNCHANGED <<dbVars, lan, live, serving, since>>

---------------------------------------------------------------------------
(* Snapshot: a statement for each table, each seeing what is committed     *)
(* when it starts.                                                         *)

\* listNodes: active nodes with an address, and the LAN of each.
ReadNodes(h) ==
    /\ job[h].step = "nodes"
    /\ Reads(h, [job[h] EXCEPT !.step = "clients", !.active = Active,
                               !.lans = [n \in Nodes |-> IF n \in Active THEN lan[n] ELSE Nil]])

ReadClients(h) ==
    /\ job[h].step = "clients"
    /\ Reads(h, [job[h] EXCEPT !.step = "rules", !.enabled = Enabled])

RulesOfNoGrant == access

CommittedRules == [g \in Pairs |-> IF g \in Granted THEN access[g] ELSE {}]

RulesErrorIgnored(h) ==
    /\ job[h].step = "rules"
    /\ \E read \in {CommittedRules, NoJob.rules} :
         Reads(h, [job[h] EXCEPT !.step = "grants", !.rules = read])

\* loadAllGrantRules, before the grants the rules belong to.
ReadRules(h) ==
    /\ job[h].step = "rules"
    /\ Reads(h, [job[h] EXCEPT !.step = "grants", !.rules = CommittedRules])

\* The grants of clients that are enabled now, whose client and node were there
\* when those tables were read.
Resolved(h) == {g \in Granted : /\ g[1] \in job[h].enabled \cap Enabled
                                /\ g[2] \in job[h].active}

ReadGrants(h) ==
    /\ job[h].step = "grants"
    /\ Reads(h, [job[h] EXCEPT
                   !.step = "syncconf",
                   !.acl = [g \in Pairs |-> IF g \in Resolved(h) THEN job[h].rules[g] ELSE NoAccess],
                   !.exits = {g \in Resolved(h) \cap exits : g[2] # HubNode},
                   !.rules = NoJob.rules])

---------------------------------------------------------------------------
(* Applying it.                                                            *)

\* The hub config: nodes and enabled clients, with or without a grant.
SyncConf(h) ==
    /\ job[h].step = "syncconf"
    /\ Applies(h, [live EXCEPT !.peers = job[h].active \cup job[h].enabled,
                               !.lans = job[h].lans], "nft")

NftErrorIgnored(h) ==
    /\ job[h].step = "nft"
    /\ \E acl \in {job[h].acl, live.acl} : Applies(h, [live EXCEPT !.acl = acl], "routes")

\* The whole table is replaced in one transaction.
LoadACL(h) ==
    /\ job[h].step = "nft"
    /\ Applies(h, [live EXCEPT !.acl = job[h].acl], "routes")

\* ip route replace: a route is added, none is ever removed.
EnsureRoutes(h) ==
    /\ job[h].step = "routes"
    /\ Applies(h, [live EXCEPT !.routes = @ \cup
                     {job[h].lans[n] : n \in job[h].active \ {HubNode}}], "exitRoutes")

EnsureExitRoutes(h) ==
    /\ job[h].step = "exitRoutes"
    /\ Applies(h, [live EXCEPT !.exits = job[h].exits], "resolver")

\* DomainRoutes is a query of its own, after the snapshot.
SetRoutes(h) ==
    /\ job[h].step = "resolver"
    /\ Applies(h, [live EXCEPT !.dns = Active \ {HubNode}], "answer")

\* The call returns, the deferred Unlock runs, the handler answers; boot
\* goes on to serve whether its call succeeded or not.
Return(h, ok) ==
    /\ mutex' = Nil
    /\ job' = [job EXCEPT ![h] = NoJob]
    /\ since' = [since EXCEPT ![h] = NoHistory[h]]
    /\ kept' = (kept /\ ok)
    /\ serving' = TRUE
    /\ UNCHANGED <<dbVars, lan, live>>

Answer(h) == job[h].step = "answer" /\ Return(h, TRUE)

FailLocked(h) ==
    /\ job[h].step \notin {"idle", "lock", "answer"}
    /\ job' = [job EXCEPT ![h] = NoJob]
    /\ since' = [since EXCEPT ![h] = NoHistory[h]]
    /\ kept' = FALSE
    /\ UNCHANGED <<dbVars, lan, live, mutex, serving>>

\* A statement or a command fails, or the request was cancelled: 500, with the
\* commit and the steps before this one done.
Fail(h) ==
    /\ job[h].step \notin {"idle", "lock", "answer"}
    /\ Return(h, FALSE)

---------------------------------------------------------------------------
(* The handlers' commits, and the process.                                 *)

\* Every handler between its own commit and its answer sees what the database
\* says after another commit.
Remember ==
    since' = [k \in Handlers |->
                [g \in Pairs |-> IF job'[k].step = "idle" THEN {}
                                  ELSE since[k][g] \cup Says(g)']]

\* A handler commits one operation and goes on to reconcile.
CommitChange(h) ==
    /\ serving
    /\ job[h].step = "idle"
    /\ StoreNext
    /\ job' = [job EXCEPT ![h].step = "lock"]
    /\ Remember
    /\ UNCHANGED <<lan, live, mutex, serving, kept>>

\* handleUpdateClient with a colour that is refused: `enabled` is committed by
\* then, and the handler answers 400 without reconciling.
UpdateWithBadColor(h) ==
    /\ serving
    /\ job[h].step = "idle"
    /\ \E c \in Clients, s \in {"enabled", "disabled"} : UpdateClient(c, s)
    /\ UNCHANGED <<lan, live, mutex, job, serving>>
    /\ Remember
    /\ kept' = FALSE

\* EnrollNode by a node the panel knows: its LAN is replaced, whatever its
\* status; handleEnroll answers and reconciles nothing.
ReannounceLan(n, s) ==
    /\ serving
    /\ n # HubNode /\ Exists(n)
    /\ lan' = [lan EXCEPT ![n] = s]
    /\ UNCHANGED <<dbVars, live, mutex, job, serving, kept, since>>

\* The process dies and starts again.  The kernel keeps the
\* running system, unless the host went down too; the resolver starts empty.
Restart ==
    /\ Boots(job', since')
    /\ mutex' = Nil
    /\ serving' = FALSE
    /\ kept' = FALSE
    /\ live' \in {[live EXCEPT !.dns = {}], Nothing}
    /\ UNCHANGED <<dbVars, lan>>

ReconcileStep(h) ==
    \/ ReadNodes(h) \/ ReadClients(h) \/ ReadRules(h) \/ ReadGrants(h)
    \/ SyncConf(h) \/ LoadACL(h) \/ EnsureRoutes(h) \/ EnsureExitRoutes(h)
    \/ SetRoutes(h) \/ Answer(h)

Next ==
    \/ \E h \in Handlers : \/ CommitChange(h) \/ UpdateWithBadColor(h) \/ Lock(h)
                           \/ ReconcileStep(h) \/ Fail(h)
    \/ Restart
    \/ \E n \in Nodes, s \in Subnets : ReannounceLan(n, s)

Spec == Init /\ [][Next]_vars

\* The process is scheduled, the database and the commands return, and sync.Mutex
\* hands itself to a waiter that has starved for a millisecond.
Fairness == \A h \in Handlers : WF_vars(ReconcileStep(h)) /\ SF_vars(Lock(h))

FairSpec == Spec /\ Fairness

---------------------------------------------------------------------------
(* Properties.                                                             *)

\* The running system, the calls and the history have the shapes above.
TypeOK ==
    /\ StoreTypeOK
    /\ lan \in [Nodes -> Subnets]
    /\ live \in System
    /\ mutex \in Handlers \cup {Nil}
    /\ job \in [Handlers -> Job]
    /\ serving \in BOOLEAN /\ kept \in BOOLEAN
    /\ since \in [Handlers -> [Pairs -> SUBSET Allowed]]

Settled == kept /\ \A h \in Handlers : job[h].step = "idle"

\* Service.Reconcile under its mutex: when no commit is still waiting to be
\* applied and the last call succeeded, the peers, the ACL, the exits and the
\* resolver are those of the database, however the commits and the reads of the
\* snapshots fell and whichever calls failed before.
SettledSystemIsTheDatabase ==
    Settled =>
      /\ live.peers = Enabled \cup Active
      /\ \A g \in Pairs : live.acl[g] = Effective(g)
      /\ live.exits = {g \in exits : Effective(g) # NoAccess /\ g[2] # HubNode}
      /\ \A n \in Active \ {HubNode} : live.lans[n] \in live.routes
      /\ live.dns = Active \ {HubNode}

\* Snapshot reads the rules before the grants (queries.go:193-202): what a call
\* renders for a grant is what the grant said at some moment since its handler
\* committed.  Read the other way, a restricted grant that is revoked between the
\* two reads would come out with no rules, which means the node's whole LAN.
RenderedAccessWasGranted ==
    \A h \in Handlers, g \in Pairs :
      job[h].acl[g] # NoAccess => job[h].acl[g] \in since[h][g]

\* Every mutation handler reconciles after its commit (service.go:24-25): when it
\* answers, no pair has access in the running system, and none lacks it, that the
\* database did not say so of at some moment since that commit.
AnswerMeansApplied ==
    \A h \in Handlers, g \in Pairs :
      job[h].step = "answer" => live.acl[g] \in since[h][g]

\* Every request is answered, once the process stays up: no error path keeps the
\* mutex (service.go:38-39).
RequestsEnd ==
    <>[][~ Restart]_vars
      => \A h \in Handlers : job[h].step # "idle" ~> job[h].step = "idle"

\* EnrollNode's comment (enroll.go:63-66): "a corrected subnet ... must propagate".
\* Once things have settled, an active node's peer carries the LAN it announced.
AnnouncedLanIsLive ==
    Settled => \A n \in Active : live.lans[n] = lan[n]
===========================================================================
