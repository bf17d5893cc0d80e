-------------------------- MODULE ReconcileProofs --------------------------
(***************************************************************************)
(* Proofs about Reconcile, for every set of clients, nodes, rules, LANs    *)
(* and concurrent handlers.                                                *)
(*                                                                         *)
(* The three safety properties speak of the end of a call; the invariant   *)
(* says what each statement of the snapshot and each step of the apply has *)
(* achieved so far.  Against the history it must hold whatever commits     *)
(* fall in between (the parts of HistoryInv); against the database only    *)
(* while no handler that has committed waits for the mutex (CurrentInv).   *)
(***************************************************************************)
EXTENDS Reconcile, TLAPS

\* The steps of a call that has taken the mutex, and of one that has gone on from ...
Busy        == Steps \ {"idle", "lock"}
AfterNodes   == Busy \ {"nodes"}
AfterClients == AfterNodes \ {"clients"}
AfterGrants  == AfterClients \ {"rules", "grants"}
AfterSync    == AfterGrants \ {"syncconf"}
AfterACL     == AfterSync \ {"nft"}
AfterRoutes  == AfterACL \ {"routes"}
AfterExits   == AfterRoutes \ {"exitRoutes"}

\* A step of a call that holds the mutex and keeps it.
Running(h) ==
    \/ ReadNodes(h) \/ ReadClients(h) \/ ReadRules(h) \/ ReadGrants(h)
    \/ SyncConf(h) \/ LoadACL(h) \/ EnsureRoutes(h) \/ EnsureExitRoutes(h) \/ SetRoutes(h)

\* The mutex is held by the one call that is past it.
LockInv == \A h \in Handlers : job[h].step \in Busy <=> mutex = h

\* A request remembers what the database says now.
Remembers(h, g) == job[h].step # "idle" => Says(g) \subseteq since[h][g]

\* Rules that were read for a grant were its rules at some moment since the commit,
\* or it was not there: then it is not there yet, or has come with no rules.
RulesRead(h, g) ==
    job[h].step = "grants" =>
      \/ job[h].rules[g] \in since[h][g]
      \/ job[h].rules[g] = Unlimited /\ access[g] = NoAccess

\* A client or node that was not read had no access at that moment.
RowsRead(h, g) ==
    /\ job[h].step \in AfterNodes /\ g[2] \notin job[h].active => NoAccess \in since[h][g]
    /\ job[h].step \in AfterClients /\ g[1] \notin job[h].enabled => NoAccess \in since[h][g]

\* What was rendered was the case, and nothing is rendered before it was read.
Rendered(h, g) == IF job[h].step \in AfterGrants THEN job[h].acl[g] \in since[h][g]
                                                 ELSE job[h].acl[g] = NoAccess

Applied(h, g) == job[h].step \in AfterACL => live.acl[g] = job[h].acl[g]

HistoryOf(h, g) == /\ Remembers(h, g) /\ RulesRead(h, g) /\ RowsRead(h, g)
                   /\ Rendered(h, g) /\ Applied(h, g)

HistoryInv == \A h \in Handlers, g \in Pairs : HistoryOf(h, g)

\* What a settled system allows each pair, and which exits it has.
Rights == [g \in Pairs |-> Effective(g)]

WantedExits == {g \in exits : Effective(g) # NoAccess /\ g[2] # HubNode}

\* No commit waits to be applied, so what the running call has read is current.
Current == kept /\ \A h \in Handlers : job[h].step # "lock"

ReadIsCurrent(h) ==
    /\ job[h].step \in AfterNodes => job[h].active = Active
    /\ job[h].step \in AfterClients => job[h].enabled = Enabled
    /\ job[h].step = "grants" => job[h].rules = CommittedRules
    /\ job[h].step \in AfterGrants => job[h].acl = Rights /\ job[h].exits = WantedExits

\* The parts of the running system that a call at step s has brought up to date.
SystemIsCurrent(s) ==
    /\ s \in AfterSync => live.peers = Enabled \cup Active
    /\ s \in AfterACL => live.acl = Rights
    /\ s \in AfterRoutes => \A n \in Active \ {HubNode} : live.lans[n] \in live.routes
    /\ s \in AfterExits => live.exits = WantedExits
    /\ s = "answer" => live.dns = Active \ {HubNode}

\* The LANs a call has read are those it gives the peers.
LansApplied == \A h \in Handlers : job[h].step \in AfterSync => live.lans = job[h].lans

CurrentInv ==
    Current => /\ \A h \in Handlers : ReadIsCurrent(h) /\ SystemIsCurrent(job[h].step)
               /\ mutex = Nil => SystemIsCurrent("answer")

\* Every node a call has read has the LAN it announced.
LansRead == \A h \in Handlers : \A n \in job[h].active : job[h].lans[n] \in Subnets

TypeInv == TypeOK /\ LansRead

IInv == TypeInv /\ LockInv /\ HistoryInv /\ LansApplied /\ CurrentInv

---------------------------------------------------------------------------
(* The store.                                                              *)

\* A commit keeps the tables' types, and a grant comes into being without rules.
LEMMA StoreStep ==
    ASSUME StoreTypeOK, StoreNext
    PROVE  StoreTypeOK' /\ \A g \in Pairs : access[g] = NoAccess =>
                                              access'[g] \in {NoAccess, Unlimited}
<1> USE DEF StoreTypeOK, Pairs
<1>1. ASSUME NEW c \in Clients, CreateClient(c) \/ \E s \in {"enabled", "disabled"} : UpdateClient(c, s)
      PROVE  StoreTypeOK' /\ \A x \in Pairs : access[x] = NoAccess => access'[x] \in {NoAccess, Unlimited}
  BY <1>1 DEF CreateClient, UpdateClient
<1>2. ASSUME NEW n \in Nodes, NEW s \in {"active", "inactive"}, SetNodeStatus(n, s)
      PROVE  StoreTypeOK' /\ \A x \in Pairs : access[x] = NoAccess => access'[x] \in {NoAccess, Unlimited}
  BY <1>2 DEF SetNodeStatus
<1>3. ASSUME NEW t \in Target, Delete(t)
      PROVE  StoreTypeOK' /\ \A x \in Pairs : access[x] = NoAccess => access'[x] \in {NoAccess, Unlimited}
  BY <1>3 DEF Delete, Allowed
<1>4. ASSUME NEW g \in Pairs, SetGrant(g)
      PROVE  StoreTypeOK' /\ \A x \in Pairs : access[x] = NoAccess => access'[x] \in {NoAccess, Unlimited}
  BY <1>4 DEF SetGrant, Allowed, Unlimited
<1>5. ASSUME NEW g \in Pairs, NEW R \in SUBSET Rules, SetGrantRules(g, R)
      PROVE  StoreTypeOK' /\ \A x \in Pairs : access[x] = NoAccess => access'[x] \in {NoAccess, Unlimited}
  BY <1>5 DEF SetGrantRules, Allowed, Unlimited, Granted
<1>6. ASSUME NEW g \in Pairs, NEW on \in BOOLEAN, SetGrantExit(g, on)
      PROVE  StoreTypeOK' /\ \A x \in Pairs : access[x] = NoAccess => access'[x] \in {NoAccess, Unlimited}
  BY <1>6 DEF SetGrantExit
<1> QED
  BY <1>1, <1>2, <1>3, <1>4, <1>5, <1>6, Zenon DEF StoreNext

---------------------------------------------------------------------------
(* Type correctness.                                                       *)

\* The database says of a grant what a grant may allow.
LEMMA SaysAllowed ==
    ASSUME StoreTypeOK, NEW g \in Pairs
    PROVE  Says(g) \subseteq Allowed
BY DEF Says, Effective, StoreTypeOK, Allowed

\* Only the boot's own call is under way when a process starts.
LEMMA BootSteps ==
    ASSUME NEW jobs, NEW history, Boots(jobs, history)
    PROVE  \A h \in Handlers : /\ jobs[h].step \in {"idle", "lock"} /\ jobs[h].acl = NoJob.acl
                               /\ jobs[h].step = "lock" => h = Booter
<1>1. jobs = [h \in Handlers |-> IF h = Booter THEN [NoJob EXCEPT !.step = "lock"] ELSE NoJob]
  BY DEF Boots
<1> QED
  BY <1>1 DEF NoJob

\* A process starts with well-typed calls and history.
LEMMA BootTyped ==
    ASSUME StoreTypeOK, NEW jobs, NEW history, Boots(jobs, history)
    PROVE  /\ jobs \in [Handlers -> Job]
           /\ history \in [Handlers -> [Pairs -> SUBSET Allowed]]
           /\ \A h \in Handlers : jobs[h].active = {}
<1>1. NoJob \in Job
  BY DEF NoJob, Job, Steps, Allowed
<1>2. [g \in Pairs |-> Says(g)] \in [Pairs -> SUBSET Allowed]
  BY SaysAllowed
<1>3. NoHistory \in [Handlers -> [Pairs -> SUBSET Allowed]]
  BY DEF NoHistory
<1>4. [NoJob EXCEPT !.step = "lock"] \in Job /\ NoJob.active = {}
  BY DEF NoJob, Job, Steps, Allowed
<1>5. jobs = [h \in Handlers |-> IF h = Booter THEN [NoJob EXCEPT !.step = "lock"] ELSE NoJob]
  BY DEF Boots
<1>6. jobs \in [Handlers -> Job]
  BY <1>1, <1>4, <1>5
<1>7. \A h \in Handlers : jobs[h].active = {}
  BY <1>4, <1>5 DEF NoJob
<1>8. history \in [Handlers -> [Pairs -> SUBSET Allowed]]
  BY <1>2, <1>3 DEF Boots
<1> QED
  BY <1>6, <1>7, <1>8

\* A call has read a LAN for each node it has read.
LEMMA CallTyped ==
    ASSUME TypeInv, NEW h \in Handlers
    PROVE  job[h] \in Job /\ \A n \in job[h].active : job[h].lans[n] \in Subnets
BY DEF TypeInv, TypeOK, LansRead

\* A step that stores a well-typed job and running system keeps the invariant.
LEMMA AdvanceTyped ==
    ASSUME TypeInv, NEW h \in Handlers, NEW j \in Job, Advance(h, j), live' \in System,
           \A n \in j.active : j.lans[n] \in Subnets
    PROVE  TypeInv'
BY DEF TypeInv, TypeOK, LansRead, Advance, dbVars, StoreTypeOK

\* A call that moves on keeps what it has read.
LEMMA UpdateStep ==
    ASSUME NEW r \in Job, NEW s \in Steps
    PROVE  LET q == [r EXCEPT !.step = s]
           IN  /\ q \in Job /\ q.step = s /\ q.active = r.active /\ q.lans = r.lans
               /\ q.enabled = r.enabled /\ q.rules = r.rules /\ q.acl = r.acl /\ q.exits = r.exits
BY DEF Job

\* So does one that only moves a call on.
LEMMA MoveTyped ==
    ASSUME TypeInv, NEW h \in Handlers, NEW s \in Steps, job' = [job EXCEPT ![h].step = s]
    PROVE  job' \in [Handlers -> Job] /\ LansRead'
<1> DEFINE j == [job[h] EXCEPT !.step = s]
<1>1. job \in [Handlers -> Job] /\ LansRead
  BY DEF TypeInv, TypeOK
<1>2. j \in Job /\ j.active = job[h].active /\ j.lans = job[h].lans
  BY <1>1, UpdateStep
<1>3. job' = [job EXCEPT ![h] = j]
  OBVIOUS
<1> HIDE DEF j
<1>4. job' \in [Handlers -> Job]
  BY <1>1, <1>2, <1>3, Zenon
<1>5. \A k \in Handlers : job'[k].active = job[k].active /\ job'[k].lans = job[k].lans
  <2> TAKE k \in Handlers
  <2>1. CASE k = h
    BY <1>1, <1>2, <1>3, <2>1
  <2>2. CASE k # h
    BY <1>1, <1>3, <2>2
  <2> QED
    BY <2>1, <2>2
<1>6. LansRead'
  BY <1>1, <1>5 DEF LansRead
<1> QED
  BY <1>4, <1>6

\* Every step keeps the tables, the running system, the calls and the history well typed.
LEMMA TypeStep == TypeInv /\ [Next]_vars => TypeInv'
<1> SUFFICES ASSUME TypeInv, [Next]_vars PROVE TypeInv'
  OBVIOUS
<1> USE DEF TypeInv
<1>0. NoJob \in Job /\ NoJob.active = {} /\ NoHistory \in [Handlers -> [Pairs -> SUBSET Allowed]]
  BY DEF NoJob, Job, Steps, Allowed, NoHistory
<1>1. ASSUME NEW h \in Handlers, CommitChange(h) PROVE TypeInv'
  <2>1. StoreTypeOK'
    BY <1>1, StoreStep DEF TypeOK, CommitChange
  <2>2. \A g \in Pairs : Says(g)' \subseteq Allowed
    BY <2>1 DEF Says, Effective, StoreTypeOK, Allowed
  <2>3. since' \in [Handlers -> [Pairs -> SUBSET Allowed]]
    BY <1>1, <2>2 DEF CommitChange, Remember, TypeOK
  <2>4. job' \in [Handlers -> Job] /\ LansRead'
    BY <1>1, MoveTyped DEF CommitChange, Steps
  <2> QED
    BY <1>1, <2>1, <2>3, <2>4 DEF CommitChange, TypeOK
<1>2. ASSUME NEW h \in Handlers, UpdateWithBadColor(h) PROVE TypeInv'
  <2>1. StoreTypeOK'
    BY <1>2 DEF TypeOK, UpdateWithBadColor, UpdateClient, StoreTypeOK
  <2>2. \A g \in Pairs : Says(g)' \subseteq Allowed
    BY <2>1 DEF Says, Effective, StoreTypeOK, Allowed
  <2>3. since' \in [Handlers -> [Pairs -> SUBSET Allowed]]
    BY <1>2, <2>2 DEF UpdateWithBadColor, Remember, TypeOK
  <2> QED
    BY <1>2, <2>1, <2>3 DEF UpdateWithBadColor, TypeOK, LansRead
<1>3. ASSUME NEW h \in Handlers, Lock(h) PROVE TypeInv'
  <2>1. job' \in [Handlers -> Job] /\ LansRead'
    BY <1>3, MoveTyped DEF Lock, Steps
  <2> QED
    BY <1>3, <2>1 DEF Lock, TypeOK, dbVars, StoreTypeOK
<1>4. ASSUME NEW h \in Handlers, ReadNodes(h) PROVE TypeInv'
  <2> DEFINE j == [job[h] EXCEPT !.step = "clients", !.active = Active,
                     !.lans = [n \in Nodes |-> IF n \in Active THEN lan[n] ELSE Nil]]
  <2>1. lan \in [Nodes -> Subnets] /\ Active \subseteq Nodes
    BY DEF TypeOK, Active
  <2>2. j \in Job
    BY <2>1, CallTyped DEF Job, Steps
  <2>3. \A n \in j.active : j.lans[n] \in Subnets
    BY <2>1, CallTyped DEF Job
  <2> QED
    BY <1>4, <2>2, <2>3, AdvanceTyped DEF ReadNodes, Reads, TypeOK
<1>5. ASSUME NEW h \in Handlers, ReadClients(h) PROVE TypeInv'
  <2> DEFINE j == [job[h] EXCEPT !.step = "rules", !.enabled = Enabled]
  <2>1. j \in Job /\ \A n \in j.active : j.lans[n] \in Subnets
    BY CallTyped DEF Job, Steps, Enabled
  <2> QED
    BY <1>5, <2>1, AdvanceTyped DEF ReadClients, Reads, TypeOK
<1>6. ASSUME NEW h \in Handlers, ReadRules(h) PROVE TypeInv'
  <2> DEFINE j == [job[h] EXCEPT !.step = "grants", !.rules = CommittedRules]
  <2>1. CommittedRules \in [Pairs -> SUBSET Rules]
    BY DEF CommittedRules, Granted, TypeOK, StoreTypeOK, Allowed
  <2>2. j \in Job /\ \A n \in j.active : j.lans[n] \in Subnets
    BY <2>1, CallTyped DEF Job, Steps
  <2> QED
    BY <1>6, <2>2, AdvanceTyped DEF ReadRules, Reads, TypeOK
<1>7. ASSUME NEW h \in Handlers, ReadGrants(h) PROVE TypeInv'
  <2> DEFINE acl == [g \in Pairs |-> IF g \in Resolved(h) THEN job[h].rules[g] ELSE NoAccess]
             out == {g \in Resolved(h) \cap exits : g[2] # HubNode}
             j == [job[h] EXCEPT !.step = "syncconf", !.acl = acl, !.exits = out,
                                 !.rules = NoJob.rules]
  <2>1. acl \in [Pairs -> Allowed] /\ out \subseteq Pairs /\ NoJob.rules \in [Pairs -> SUBSET Rules]
    BY <1>0 DEF Resolved, Granted, TypeOK, Job, Allowed
  <2> HIDE DEF acl, out
  <2>2. j \in Job /\ \A n \in j.active : j.lans[n] \in Subnets
    BY <2>1, CallTyped DEF Job, Steps
  <2> QED
    BY <1>7, <2>2, AdvanceTyped DEF ReadGrants, Reads, TypeOK, acl, out
<1>8. ASSUME NEW h \in Handlers, SyncConf(h) \/ LoadACL(h) \/ EnsureRoutes(h)
                                  \/ EnsureExitRoutes(h) \/ SetRoutes(h)
      PROVE  TypeInv'
  <2>1. PICK s \in Steps : job' = [job EXCEPT ![h] = [job[h] EXCEPT !.step = s]]
    BY <1>8 DEF SyncConf, LoadACL, EnsureRoutes, EnsureExitRoutes, SetRoutes, Applies, Advance, Steps
  <2>2. UNCHANGED <<dbVars, lan, mutex, serving, kept, since>>
    BY <1>8 DEF SyncConf, LoadACL, EnsureRoutes, EnsureExitRoutes, SetRoutes, Applies, Advance
  <2>3. live' \in System
    <3>1. CASE SyncConf(h)
      BY <3>1 DEF SyncConf, Applies, System, TypeOK, Job
    <3>2. CASE LoadACL(h)
      BY <3>2 DEF LoadACL, Applies, System, TypeOK, Job
    <3>3. CASE EnsureRoutes(h)
      <4>1. {job[h].lans[n] : n \in job[h].active \ {HubNode}} \subseteq Subnets
        BY DEF LansRead
      <4> QED
        BY <3>3, <4>1 DEF EnsureRoutes, Applies, System, TypeOK
    <3>4. CASE EnsureExitRoutes(h)
      BY <3>4 DEF EnsureExitRoutes, Applies, System, TypeOK, Job
    <3>5. CASE SetRoutes(h)
      BY <3>5 DEF SetRoutes, Applies, System, TypeOK, Job, Active
    <3> QED
      BY <1>8, <3>1, <3>2, <3>3, <3>4, <3>5
  <2>4. job' \in [Handlers -> Job] /\ LansRead'
    BY <2>1, MoveTyped
  <2> QED
    BY <2>2, <2>3, <2>4 DEF TypeOK, dbVars, StoreTypeOK
<1>9. ASSUME NEW h \in Handlers, NEW ok \in BOOLEAN, Return(h, ok) PROVE TypeInv'
  <2>1. since' \in [Handlers -> [Pairs -> SUBSET Allowed]]
    BY <1>0, <1>9 DEF Return, TypeOK
  <2>2. job' \in [Handlers -> Job] /\ LansRead'
    BY <1>0, <1>9 DEF Return, TypeOK, LansRead
  <2> QED
    BY <1>9, <2>1, <2>2 DEF Return, TypeOK, dbVars, StoreTypeOK
<1>10. ASSUME Restart PROVE TypeInv'
  <2>1. live' \in System
    BY <1>10 DEF Restart, Nothing, System, TypeOK, Allowed
  <2>2. job' \in [Handlers -> Job] /\ since' \in [Handlers -> [Pairs -> SUBSET Allowed]] /\ LansRead'
    BY <1>10, BootTyped DEF Restart, TypeOK, LansRead
  <2> QED
    BY <1>10, <2>1, <2>2 DEF Restart, TypeOK, dbVars, StoreTypeOK
<1>11. ASSUME NEW n \in Nodes, NEW s \in Subnets, ReannounceLan(n, s) PROVE TypeInv'
  BY <1>11 DEF ReannounceLan, TypeOK, LansRead, dbVars, StoreTypeOK
<1>12. CASE UNCHANGED vars
  BY <1>12 DEF vars, dbVars, TypeOK, StoreTypeOK, LansRead
<1> QED
  BY <1>1, <1>2, <1>3, <1>4, <1>5, <1>6, <1>7, <1>8, <1>9, <1>10, <1>11, <1>12
     DEF Next, ReconcileStep, Answer, Fail

---------------------------------------------------------------------------
(* The mutex.                                                              *)

\* A running call stays the one that runs; nothing is committed by it.
LEMMA RunningStep ==
    ASSUME TypeInv, NEW h \in Handlers, Running(h)
    PROVE  /\ job[h].step \in Busy /\ job'[h].step \in Busy
           /\ \A k \in Handlers : k # h => job'[k] = job[k]
           /\ UNCHANGED <<dbVars, lan, mutex, serving, kept, since>>
<1>1. UNCHANGED <<dbVars, lan, mutex, serving, kept, since>>
  BY DEF Running, ReadNodes, ReadClients, ReadRules, ReadGrants, SyncConf, LoadACL,
         EnsureRoutes, EnsureExitRoutes, SetRoutes, Reads, Applies, Advance
<1>2. \A k \in Handlers : k # h => job'[k] = job[k]
  <2>1. PICK j : Advance(h, j)
    BY DEF Running, ReadNodes, ReadClients, ReadRules, ReadGrants, SyncConf, LoadACL,
           EnsureRoutes, EnsureExitRoutes, SetRoutes, Reads, Applies
  <2> QED
    BY <2>1 DEF Advance, TypeInv, TypeOK
<1>3. job[h].step \in Busy /\ job'[h].step \in Busy
  <2> USE DEF TypeInv, TypeOK, Job, Reads, Applies, Advance, Busy, Steps
  <2>1. CASE ReadNodes(h)
    BY <2>1 DEF ReadNodes
  <2>2. CASE ReadClients(h)
    BY <2>2 DEF ReadClients
  <2>3. CASE ReadRules(h)
    BY <2>3 DEF ReadRules
  <2>4. CASE ReadGrants(h)
    BY <2>4 DEF ReadGrants
  <2>5. CASE SyncConf(h)
    BY <2>5 DEF SyncConf
  <2>6. CASE LoadACL(h)
    BY <2>6 DEF LoadACL
  <2>7. CASE EnsureRoutes(h)
    BY <2>7 DEF EnsureRoutes
  <2>8. CASE EnsureExitRoutes(h)
    BY <2>8 DEF EnsureExitRoutes
  <2>9. CASE SetRoutes(h)
    BY <2>9 DEF SetRoutes
  <2> QED
    BY <2>1, <2>2, <2>3, <2>4, <2>5, <2>6, <2>7, <2>8, <2>9 DEF Running
<1> QED
  BY <1>1, <1>2, <1>3

\* The rest of a call runs under the mutex, and every end of it gives it back.
LEMMA LockStep == TypeInv /\ LockInv /\ [Next]_vars => LockInv'
<1> SUFFICES ASSUME TypeInv, LockInv, [Next]_vars PROVE LockInv'
  OBVIOUS
<1> USE DEF LockInv
<1>1. ASSUME NEW h \in Handlers, CommitChange(h) PROVE LockInv'
  BY <1>1 DEF CommitChange, TypeInv, TypeOK, Job, Busy, Steps
<1>2. ASSUME NEW h \in Handlers, Lock(h) PROVE LockInv'
  BY <1>2, ReconcileAssumption DEF Lock, Free, TypeInv, TypeOK, Job, Busy, Steps
<1>3. ASSUME NEW h \in Handlers, Running(h) PROVE LockInv'
  BY <1>3, RunningStep
<1>4. ASSUME NEW h \in Handlers, NEW ok \in BOOLEAN, Return(h, ok), job[h].step \in Busy
      PROVE  LockInv'
  BY <1>4, ReconcileAssumption DEF Return, NoJob, TypeInv, TypeOK, Busy, Steps
<1>5. ASSUME Restart PROVE LockInv'
  <2>1. \A h \in Handlers : job'[h].step \in {"idle", "lock"}
    BY <1>5, BootSteps DEF Restart
  <2> QED
    BY <1>5, <2>1, ReconcileAssumption DEF Restart, Busy
<1>6. CASE UNCHANGED <<job, mutex>>
  BY <1>6
<1> QED
  BY <1>1, <1>2, <1>3, <1>4, <1>5, <1>6 DEF Next, ReconcileStep, Running, Answer, Fail,
     UpdateWithBadColor, ReannounceLan, vars, Busy, Steps, TypeInv, TypeOK, Job

---------------------------------------------------------------------------
(* The history.                                                            *)

\* Only ReadGrants renders, and only LoadACL changes the access rules.
LEMMA AclStep ==
    ASSUME TypeInv, NEW h \in Handlers, Running(h)
    PROVE  /\ ~ ReadGrants(h) => job'[h].acl = job[h].acl
           /\ ~ LoadACL(h) => live'.acl = live.acl
<1> USE DEF TypeInv, TypeOK, Job, System, Reads, Applies, Advance
<1>1. CASE ReadNodes(h)
  BY <1>1 DEF ReadNodes
<1>2. CASE ReadClients(h)
  BY <1>2 DEF ReadClients
<1>3. CASE ReadRules(h)
  BY <1>3 DEF ReadRules
<1>4. CASE ReadGrants(h)
  BY <1>4 DEF ReadGrants
<1>5. CASE SyncConf(h)
  BY <1>5 DEF SyncConf
<1>6. CASE LoadACL(h)
  BY <1>6 DEF LoadACL
<1>7. CASE EnsureRoutes(h)
  BY <1>7 DEF EnsureRoutes
<1>8. CASE EnsureExitRoutes(h)
  BY <1>8 DEF EnsureExitRoutes
<1>9. CASE SetRoutes(h)
  BY <1>9 DEF SetRoutes
<1> QED
  BY <1>1, <1>2, <1>3, <1>4, <1>5, <1>6, <1>7, <1>8, <1>9 DEF Running

\* What a call has read stays until it ends, and it goes from step to step in order.
LEMMA ReadsKept ==
    ASSUME TypeInv, NEW h \in Handlers, Running(h), ~ ReadNodes(h), ~ ReadClients(h)
    PROVE  /\ job'[h].active = job[h].active /\ job'[h].enabled = job[h].enabled
           /\ job[h].step \in AfterClients
<1> USE DEF TypeInv, TypeOK, Job, Reads, Applies, Advance, AfterClients, AfterNodes, Busy, Steps
<1>1. CASE ReadRules(h)
  BY <1>1 DEF ReadRules
<1>2. CASE ReadGrants(h)
  BY <1>2 DEF ReadGrants
<1>3. CASE SyncConf(h)
  BY <1>3 DEF SyncConf
<1>4. CASE LoadACL(h)
  BY <1>4 DEF LoadACL
<1>5. CASE EnsureRoutes(h)
  BY <1>5 DEF EnsureRoutes
<1>6. CASE EnsureExitRoutes(h)
  BY <1>6 DEF EnsureExitRoutes
<1>7. CASE SetRoutes(h)
  BY <1>7 DEF SetRoutes
<1> QED
  BY <1>1, <1>2, <1>3, <1>4, <1>5, <1>6, <1>7 DEF Running

LEMMA StepOrder ==
    ASSUME TypeInv, NEW h \in Handlers, Running(h)
    PROVE  /\ ~ ReadGrants(h) => (job'[h].step \in AfterGrants <=> job[h].step \in AfterGrants)
           /\ ~ ReadRules(h) => job'[h].step # "grants"
           /\ ~ LoadACL(h) => (job'[h].step \in AfterACL => job[h].step \in AfterACL /\ ~ ReadGrants(h))
<1> USE DEF TypeInv, TypeOK, Job, Reads, Applies, Advance, AfterACL, AfterSync, AfterGrants,
            AfterClients, AfterNodes, Busy, Steps
<1>1. CASE ReadNodes(h)
  BY <1>1 DEF ReadNodes, ReadGrants, ReadRules
<1>2. CASE ReadClients(h)
  BY <1>2 DEF ReadClients, ReadGrants, ReadRules
<1>3. CASE ReadRules(h)
  BY <1>3 DEF ReadRules, ReadGrants
<1>4. CASE ReadGrants(h)
  BY <1>4 DEF ReadGrants, ReadRules
<1>5. CASE SyncConf(h)
  BY <1>5 DEF SyncConf, ReadGrants, ReadRules
<1>6. CASE LoadACL(h)
  BY <1>6 DEF LoadACL, ReadGrants, ReadRules
<1>7. CASE EnsureRoutes(h)
  BY <1>7 DEF EnsureRoutes, ReadGrants, ReadRules
<1>8. CASE EnsureExitRoutes(h)
  BY <1>8 DEF EnsureExitRoutes, ReadGrants, ReadRules
<1>9. CASE SetRoutes(h)
  BY <1>9 DEF SetRoutes, ReadGrants, ReadRules
<1> QED
  BY <1>1, <1>2, <1>3, <1>4, <1>5, <1>6, <1>7, <1>8, <1>9 DEF Running

\* What a commit, or the database standing still, leaves of a call's history.
LEMMA CommitKeeps ==
    ASSUME TypeInv, HistoryInv, Remember, UNCHANGED live,
           \A g \in Pairs : access[g] = NoAccess => access'[g] \in {NoAccess, Unlimited},
           NEW h \in Handlers,
           \/ job'[h] = job[h]
           \/ job[h].step = "idle" /\ job'[h].step = "lock" /\ job'[h].acl = job[h].acl,
           NEW g \in Pairs
    PROVE  HistoryOf(h, g)'
<1>1. job'[h].step # "idle" => /\ Says(g)' \subseteq since'[h][g]
                               /\ since[h][g] \subseteq since'[h][g]
  BY DEF Remember
<1>2. access'[g] \in Says(g)'
  BY DEF Says
<1>3. HistoryOf(h, g)
  BY DEF HistoryInv
<1>4. CASE job[h].step = "idle" /\ job'[h].step = "lock" /\ job'[h].acl = job[h].acl
  BY <1>1, <1>3, <1>4 DEF HistoryOf, Remembers, RulesRead, RowsRead, Rendered, Applied,
     AfterNodes, AfterClients, AfterGrants, AfterSync, AfterACL, Busy, Steps
<1>5. CASE job'[h] = job[h]
  <2>1. Remembers(h, g)'
    BY <1>1, <1>5 DEF Remembers
  <2>2. RulesRead(h, g)'
    BY <1>1, <1>2, <1>3, <1>5 DEF HistoryOf, RulesRead
  <2>3. RowsRead(h, g)'
    BY <1>1, <1>3, <1>5 DEF HistoryOf, RowsRead, AfterNodes, AfterClients, Busy, Steps
  <2>4. Rendered(h, g)' /\ Applied(h, g)'
    BY <1>1, <1>3, <1>5 DEF HistoryOf, Rendered, Applied, AfterNodes, AfterClients, AfterGrants,
       AfterSync, AfterACL, Busy, Steps
  <2> QED
    BY <2>1, <2>2, <2>3, <2>4 DEF HistoryOf
<1> QED
  BY <1>4, <1>5

\* A statement of a snapshot reads what the database says, and what is rendered and
\* applied is what was read.
LEMMA RunningKeeps ==
    ASSUME TypeInv, LockInv, HistoryInv, NEW h \in Handlers, Running(h), NEW g \in Pairs
    PROVE  HistoryOf(h, g)'
<1> DEFINE old == job[h]
           new == job'[h]
<1>1. UNCHANGED <<dbVars, since>> /\ Says(g)' = Says(g) /\ old.step \in Busy /\ new.step \in Busy
  BY RunningStep DEF Says, Effective, Enabled, Active, dbVars
<1>2. HistoryOf(h, g) /\ Says(g) \subseteq since[h][g]
  BY <1>1 DEF HistoryInv, HistoryOf, Remembers, Busy
<1>3. access[g] \in Says(g) /\ Effective(g) \in Says(g)
  BY DEF Says
<1> USE DEF HistoryOf
<1>4. Remembers(h, g)'
  BY <1>1, <1>2 DEF Remembers
<1>5. RulesRead(h, g)'
  <2>1. CASE ReadRules(h)
    <3>1. new.rules = CommittedRules
      BY <2>1 DEF ReadRules, Reads, Advance, TypeInv, TypeOK, Job
    <3> QED
      BY <1>1, <1>2, <1>3, <3>1 DEF RulesRead, CommittedRules, Granted, Unlimited, dbVars
  <2>2. CASE ~ ReadRules(h)
    <3>1. new.step # "grants"
      BY <2>2, StepOrder
    <3> QED
      BY <3>1 DEF RulesRead
  <2> QED
    BY <2>1, <2>2
<1>6. RowsRead(h, g)'
  <2>1. CASE ReadNodes(h)
    <3>1. new.step = "clients" /\ new.active = Active
      BY <2>1 DEF ReadNodes, Reads, Advance, TypeInv, TypeOK, Job
    <3> QED
      BY <1>1, <1>2, <1>3, <3>1 DEF RowsRead, Effective, Active, AfterClients, AfterNodes, Pairs
  <2>2. CASE ReadClients(h)
    <3>1. /\ new.step = "rules" /\ new.enabled = Enabled /\ new.active = old.active
          /\ old.step = "clients"
      BY <2>2 DEF ReadClients, Reads, Advance, TypeInv, TypeOK, Job
    <3> QED
      BY <1>1, <1>2, <1>3, <3>1 DEF RowsRead, Effective, Enabled, AfterClients, AfterNodes, Pairs,
         Busy, Steps
  <2>3. CASE ~ ReadNodes(h) /\ ~ ReadClients(h)
    <3>1. new.active = old.active /\ new.enabled = old.enabled /\ old.step \in AfterClients
      BY <2>3, ReadsKept
    <3> QED
      BY <1>1, <1>2, <3>1 DEF RowsRead, AfterClients
  <2> QED
    BY <2>1, <2>2, <2>3
<1>7. Rendered(h, g)'
  <2>1. CASE ReadGrants(h)
    <3>1. /\ new.acl[g] = IF g \in Resolved(h) THEN old.rules[g] ELSE NoAccess
          /\ old.step = "grants" /\ new.step = "syncconf"
      BY <2>1 DEF ReadGrants, Reads, Advance, TypeInv, TypeOK, Job
    <3>2. CASE g \in Resolved(h)
      BY <1>1, <1>2, <3>1, <3>2 DEF Resolved, Granted, RulesRead, Rendered, AfterGrants,
         AfterClients, AfterNodes, Busy, Steps
    <3>3. CASE g \notin Resolved(h)
      <4>1. NoAccess \in since[h][g]
        <5>1. CASE access[g] = NoAccess
          BY <1>2, <1>3, <5>1
        <5>2. CASE g[1] \notin Enabled
          BY <1>2, <1>3, <5>2 DEF Effective
        <5>3. CASE g[1] \notin old.enabled \/ g[2] \notin old.active
          BY <1>2, <3>1, <5>3 DEF RowsRead, AfterClients, AfterNodes, Busy, Steps
        <5> QED
          BY <3>3, <5>1, <5>2, <5>3 DEF Resolved, Granted
      <4> QED
        BY <1>1, <3>1, <3>3, <4>1 DEF Rendered, AfterGrants, AfterClients, AfterNodes, Busy, Steps
    <3> QED
      BY <3>2, <3>3
  <2>2. CASE ~ ReadGrants(h)
    <3>1. new.acl = old.acl /\ (new.step \in AfterGrants <=> old.step \in AfterGrants)
      BY <2>2, AclStep, StepOrder
    <3> QED
      BY <1>1, <1>2, <3>1 DEF Rendered
  <2> QED
    BY <2>1, <2>2
<1>8. Applied(h, g)'
  <2>1. CASE LoadACL(h)
    <3>1. live'.acl = new.acl
      BY <2>1 DEF LoadACL, Applies, Advance, TypeInv, TypeOK, Job, System
    <3> QED
      BY <3>1 DEF Applied
  <2>2. CASE ~ LoadACL(h)
    <3>1. new.step \in AfterACL => old.step \in AfterACL /\ ~ ReadGrants(h)
      BY <2>2, StepOrder
    <3> QED
      BY <1>1, <1>2, <2>2, <3>1, AclStep DEF Applied
  <2> QED
    BY <2>1, <2>2
<1> QED
  BY <1>4, <1>5, <1>6, <1>7, <1>8

\* A process starts with a history of what the database says.
LEMMA BootHistory ==
    ASSUME NEW k \in Handlers, NEW g \in Pairs, UNCHANGED dbVars, Boots(job', since')
    PROVE  HistoryOf(k, g)'
<1>1. job'[k].step \in {"idle", "lock"} /\ job'[k].acl[g] = NoAccess
  BY BootSteps DEF NoJob
<1>2. job'[k].step = "lock" => since'[k][g] = Says(g)
  <2>1. job'[k].step = "lock" => k = Booter
    BY BootSteps
  <2> QED
    BY <2>1 DEF Boots, NoHistory
<1>3. Says(g)' = Says(g)
  BY DEF Says, Effective, Enabled, Active, dbVars
<1> QED
  BY <1>1, <1>2, <1>3 DEF HistoryOf, Remembers, RulesRead, RowsRead, Rendered, Applied, AfterNodes,
     AfterClients, AfterGrants, AfterSync, AfterACL, Busy, Steps

\* Whatever step is taken, every call's history covers what it has read and rendered.
LEMMA HistoryStep == TypeInv /\ LockInv /\ HistoryInv /\ [Next]_vars => HistoryInv'
<1> SUFFICES ASSUME TypeInv, LockInv, HistoryInv, [Next]_vars, NEW k \in Handlers, NEW g \in Pairs
             PROVE  HistoryOf(k, g)'
  BY DEF HistoryInv
<1> DEFINE Untouched == /\ UNCHANGED <<dbVars, job[k], since[k]>>
                        /\ job[k].step \in AfterACL => live'.acl = live.acl
<1>0. ASSUME Untouched PROVE HistoryOf(k, g)'
  BY <1>0 DEF HistoryInv, HistoryOf, Remembers, RulesRead, RowsRead, Rendered, Applied, Says,
     Effective, Enabled, Active, dbVars
<1>1. ASSUME NEW h \in Handlers, CommitChange(h) PROVE HistoryOf(k, g)'
  <2>1. \/ job'[k] = job[k]
        \/ job[k].step = "idle" /\ job'[k].step = "lock" /\ job'[k].acl = job[k].acl
    BY <1>1 DEF CommitChange, TypeInv, TypeOK, Job
  <2> QED
    BY <1>1, <2>1, StoreStep, CommitKeeps DEF CommitChange, TypeInv, TypeOK
<1>2. ASSUME NEW h \in Handlers, UpdateWithBadColor(h) PROVE HistoryOf(k, g)'
  <2>1. access' = access
    BY <1>2 DEF UpdateWithBadColor, UpdateClient
  <2> QED
    BY <1>2, <2>1, CommitKeeps DEF UpdateWithBadColor
<1>3. ASSUME NEW h \in Handlers, Lock(h) PROVE HistoryOf(k, g)'
  <2>1. CASE k = h
    <3>1. /\ job[k].step = "lock" /\ job'[k].step = "nodes" /\ job'[k].acl = job[k].acl
          /\ UNCHANGED <<dbVars, since>>
      BY <1>3, <2>1 DEF Lock, TypeInv, TypeOK, Job
    <3> QED
      BY <3>1 DEF HistoryInv, HistoryOf, Remembers, RulesRead, RowsRead, Rendered, Applied, Says,
         Effective, Enabled, Active, dbVars, AfterNodes, AfterClients, AfterGrants, AfterSync,
         AfterACL, Busy, Steps
  <2>2. CASE k # h
    BY <1>0, <1>3, <2>2 DEF Lock, TypeInv, TypeOK
  <2> QED
    BY <2>1, <2>2
<1>4. ASSUME NEW h \in Handlers, Running(h) PROVE HistoryOf(k, g)'
  <2>1. CASE k = h
    BY <1>4, <2>1, RunningKeeps
  <2>2. CASE k # h
    <3>1. job[k].step \notin AfterACL
      BY <1>4, <2>2, RunningStep DEF LockInv, AfterACL, AfterSync, AfterGrants, AfterClients, AfterNodes
    <3> QED
      BY <1>0, <1>4, <2>2, <3>1, RunningStep
  <2> QED
    BY <2>1, <2>2
<1>5. ASSUME NEW h \in Handlers, NEW ok \in BOOLEAN, Return(h, ok) PROVE HistoryOf(k, g)'
  <2>1. CASE k = h
    <3>1. job'[k].step = "idle" /\ job'[k].acl[g] = NoAccess
      BY <1>5, <2>1 DEF Return, NoJob, TypeInv, TypeOK
    <3> QED
      BY <3>1 DEF HistoryOf, Remembers, RulesRead, RowsRead, Rendered, Applied, AfterNodes,
         AfterClients, AfterGrants, AfterSync, AfterACL, Busy, Steps
  <2>2. CASE k # h
    BY <1>0, <1>5, <2>2 DEF Return, TypeInv, TypeOK
  <2> QED
    BY <2>1, <2>2
<1>6. ASSUME Restart PROVE HistoryOf(k, g)'
  BY <1>6, BootHistory DEF Restart
<1>7. ASSUME NEW n \in Nodes, NEW s \in Subnets, ReannounceLan(n, s) PROVE HistoryOf(k, g)'
  BY <1>0, <1>7 DEF ReannounceLan
<1>8. CASE UNCHANGED vars
  BY <1>0, <1>8 DEF vars
<1> QED
  BY <1>1, <1>2, <1>3, <1>4, <1>5, <1>6, <1>7, <1>8
     DEF Next, ReconcileStep, Running, Answer, Fail

---------------------------------------------------------------------------
(* What is read and applied with no commit waiting.                        *)

\* What EnsureRoutes does: only routes are added, and the call moves on.
LEMMA EnsureRoutesStep ==
    ASSUME TypeInv, NEW h \in Handlers, EnsureRoutes(h)
    PROVE  /\ job[h].step = "routes" /\ job'[h].step = "exitRoutes"
           /\ job'[h].lans = job[h].lans
           /\ live'.peers = live.peers /\ live'.lans = live.lans /\ live'.acl = live.acl
           /\ live'.routes = live.routes \cup {job[h].lans[n] : n \in job[h].active \ {HubNode}}
<1>1. job[h] \in Job /\ "exitRoutes" \in Steps
  BY DEF TypeInv, TypeOK, Steps
<1> DEFINE j == [job[h] EXCEPT !.step = "exitRoutes"]
<1>2. j.step = "exitRoutes" /\ j.lans = job[h].lans
  BY <1>1, UpdateStep
<1>3. /\ job[h].step = "routes" /\ job' = [job EXCEPT ![h] = j]
      /\ live' = [live EXCEPT !.routes = @ \cup {job[h].lans[n] : n \in job[h].active \ {HubNode}}]
  BY DEF EnsureRoutes, Applies, Advance
<1> HIDE DEF j
<1>4. job'[h] = j
  BY <1>3 DEF TypeInv, TypeOK
<1>5. live \in System
  BY DEF TypeInv, TypeOK
<1> QED
  BY <1>2, <1>3, <1>4, <1>5 DEF System

\* The LANs that a call's peers have are those it has read.
LEMMA LansOfStep ==
    ASSUME TypeInv, LansApplied, NEW h \in Handlers, Running(h), job'[h].step \in AfterSync
    PROVE  live'.lans = job'[h].lans
<1> USE DEF TypeInv, TypeOK, Job, System, LansApplied, Reads, Applies, Advance, AfterSync,
            AfterGrants, AfterClients, AfterNodes, Busy, Steps
<1>1. CASE ReadNodes(h)
  BY <1>1 DEF ReadNodes
<1>2. CASE ReadClients(h)
  BY <1>2 DEF ReadClients
<1>3. CASE ReadRules(h)
  BY <1>3 DEF ReadRules
<1>4. CASE ReadGrants(h)
  BY <1>4 DEF ReadGrants
<1>5. CASE SyncConf(h)
  BY <1>5 DEF SyncConf
<1>6. CASE LoadACL(h)
  BY <1>6 DEF LoadACL
<1>7. CASE EnsureRoutes(h)
  <2>1. live.lans = job[h].lans
    BY <1>7, EnsureRoutesStep
  <2> QED
    BY <1>7, <2>1, EnsureRoutesStep
<1>8. CASE EnsureExitRoutes(h)
  BY <1>8 DEF EnsureExitRoutes
<1>9. CASE SetRoutes(h)
  BY <1>9 DEF SetRoutes
<1> QED
  BY <1>1, <1>2, <1>3, <1>4, <1>5, <1>6, <1>7, <1>8, <1>9 DEF Running

\* Only SyncConf gives LANs to peers, those its call has read.
LEMMA LansStep == TypeInv /\ LockInv /\ LansApplied /\ [Next]_vars => LansApplied'
<1> SUFFICES ASSUME TypeInv, LockInv, LansApplied, [Next]_vars PROVE LansApplied'
  OBVIOUS
<1> USE DEF LansApplied
<1>1. ASSUME NEW h \in Handlers, CommitChange(h) PROVE LansApplied'
  BY <1>1 DEF CommitChange, TypeInv, TypeOK, Job, AfterSync, AfterGrants, AfterClients, AfterNodes, Busy, Steps
<1>2. ASSUME NEW h \in Handlers, Lock(h) PROVE LansApplied'
  BY <1>2 DEF Lock, TypeInv, TypeOK, Job, AfterSync, AfterGrants, AfterClients, AfterNodes, Busy, Steps
<1>3. ASSUME NEW h \in Handlers, Running(h), NEW k \in Handlers, job'[k].step \in AfterSync
      PROVE  live'.lans = job'[k].lans
  <2>1. k = h
    BY <1>3, RunningStep DEF LockInv, AfterSync, AfterGrants, AfterClients, AfterNodes
  <2> QED
    BY <1>3, <2>1, LansOfStep
<1>4. ASSUME NEW h \in Handlers, NEW ok \in BOOLEAN, Return(h, ok) PROVE LansApplied'
  BY <1>4 DEF Return, NoJob, TypeInv, TypeOK, AfterSync, AfterGrants, AfterClients, AfterNodes, Busy, Steps
<1>5. ASSUME Restart PROVE LansApplied'
  <2>1. \A h \in Handlers : job'[h].step \in {"idle", "lock"}
    BY <1>5, BootSteps DEF Restart
  <2> QED
    BY <2>1 DEF AfterSync, AfterGrants, AfterClients, AfterNodes, Busy, Steps
<1>6. CASE UNCHANGED <<job, live>>
  BY <1>6
<1> QED
  BY <1>1, <1>2, <1>3, <1>4, <1>5, <1>6 DEF Next, ReconcileStep, Running, Answer, Fail,
     UpdateWithBadColor, ReannounceLan, vars

\* What the database says changes only with its tables.
LEMMA SameDatabase ==
    ASSUME UNCHANGED dbVars
    PROVE  UNCHANGED <<Active, Enabled, CommittedRules, Rights, WantedExits>>
<1>1. Active' = Active /\ Enabled' = Enabled /\ CommittedRules' = CommittedRules
  BY DEF dbVars, Active, Enabled, CommittedRules, Granted
<1>2. Rights' = Rights /\ WantedExits' = WantedExits
  BY <1>1 DEF dbVars, Rights, WantedExits, Effective
<1> QED
  BY <1>1, <1>2

\* Applying leaves what was read and rendered alone.
LEMMA AppliesKept ==
    ASSUME TypeInv, NEW h \in Handlers,
           SyncConf(h) \/ LoadACL(h) \/ EnsureRoutes(h) \/ EnsureExitRoutes(h) \/ SetRoutes(h)
    PROVE  /\ job[h].step \in AfterGrants /\ job'[h].step \in AfterGrants
           /\ job'[h].active = job[h].active /\ job'[h].enabled = job[h].enabled
           /\ job'[h].acl = job[h].acl /\ job'[h].exits = job[h].exits
<1> USE DEF TypeInv, TypeOK, Job, Applies, Advance, AfterGrants, AfterClients, AfterNodes, Busy, Steps
<1>1. CASE SyncConf(h)
  BY <1>1 DEF SyncConf
<1>2. CASE LoadACL(h)
  BY <1>2 DEF LoadACL
<1>3. CASE EnsureRoutes(h)
  BY <1>3 DEF EnsureRoutes
<1>4. CASE EnsureExitRoutes(h)
  BY <1>4 DEF EnsureExitRoutes
<1>5. CASE SetRoutes(h)
  BY <1>5 DEF SetRoutes
<1> QED
  BY <1>1, <1>2, <1>3, <1>4, <1>5

\* No step reads or applies anything out of date while no commit waits.
LEMMA RunningCurrent ==
    ASSUME TypeInv, LockInv, LansApplied, NEW h \in Handlers, Running(h),
           ReadIsCurrent(h), SystemIsCurrent(job[h].step)
    PROVE  ReadIsCurrent(h)' /\ SystemIsCurrent(job[h].step)'
<1>1. UNCHANGED <<Active, Enabled, CommittedRules, Rights, WantedExits>>
  BY RunningStep, SameDatabase
<1> DEFINE old == job[h]
           new == job'[h]
<1> USE DEF AfterExits, AfterRoutes, AfterACL, AfterSync, AfterGrants, AfterClients, AfterNodes,
            Busy, Steps
<1>2. CASE ReadNodes(h)
  <2>1. new.step = "clients" /\ new.active = Active
    BY <1>2 DEF ReadNodes, Reads, Advance, TypeInv, TypeOK, Job
  <2> QED
    BY <1>1, <2>1 DEF ReadIsCurrent, SystemIsCurrent
<1>3. CASE ReadClients(h)
  <2>1. old.step = "clients" /\ new.step = "rules" /\ new.active = old.active /\ new.enabled = Enabled
    BY <1>3 DEF ReadClients, Reads, Advance, TypeInv, TypeOK, Job
  <2> QED
    BY <1>1, <2>1 DEF ReadIsCurrent, SystemIsCurrent
<1>4. CASE ReadRules(h)
  <2>1. /\ old.step = "rules" /\ new.step = "grants" /\ new.rules = CommittedRules
        /\ new.active = old.active /\ new.enabled = old.enabled
    BY <1>4 DEF ReadRules, Reads, Advance, TypeInv, TypeOK, Job
  <2> QED
    BY <1>1, <2>1 DEF ReadIsCurrent, SystemIsCurrent
<1>5. CASE ReadGrants(h)
  <2>1. /\ old.step = "grants" /\ new.step = "syncconf"
        /\ new.active = old.active /\ new.enabled = old.enabled
        /\ new.acl = [g \in Pairs |-> IF g \in Resolved(h) THEN old.rules[g] ELSE NoAccess]
        /\ new.exits = {g \in Resolved(h) \cap exits : g[2] # HubNode}
    BY <1>5 DEF ReadGrants, Reads, Advance, TypeInv, TypeOK, Job
  <2>2. /\ old.active = Active /\ old.enabled = Enabled /\ old.rules = CommittedRules
    BY <2>1 DEF ReadIsCurrent
  <2>3. \A g \in Pairs : g \in Resolved(h) <=> Effective(g) # NoAccess
    BY <2>2 DEF Resolved, Granted, Effective
  <2>4. new.acl = Rights
    BY <2>1, <2>2, <2>3 DEF Resolved, CommittedRules, Rights, Effective, Granted
  <2>5. new.exits = WantedExits
    <3>1. Resolved(h) \cap exits = {g \in exits : Effective(g) # NoAccess}
      BY <2>3 DEF Resolved, Granted, TypeInv, TypeOK, StoreTypeOK
    <3> QED
      BY <2>1, <3>1 DEF WantedExits
  <2> QED
    BY <1>1, <2>1, <2>2, <2>4, <2>5 DEF ReadIsCurrent, SystemIsCurrent
<1>6. ASSUME SyncConf(h) \/ LoadACL(h) \/ EnsureRoutes(h) \/ EnsureExitRoutes(h) \/ SetRoutes(h)
      PROVE  ReadIsCurrent(h)'
  <2>1. /\ old.step \in AfterGrants /\ new.step \in AfterGrants
        /\ new.active = old.active /\ new.enabled = old.enabled
        /\ new.acl = old.acl /\ new.exits = old.exits
    BY <1>6, AppliesKept
  <2> QED
    BY <1>1, <2>1 DEF ReadIsCurrent
<1>7. CASE SyncConf(h)
  <2>1. SystemIsCurrent(old.step)'
    BY <1>1, <1>7 DEF SyncConf, Applies, Advance, TypeInv, TypeOK, Job, System,
       SystemIsCurrent, ReadIsCurrent
  <2> QED
    BY <1>6, <1>7, <2>1
<1>8. CASE LoadACL(h)
  <2>1. SystemIsCurrent(old.step)'
    BY <1>1, <1>8 DEF LoadACL, Applies, Advance, TypeInv, TypeOK, Job, System,
       SystemIsCurrent, ReadIsCurrent
  <2> QED
    BY <1>6, <1>8, <2>1
<1>9. CASE EnsureRoutes(h)
  <2>1. /\ old.step = "routes" /\ new.step = "exitRoutes"
        /\ live'.peers = live.peers /\ live'.lans = live.lans /\ live'.acl = live.acl
        /\ live'.routes = live.routes \cup {old.lans[n] : n \in old.active \ {HubNode}}
    BY <1>9, EnsureRoutesStep
  <2>2. old.active = Active /\ live.peers = Enabled \cup Active /\ live.acl = Rights
    BY <2>1 DEF ReadIsCurrent, SystemIsCurrent
  <2>3. live.lans = old.lans
    BY <2>1 DEF LansApplied
  <2>4. \A n \in Active \ {HubNode} : live'.lans[n] \in live'.routes
    BY <2>1, <2>2, <2>3
  <2>5. SystemIsCurrent(old.step)'
    BY <1>1, <2>1, <2>2, <2>4 DEF SystemIsCurrent
  <2> QED
    BY <1>6, <1>9, <2>5
<1>10. CASE EnsureExitRoutes(h)
  <2>1. SystemIsCurrent(old.step)'
    BY <1>1, <1>10 DEF EnsureExitRoutes, Applies, Advance, TypeInv, TypeOK, Job, System,
       SystemIsCurrent, ReadIsCurrent
  <2> QED
    BY <1>6, <1>10, <2>1
<1>11. CASE SetRoutes(h)
  <2>1. SystemIsCurrent(old.step)'
    BY <1>1, <1>11 DEF SetRoutes, Applies, Advance, TypeInv, TypeOK, Job, System,
       SystemIsCurrent, ReadIsCurrent
  <2> QED
    BY <1>6, <1>11, <2>1
<1> QED
  BY <1>2, <1>3, <1>4, <1>5, <1>7, <1>8, <1>9, <1>10, <1>11 DEF Running

\* With no commit waiting, what the running call has applied is the database's, and
\* the whole system is once no call runs.
LEMMA CurrentStep == TypeInv /\ LockInv /\ LansApplied /\ CurrentInv /\ [Next]_vars => CurrentInv'
<1> SUFFICES ASSUME TypeInv, LockInv, LansApplied, CurrentInv, [Next]_vars, Current'
             PROVE  /\ \A k \in Handlers : ReadIsCurrent(k)' /\ SystemIsCurrent(job[k].step)'
                    /\ mutex' = Nil => SystemIsCurrent("answer")'
  BY DEF CurrentInv
<1> DEFINE Goal == /\ \A k \in Handlers : ReadIsCurrent(k)' /\ SystemIsCurrent(job[k].step)'
                   /\ mutex' = Nil => SystemIsCurrent("answer")'
<1>1. ASSUME NEW k \in Handlers, job'[k].step \notin Busy \ {"nodes"}
      PROVE  ReadIsCurrent(k)' /\ SystemIsCurrent(job[k].step)'
  BY <1>1 DEF ReadIsCurrent, SystemIsCurrent, AfterExits, AfterRoutes, AfterACL, AfterSync,
     AfterGrants, AfterClients, AfterNodes, Busy, Steps
<1>2. ASSUME NEW h \in Handlers, CommitChange(h) PROVE Goal
  BY <1>2 DEF CommitChange, Current, TypeInv, TypeOK, Job
<1>3. ASSUME NEW h \in Handlers, UpdateWithBadColor(h) PROVE Goal
  BY <1>3 DEF UpdateWithBadColor, Current
<1>4. ASSUME NEW h \in Handlers, Lock(h) PROVE Goal
  <2>1. \A k \in Handlers : job'[k].step \notin Busy \ {"nodes"}
    BY <1>4, ReconcileAssumption DEF Lock, Free, LockInv, TypeInv, TypeOK, Job, Busy
  <2>2. mutex' # Nil
    BY <1>4, ReconcileAssumption DEF Lock
  <2> QED
    BY <1>1, <2>1, <2>2
<1>5. ASSUME NEW h \in Handlers, Running(h) PROVE Goal
  <2>1. mutex' = h /\ mutex = h /\ job[h].step \in Busy
    BY <1>5, RunningStep DEF LockInv
  <2>2. Current
    <3>1. kept
      BY <1>5, RunningStep DEF Current
    <3>2. \A k \in Handlers : job[k].step # "lock"
      BY <1>5, <2>1, RunningStep DEF Current, Busy
    <3> QED
      BY <3>1, <3>2 DEF Current
  <2>3. ReadIsCurrent(h)' /\ SystemIsCurrent(job[h].step)'
    BY <1>5, <2>2, RunningCurrent DEF CurrentInv
  <2>4. \A k \in Handlers : k # h => job'[k].step \notin Busy
    BY <1>5, <2>1, RunningStep DEF LockInv
  <2> QED
    BY <1>1, <2>1, <2>3, <2>4, ReconcileAssumption
<1>6. ASSUME NEW h \in Handlers, Answer(h) PROVE Goal
  <2>1. mutex = h /\ job[h].step = "answer"
    BY <1>6 DEF Answer, LockInv, Busy, Steps
  <2>2. /\ job' = [job EXCEPT ![h] = NoJob]
        /\ UNCHANGED <<dbVars, live>> /\ kept' = (kept /\ TRUE)
    BY <1>6 DEF Answer, Return
  <2>3. \A k \in Handlers : job'[k].step \notin Busy
    BY <2>1, <2>2 DEF LockInv, NoJob, TypeInv, TypeOK, Busy
  <2>4. kept
    BY <2>2, Zenon DEF Current
  <2>5. \A k \in Handlers : job[k].step # "lock"
    BY <2>1, <2>2 DEF Current, TypeInv, TypeOK
  <2>6. SystemIsCurrent("answer")
    BY <2>1, <2>4, <2>5 DEF Current, CurrentInv
  <2>7. SystemIsCurrent("answer")'
    BY <2>2, <2>6, SameDatabase DEF SystemIsCurrent
  <2> QED
    BY <1>1, <2>3, <2>7
<1>7. ASSUME NEW h \in Handlers, Fail(h) PROVE Goal
  BY <1>7 DEF Fail, Return, Current
<1>8. CASE Restart
  BY <1>8 DEF Restart, Current
<1>9. CASE UNCHANGED <<dbVars, live, mutex, job, kept>>
  <2>1. Current
    BY <1>9 DEF Current
  <2>2. UNCHANGED <<Active, Enabled, CommittedRules, Rights, WantedExits>>
    BY <1>9, SameDatabase
  <2> QED
    BY <1>9, <2>1, <2>2 DEF CurrentInv, ReadIsCurrent, SystemIsCurrent
<1> QED
  BY <1>2, <1>3, <1>4, <1>5, <1>6, <1>7, <1>8, <1>9
     DEF Next, ReconcileStep, Running, ReannounceLan, vars

---------------------------------------------------------------------------
(* Invariance.                                                             *)

\* A process that has just started satisfies the invariant.
LEMMA InitInv == Init => IInv
<1> SUFFICES ASSUME Init PROVE IInv
  OBVIOUS
<1>1. StoreTypeOK
  BY DEF Init, StoreInit, StoreTypeOK, Allowed, Pairs
<1>2. \A h \in Handlers : job[h].step \in {"idle", "lock"} /\ job[h].acl = NoJob.acl
  BY BootSteps DEF Init
<1>3. TypeInv
  <2>1. Nothing \in System
    BY DEF Nothing, System, Allowed
  <2> QED
    BY <1>1, <2>1, BootTyped DEF Init, TypeInv, TypeOK, LansRead
<1>4. LockInv
  BY <1>2, ReconcileAssumption DEF Init, LockInv, Busy
<1>5. HistoryInv
  <2> SUFFICES ASSUME NEW h \in Handlers, NEW g \in Pairs PROVE HistoryOf(h, g)
    BY DEF HistoryInv
  <2>1. job[h].acl[g] = NoAccess
    BY <1>2 DEF NoJob
  <2>2. job[h].step = "lock" => since[h][g] = Says(g)
    <3>1. job[h].step = "lock" => h = Booter
      BY BootSteps DEF Init
    <3> QED
      BY <3>1 DEF Init, Boots, NoHistory
  <2> QED
    BY <1>2, <2>1, <2>2 DEF HistoryOf, Remembers, RulesRead, RowsRead, Rendered, Applied,
       AfterNodes, AfterClients, AfterGrants, AfterSync, AfterACL, Busy, Steps
<1>6. LansApplied
  BY <1>2 DEF LansApplied, AfterSync, AfterGrants, AfterClients, AfterNodes, Busy, Steps
<1>7. CurrentInv
  BY DEF Init, CurrentInv, Current
<1> QED
  BY <1>3, <1>4, <1>5, <1>6, <1>7 DEF IInv

\* Every step of every handler, of the process and of the agents keeps the invariant.
THEOREM ReconcileInvariance == Spec => []IInv
<1>1. IInv /\ [Next]_vars => IInv'
  BY TypeStep, LockStep, HistoryStep, LansStep, CurrentStep DEF IInv
<1> QED
  BY <1>1, InitInv, PTL DEF Spec

\* The running system, the calls of Service.Reconcile and the tables keep their shapes.
THEOREM ReconcileTypeCorrect == Spec => []TypeOK
<1>1. IInv => TypeOK
  BY DEF IInv, TypeInv
<1> QED
  BY <1>1, ReconcileInvariance, PTL

\* Store.Snapshot reads the rules before the grants (queries.go:193-202): no access
\* rule is rendered that its grant did not have since the handler's commit.
THEOREM RenderedWasGranted == Spec => []RenderedAccessWasGranted
<1>1. IInv => RenderedAccessWasGranted
  BY DEF IInv, HistoryInv, HistoryOf, Rendered, RenderedAccessWasGranted
<1> QED
  BY <1>1, ReconcileInvariance, PTL

\* A mutation handler that answers has had every pair's access applied as the database
\* said it at some moment since the handler's commit (service.go:24-25).
THEOREM AnswerApplied == Spec => []AnswerMeansApplied
<1>1. IInv => AnswerMeansApplied
  BY DEF IInv, HistoryInv, HistoryOf, Rendered, Applied, AnswerMeansApplied, AfterACL, AfterSync,
     AfterGrants, AfterClients, AfterNodes, Busy, Steps
<1> QED
  BY <1>1, ReconcileInvariance, PTL

\* Once every call has ended and the last one succeeded, Service.Reconcile has made the
\* peers, the access rules, the exits and the resolver what the database says.
THEOREM SettledIsDatabase == Spec => []SettledSystemIsTheDatabase
<1>1. IInv => SettledSystemIsTheDatabase
  <2> SUFFICES ASSUME IInv, Settled PROVE SettledSystemIsTheDatabase
    BY DEF SettledSystemIsTheDatabase
  <2>1. Current
    BY DEF Settled, Current
  <2>2. mutex = Nil
    BY DEF Settled, IInv, LockInv, TypeInv, TypeOK, Busy
  <2>3. SystemIsCurrent("answer")
    BY <2>1, <2>2 DEF IInv, CurrentInv
  <2>4. \A g \in Pairs : live.acl[g] = Effective(g)
    BY <2>3 DEF SystemIsCurrent, Rights, AfterACL, AfterSync, AfterGrants, AfterClients, AfterNodes, Busy, Steps
  <2> QED
    BY <2>3, <2>4 DEF SettledSystemIsTheDatabase, SystemIsCurrent, WantedExits, AfterExits, AfterRoutes,
       AfterACL, AfterSync, AfterGrants, AfterClients, AfterNodes, Busy, Steps
<1> QED
  BY <1>1, ReconcileInvariance, PTL

=============================================================================
