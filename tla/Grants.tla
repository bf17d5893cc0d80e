------------------------------ MODULE Grants ------------------------------
(***************************************************************************)
(* Who may reach what: the grants of internal/store, their access rules    *)
(* and their internet-exit flag, under concurrent HTTP handlers.           *)
(*                                                                         *)
(* As in NodeRegistry a handler is a READ COMMITTED transaction, modelled  *)
(* by the statements between which another commit can fall and by the row  *)
(* locks it waits for.  The rows of grant_rules that one transaction has   *)
(* deleted stay visible, and locked, until it commits.  A handler whose    *)
(* transaction committed is "committed": what it does next, Reconcile, is  *)
(* in the module of that name.                                             *)
(***************************************************************************)
EXTENDS FiniteSets

CONSTANTS
    Clients,    \* rows the `clients` table may hold
    Nodes,      \* rows the `nodes` table may hold
    HubNode,    \* the node whose is_hub is set
    Rules,      \* access rules the editor can submit: destination, protocol, ports
    Handlers,   \* HTTP requests in flight
    Nil

\* Rows of three tables, and a value that is none of them.
ASSUME GrantsAssumption ==
    /\ Clients \cap Nodes = {}
    /\ (Clients \X Nodes) \cap (Clients \cup Nodes) = {}
    /\ Nil \notin Rules

VARIABLES
    client,     \* "absent", "enabled", "disabled" or "gone", for every client
    node,       \* "inactive" (pending or rejected), "active" or "gone", for every node
    grants,     \* table grants: pairs of a client and a node
    exits,      \* the grants whose exit column is true
    rules,      \* table grant_rules: rows of each pair
    tx          \* the open transaction of each handler

storeVars == <<client, node, grants, exits, rules, tx>>

Pairs == Clients \X Nodes

\* A row of grant_rules: its columns and the request that inserted it.  Rows of
\* equal columns are told apart by their id; two such rows of one request are not.
Row == Rules \X Handlers

\* What a DELETE statement names: a grant, a client or a node.
Target == Pairs \cup Clients \cup Nodes

\* The grants a deletion of t removes, itself or by ON DELETE CASCADE.
Doomed(t) == {g \in Pairs : t = g \/ t = g[1] \/ t = g[2]}

Tx == [pc     : {"idle", "lockRules", "replace", "setExit", "cascade", "committed"},
       target : Target \cup {Nil},
       seen   : SUBSET Row,
       new    : SUBSET Rules,
       exit   : BOOLEAN]

Idle == [pc |-> "idle", target |-> Nil, seen |-> {}, new |-> {}, exit |-> FALSE]

Committed == [Idle EXCEPT !.pc = "committed"]

Init ==
    /\ client = [c \in Clients |-> "absent"]
    /\ node = [n \in Nodes |-> IF n = HubNode THEN "active" ELSE "inactive"]
    /\ grants = {}
    /\ exits = {}
    /\ rules = [g \in Pairs |-> {}]
    /\ tx = [h \in Handlers |-> Idle]

---------------------------------------------------------------------------
(* Row locks.                                                              *)

\* A deletion holds the rows it removes: an INSERT or UPDATE that names one waits.
Deleting(t) == \E h \in Handlers : /\ tx[h].pc = "cascade"
                                   /\ Doomed(t) \cap Doomed(tx[h].target) # {}

\* SetGrantRules holds the rows of grant_rules it has deleted.
HoldsRules(h, g, rows) == /\ tx[h].pc = "replace"
                          /\ tx[h].target = g
                          /\ tx[h].seen \cap rows # {}

\* h's INSERT into grant_rules waits for the grant that k deletes, and k's
\* cascade waits for the rows h has deleted: PostgreSQL breaks the circle.
Deadlocked(h, k) ==
    /\ tx[k].pc = "cascade"
    /\ \E g \in Doomed(tx[k].target) : HoldsRules(h, g, rules[g])
    /\ tx[h].new # {}

Begin(h, t) == tx' = [tx EXCEPT ![h] = t]
Commit(h)   == tx' = [tx EXCEPT ![h] = Committed]

---------------------------------------------------------------------------
(* Clients and nodes, as far as access depends on them.                    *)

CreateClient(h, c) ==
    /\ tx[h].pc = "idle"
    /\ client[c] = "absent"
    /\ client' = [client EXCEPT ![c] = "enabled"]
    /\ Commit(h)
    /\ UNCHANGED <<node, grants, exits, rules>>

UpdateClient(h, c, status) ==
    /\ tx[h].pc = "idle"
    /\ client[c] \in {"enabled", "disabled"}
    /\ ~ Deleting(c)
    /\ client' = [client EXCEPT ![c] = status]
    /\ Commit(h)
    /\ UNCHANGED <<node, grants, exits, rules>>

\* ApproveNode and RejectNode; a rejected node keeps its grants.
SetNodeStatus(h, n, status) ==
    /\ tx[h].pc = "idle"
    /\ node[n] # "gone"
    /\ ~ Deleting(n)
    /\ node' = [node EXCEPT ![n] = status]
    /\ Commit(h)
    /\ UNCHANGED <<client, grants, exits, rules>>

---------------------------------------------------------------------------
(* SetGrant, and the deletions that take grants with them.                 *)

\* INSERT ... ON CONFLICT DO NOTHING: a grant that exists keeps rules and exit.
SetGrant(h, g) ==
    /\ tx[h].pc = "idle"
    /\ client[g[1]] \in {"enabled", "disabled"}
    /\ node[g[2]] # "gone"
    /\ ~ Deleting(g)
    /\ grants' = grants \cup {g}
    /\ Commit(h)
    /\ UNCHANGED <<client, node, exits, rules>>

Deletable(t) == \/ t \in grants
                \/ t \in Clients /\ client[t] \in {"enabled", "disabled"}
                \/ t \in Nodes /\ node[t] # "gone"

\* DeleteGrant, DeleteClient, DeleteNode: the row is locked ...
BeginDelete(h, t) ==
    /\ tx[h].pc = "idle"
    /\ Deletable(t)
    /\ ~ Deleting(t)
    /\ Begin(h, [Idle EXCEPT !.pc = "cascade", !.target = t])
    /\ UNCHANGED <<client, node, grants, exits, rules>>

RemoveEntries(G) ==
    /\ grants' = grants \ G
    /\ exits' = exits \ G
    /\ rules' = [g \in Pairs \ G |-> rules[g]]

RemoveKeepingRules(G) ==
    /\ grants' = grants \ G
    /\ exits' = exits \ G
    /\ UNCHANGED rules

Remove(G) ==
    /\ grants' = grants \ G
    /\ exits' = exits \ G
    /\ rules' = [g \in Pairs |-> IF g \in G THEN {} ELSE rules[g]]

\* ... and ON DELETE CASCADE removes what refers to it, waiting for the rules
\* another transaction has deleted but not committed.
CascadeDelete(h) ==
    /\ tx[h].pc = "cascade"
    /\ LET t == tx[h].target IN
         /\ \A g \in Doomed(t), k \in Handlers : ~ HoldsRules(k, g, rules[g])
         /\ Remove(Doomed(t))
         /\ client' = [c \in Clients |-> IF c = t THEN "gone" ELSE client[c]]
         /\ node' = [n \in Nodes |-> IF n = t THEN "gone" ELSE node[n]]
    /\ Commit(h)

---------------------------------------------------------------------------
(* SetGrantRules: check, DELETE, INSERT.                                   *)

\* The grant exists, and the DELETE statement sees the rows committed by now.
CheckRules(h, g, R) ==
    /\ tx[h].pc = "idle"
    /\ g \in grants
    /\ Begin(h, [Idle EXCEPT !.pc = "lockRules", !.target = g, !.seen = rules[g], !.new = R])
    /\ UNCHANGED <<client, node, grants, exits, rules>>

\* It waits for the rows another transaction deletes, and skips them once gone.
DeleteRules(h) ==
    /\ tx[h].pc = "lockRules"
    /\ LET g == tx[h].target IN
         /\ \A k \in Handlers : ~ HoldsRules(k, g, tx[h].seen)
         /\ Begin(h, [tx[h] EXCEPT !.pc = "replace", !.seen = @ \cap rules[g]])
    /\ UNCHANGED <<client, node, grants, exits, rules>>

ForeignKeyUnchecked(g) == TRUE

\* The row's grant must exist, and must not be being deleted.
ForeignKeyHolds(g) == g \in grants /\ ~ Deleting(g)

\* The INSERTs, each checked against the grant it refers to, and the commit.
ReplaceRules(h) ==
    /\ tx[h].pc = "replace"
    /\ LET g == tx[h].target
           R == tx[h].new
       IN  /\ R # {} => ForeignKeyHolds(g)
           /\ rules' = [rules EXCEPT ![g] = (@ \ tx[h].seen) \cup (R \X {h})]
    /\ Commit(h)
    /\ UNCHANGED <<client, node, grants, exits>>

OrphanIgnored(h) ==
    /\ tx[h].pc = "replace"
    /\ tx[h].target \notin grants
    /\ UNCHANGED storeVars

\* The grant went away after the check: the INSERT violates its foreign key.
RulesOrphaned(h) ==
    /\ tx[h].pc = "replace"
    /\ tx[h].new # {}
    /\ tx[h].target \notin grants
    /\ Begin(h, Idle)
    /\ UNCHANGED <<client, node, grants, exits, rules>>

---------------------------------------------------------------------------
(* SetGrantExit: check, then UPDATE.                                       *)

\* Another node this client already exits through.
OtherExits(g) == {x \in exits : x[1] = g[1] /\ x[2] # g[2]}

CheckExit(h, g, on) ==
    /\ tx[h].pc = "idle"
    /\ g \in grants
    /\ g[2] # HubNode
    /\ on => OtherExits(g) = {}
    /\ Begin(h, [Idle EXCEPT !.pc = "setExit", !.target = g, !.exit = on])
    /\ UNCHANGED <<client, node, grants, exits, rules>>

\* An UPDATE of a grant that is gone changes no row and still succeeds.
UpdateExit(h) ==
    /\ tx[h].pc = "setExit"
    /\ LET g == tx[h].target IN
         /\ ~ Deleting(g)
         /\ exits' = IF tx[h].exit THEN exits \cup ({g} \cap grants) ELSE exits \ {g}
    /\ Commit(h)
    /\ UNCHANGED <<client, node, grants, rules>>

---------------------------------------------------------------------------
(* Failure.                                                                *)

\* A bad rule, a cancelled request or a lost connection.
Rollback(h) ==
    /\ tx[h].pc \notin {"idle", "committed"}
    /\ Begin(h, Idle)
    /\ UNCHANGED <<client, node, grants, exits, rules>>

\* deadlock_timeout passes and PostgreSQL aborts one of the two.
DeadlockVictim(h) ==
    /\ \E k \in Handlers : Deadlocked(h, k) \/ Deadlocked(k, h)
    /\ Begin(h, Idle)
    /\ UNCHANGED <<client, node, grants, exits, rules>>

---------------------------------------------------------------------------
BeginRequest(h) ==
    \/ \E c \in Clients : \/ CreateClient(h, c)
                          \/ \E s \in {"enabled", "disabled"} : UpdateClient(h, c, s)
    \/ \E n \in Nodes \ {HubNode}, s \in {"active", "inactive"} : SetNodeStatus(h, n, s)
    \/ \E t \in Target : BeginDelete(h, t)
    \/ \E g \in Pairs : \/ SetGrant(h, g)
                        \/ \E R \in SUBSET Rules : CheckRules(h, g, R)
                        \/ \E on \in BOOLEAN : CheckExit(h, g, on)

\* The statement an open transaction executes next.
NextStatement(h) ==
    \/ CascadeDelete(h) \/ DeleteRules(h) \/ ReplaceRules(h) \/ RulesOrphaned(h)
    \/ UpdateExit(h) \/ DeadlockVictim(h)

StoreStep(h) == BeginRequest(h) \/ NextStatement(h) \/ Rollback(h)

\* The handler has committed and is done with the store.
Leave(h) ==
    /\ tx[h].pc = "committed"
    /\ Begin(h, Idle)
    /\ UNCHANGED <<client, node, grants, exits, rules>>

Next == \E h \in Handlers : StoreStep(h) \/ Leave(h)

Spec == Init /\ [][Next]_storeVars

\* PostgreSQL runs the statements of an open transaction, detects deadlocks, and
\* grants a row to its waiters in turn; the handler returns.
Fairness == \A h \in Handlers : /\ SF_storeVars(NextStatement(h))
                                /\ WF_storeVars(Leave(h))

FairSpec == Spec /\ Fairness

---------------------------------------------------------------------------
(* Properties.                                                             *)

\* The tables and the open transactions have the shapes the schema and the
\* store's functions give them.
TypeOK ==
    /\ client \in [Clients -> {"absent", "enabled", "disabled", "gone"}]
    /\ node \in [Nodes -> {"inactive", "active", "gone"}]
    /\ grants \subseteq Pairs
    /\ exits \subseteq Pairs
    /\ rules \in [Pairs -> SUBSET Row]
    /\ tx \in [Handlers -> Tx]

\* What DeleteGrant and SetGrant promise together (queries.go:91-104): a grant that
\* was revoked leaves nothing behind, so a client granted the node again starts
\* from full access and no exit, even when SetGrantRules or SetGrantExit checked
\* the grant before it was revoked and wrote after (grant_rules.go:81-107).
NothingOutlivesAGrant ==
    /\ \A g \in Pairs : rules[g] # {} => g \in grants
    /\ exits \subseteq grants
    /\ \A g \in grants : client[g[1]] \in {"enabled", "disabled"} /\ node[g[2]] # "gone"

Store == INSTANCE AccessStore
           WITH access <- [g \in Pairs |-> IF g \in grants THEN {r[1] : r \in rules[g]}
                                          ELSE {Nil}]

\* The transactions together are the store that Reconcile reads: every commit is
\* one operation of AccessStore, and no statement before it shows (pgx.BeginFunc
\* around store/grant_rules.go:78-162, ON DELETE CASCADE in the migrations).
ImplementsAccessStore == Store!StoreSpec

\* Every transaction ends, although SetGrantRules takes a grant's rules first and
\* the grant second, and a deletion takes them the other way around.
TransactionsEnd == \A h \in Handlers : tx[h].pc # "idle" ~> tx[h].pc = "idle"

\* SetGrantExit's comment (grant_rules.go:126-127): "a device may exit through at
\* most one node at a time".
AtMostOneExit == \A g, x \in exits : g[1] = x[1] => g = x

\* SetGrantRules's comment (grant_rules.go:77): it "replaces the rule set for a
\* grant", so what a committed request leaves is what it submitted and no more.
RulesReplaced ==
    [][\A h \in Handlers :
         tx[h].pc = "replace" /\ tx'[h].pc = "committed"
           => {r[1] : r \in rules'[tx[h].target]} = tx[h].new]_storeVars
===========================================================================
