--------------------------- MODULE NodeRegistry ---------------------------
(***************************************************************************)
(* The registry half of internal/store: the rows of `nodes` and `clients`, *)
(* the tunnel address each row holds, and the transactions of concurrent   *)
(* HTTP handlers that create, enrol, approve, reject and delete them.      *)
(*                                                                         *)
(* A transaction runs at READ COMMITTED, so a handler is modelled by the   *)
(* statements between which another handler's commit can fall: the row     *)
(* lock of SELECT ... FOR UPDATE, the advisory lock of AllocateIP, the     *)
(* query for used addresses, and the write that commits.  What a           *)
(* transaction writes is invisible until it commits, so the write and the  *)
(* commit are one step.                                                    *)
(***************************************************************************)
EXTENDS Naturals

CONSTANTS
    NodeIds,      \* uuids the `nodes` table may use (bounds the creations)
    ClientIds,    \* uuids the `clients` table may use
    Keys,         \* public keys that nodes generate for themselves
    Tokens,       \* enrolment tokens newToken may draw, each at most once
    Handlers,     \* HTTP requests in flight
    HubId,        \* the is_hub row the first boot created
    Network,      \* lowest address of hub.pool_cidr
    Broadcast,    \* highest address of hub.pool_cidr
    HubAddr,      \* hub.address
    Nil           \* SQL NULL

ASSUME PoolAssumption ==
    /\ Network \in Nat /\ Broadcast \in Nat /\ HubAddr \in Nat
    /\ HubId \in NodeIds
    /\ Nil \notin Nat \cup NodeIds \cup ClientIds \cup Keys \cup Tokens \cup Handlers

VARIABLES
    nodes,      \* table nodes
    clients,    \* table clients
    allocLock,  \* the handler holding pg_advisory_xact_lock(allocLockKey)
    rowLock,    \* the handler holding a FOR UPDATE lock on a nodes row
    tx,         \* the open transaction of each handler
    issued      \* tokens newToken has returned

vars == <<nodes, clients, allocLock, rowLock, tx, issued>>

---------------------------------------------------------------------------
(* Addresses.                                                              *)

HostsAndBroadcast == {a \in Network..Broadcast : a # Network}

\* The addresses AllocateIP may hand out: neither .0 nor the broadcast.
Hosts == {a \in Network..Broadcast : a # Network /\ a # Broadcast}

\* What an address column may hold.
Address == (Network + 1)..(Broadcast - 1) \cup {HubAddr, Nil}

Stored == {"pending", "active", "rejected"}

Exists(n) == nodes[n].status \in Stored
Live(c)   == clients[c].status = "stored"

NodeAddrs   == {nodes[n].addr : n \in {m \in NodeIds : Exists(m) /\ nodes[m].addr # Nil}}
ClientAddrs == {clients[c].addr : c \in {d \in ClientIds : Live(d)}}

UsedButHub     == NodeAddrs \cup ClientAddrs
UsedByTheLive  == {HubAddr} \cup ClientAddrs
                  \cup {nodes[n].addr : n \in {m \in NodeIds : nodes[m].status = "active"}}

\* An address is used while any row holds it, whatever the row's status.
Used == {HubAddr} \cup NodeAddrs \cup ClientAddrs

Free == Hosts \ Used

---------------------------------------------------------------------------
(* Rows and transactions.                                                  *)

NodeRow == [status : Stored \cup {"unused", "deleted"}, addr : Address,
            key : Keys \cup {Nil}, token : Tokens \cup {Nil}, hub : BOOLEAN]

ClientRow == [status : {"unused", "stored", "deleted"}, addr : Address]

Tx == [pc    : {"idle", "lock", "read", "write", "insert", "reannounce"},
       op    : {"none", "createNode", "createClient", "approve", "enroll"},
       node  : NodeIds \cup {Nil},
       client: ClientIds \cup {Nil},
       addr  : Address,
       key   : Keys \cup {Nil},
       token : Tokens \cup {Nil}]

UnusedRow == [status |-> "unused", addr |-> Nil, key |-> Nil, token |-> Nil, hub |-> FALSE]

Idle == [pc |-> "idle", op |-> "none", node |-> Nil, client |-> Nil,
         addr |-> Nil, key |-> Nil, token |-> Nil]

\* The row EnsureHubNode inserts: the hub's own address, no keys, no token.
HubRow == [status |-> "active", addr |-> HubAddr, key |-> Nil, token |-> Nil,
           hub |-> TRUE]

\* gen_random_uuid never repeats: an id is drawn by one INSERT and never reused.
FreshNode(n) == nodes[n].status = "unused" /\ \A h \in Handlers : tx[h].node # n
FreshClient(c) == clients[c].status = "unused" /\ \A h \in Handlers : tx[h].client # c

\* FOR UPDATE, UPDATE and DELETE wait for a row that another transaction locked.
Unlocked(n) == rowLock[n] = Nil

\* The end of h's transaction, commit or rollback: its locks go with it.
End(h) ==
    /\ tx' = [tx EXCEPT ![h] = Idle]
    /\ allocLock' = IF allocLock = h THEN Nil ELSE allocLock
    /\ rowLock' = [n \in NodeIds |-> IF rowLock[n] = h THEN Nil ELSE rowLock[n]]

Init ==
    /\ nodes = [n \in NodeIds |->
                  IF n = HubId THEN HubRow
                  ELSE UnusedRow]
    /\ clients = [c \in ClientIds |-> [status |-> "unused", addr |-> Nil]]
    /\ allocLock = Nil
    /\ rowLock = [n \in NodeIds |-> Nil]
    /\ tx = [h \in Handlers |-> Idle]
    /\ issued = {}

---------------------------------------------------------------------------
(* AllocateIP, run inside the transaction of a create or an approve.       *)

AcquireAllocLock(h) ==
    /\ tx[h].pc = "lock"
    /\ allocLock = Nil
    /\ allocLock' = h
    /\ tx' = [tx EXCEPT ![h].pc = "read"]
    /\ UNCHANGED <<nodes, clients, rowLock, issued>>

\* The lowest free host address of the pool.
PickAddress(h) ==
    /\ tx[h].pc = "read"
    /\ \E a \in Free :
         /\ \A b \in Free : a <= b
         /\ tx' = [tx EXCEPT ![h] = [@ EXCEPT !.pc = "write", !.addr = a]]
    /\ UNCHANGED <<nodes, clients, allocLock, rowLock, issued>>

ExhaustedKeepsLock(h) ==
    /\ tx[h].pc = "read"
    /\ Free = {}
    /\ tx' = [tx EXCEPT ![h] = Idle]
    /\ rowLock' = [n \in NodeIds |-> IF rowLock[n] = h THEN Nil ELSE rowLock[n]]
    /\ UNCHANGED <<nodes, clients, allocLock, issued>>

\* "pool %s exhausted": the error rolls the caller's transaction back.
PoolExhausted(h) ==
    /\ tx[h].pc = "read"
    /\ Free = {}
    /\ End(h)
    /\ UNCHANGED <<nodes, clients, issued>>

---------------------------------------------------------------------------
(* CreateNode and CreateClient: allocate, then insert.                     *)

BeginCreateNode(h, n) ==
    /\ tx[h].pc = "idle"
    /\ FreshNode(n)
    /\ tx' = [tx EXCEPT ![h] = [Idle EXCEPT !.pc = "lock", !.op = "createNode", !.node = n]]
    /\ UNCHANGED <<nodes, clients, allocLock, rowLock, issued>>

\* The panel generates the keypair, so the row carries no node-made key.
InsertNode(h) ==
    /\ tx[h].pc = "write" /\ tx[h].op = "createNode"
    /\ nodes' = [nodes EXCEPT ![tx[h].node] =
                   [status |-> "active", addr |-> tx[h].addr, key |-> Nil,
                    token |-> Nil, hub |-> FALSE]]
    /\ End(h)
    /\ UNCHANGED <<clients, issued>>

BeginCreateClient(h, c) ==
    /\ tx[h].pc = "idle"
    /\ FreshClient(c)
    /\ tx' = [tx EXCEPT ![h] = [Idle EXCEPT !.pc = "lock", !.op = "createClient", !.client = c]]
    /\ UNCHANGED <<nodes, clients, allocLock, rowLock, issued>>

InsertClient(h) ==
    /\ tx[h].pc = "write" /\ tx[h].op = "createClient"
    /\ clients' = [clients EXCEPT ![tx[h].client] = [status |-> "stored", addr |-> tx[h].addr]]
    /\ End(h)
    /\ UNCHANGED <<nodes, issued>>

---------------------------------------------------------------------------
(* ApproveNode.  The SELECT waits for the row lock; a row that is active   *)
(* and holds an address commits at once and changes nothing.               *)

ApproveUnlocked(h, n) ==
    /\ tx[h].pc = "idle"
    /\ Exists(n)
    /\ ~ (nodes[n].status = "active" /\ nodes[n].addr # Nil)
    /\ tx' = [tx EXCEPT ![h] = [Idle EXCEPT !.pc = "lock", !.op = "approve", !.node = n]]
    /\ UNCHANGED <<nodes, clients, allocLock, rowLock, issued>>

BeginApprove(h, n) ==
    /\ tx[h].pc = "idle"
    /\ Exists(n)
    /\ Unlocked(n)
    /\ ~ (nodes[n].status = "active" /\ nodes[n].addr # Nil)
    /\ rowLock' = [rowLock EXCEPT ![n] = h]
    /\ tx' = [tx EXCEPT ![h] = [Idle EXCEPT !.pc = "lock", !.op = "approve", !.node = n]]
    /\ UNCHANGED <<nodes, clients, allocLock, issued>>

\* A new address is written even over one an earlier approval left behind.
ActivateNode(h) ==
    /\ tx[h].pc = "write" /\ tx[h].op = "approve"
    /\ nodes' = [nodes EXCEPT ![tx[h].node] =
                   [@ EXCEPT !.addr = tx[h].addr, !.status = "active"]]
    /\ End(h)
    /\ UNCHANGED <<clients, issued>>

---------------------------------------------------------------------------
(* EnrollNode: look the public key up, then re-announce or insert.         *)

Enrolled(k) == {n \in NodeIds : Exists(n) /\ nodes[n].key = k}

\* No such row, and nothing to lock: the INSERT is a later statement.
LookupUnknownKey(h, k, n, t) ==
    /\ tx[h].pc = "idle"
    /\ Enrolled(k) = {}
    /\ FreshNode(n)
    /\ t \in Tokens \ issued
    /\ issued' = issued \cup {t}
    /\ tx' = [tx EXCEPT ![h] = [Idle EXCEPT !.pc = "insert", !.op = "enroll",
                                            !.node = n, !.key = k, !.token = t]]
    /\ UNCHANGED <<nodes, clients, allocLock, rowLock>>

InsertPending(h) ==
    /\ tx[h].pc = "insert"
    /\ nodes' = [nodes EXCEPT ![tx[h].node] =
                   [status |-> "pending", addr |-> Nil, key |-> tx[h].key,
                    token |-> tx[h].token, hub |-> FALSE]]
    /\ End(h)
    /\ UNCHANGED <<clients, issued>>

NewToken(n) == Tokens \ issued

\* The token the row has or, when it has none, one that newToken draws.
KeptToken(n) == IF nodes[n].token = Nil THEN Tokens \ issued ELSE {nodes[n].token}

\* FOR UPDATE locks every row it returns; the first one is scanned.
LookupKnownKey(h, k, n) ==
    /\ tx[h].pc = "idle"
    /\ n \in Enrolled(k)
    /\ \A m \in Enrolled(k) : Unlocked(m)
    /\ rowLock' = [m \in NodeIds |-> IF m \in Enrolled(k) THEN h ELSE rowLock[m]]
    /\ \E t \in KeptToken(n) :
         /\ issued' = issued \cup {t}
         /\ tx' = [tx EXCEPT ![h] = [Idle EXCEPT !.pc = "reannounce", !.op = "enroll",
                                                 !.node = n, !.key = k, !.token = t]]
    /\ UNCHANGED <<nodes, clients, allocLock>>

BackToActive(s) == IF s = "rejected" THEN "active" ELSE s

\* A refused node that announces itself again goes back to the admin.
ReannouncedStatus(s) == IF s = "rejected" THEN "pending" ELSE s

Reannounce(h) ==
    /\ tx[h].pc = "reannounce"
    /\ LET n == tx[h].node IN
         nodes' = [nodes EXCEPT ![n] = [@ EXCEPT !.token = tx[h].token,
                                                 !.status = ReannouncedStatus(nodes[n].status)]]
    /\ End(h)
    /\ UNCHANGED <<clients, issued>>

---------------------------------------------------------------------------
(* Single statements: each waits for a lock on its row, then commits.      *)

\* The address stays in the row, and so stays used.
RejectNode(n) ==
    /\ Exists(n) /\ Unlocked(n)
    /\ nodes' = [nodes EXCEPT ![n].status = "rejected"]
    /\ UNCHANGED <<clients, allocLock, rowLock, tx, issued>>

DeleteNode(n) ==
    /\ Exists(n) /\ Unlocked(n)
    /\ nodes' = [nodes EXCEPT ![n] = [UnusedRow EXCEPT !.status = "deleted"]]
    /\ UNCHANGED <<clients, allocLock, rowLock, tx, issued>>

DeleteClient(c) ==
    /\ Live(c)
    /\ clients' = [clients EXCEPT ![c] = [status |-> "deleted", addr |-> Nil]]
    /\ UNCHANGED <<nodes, allocLock, rowLock, tx, issued>>

---------------------------------------------------------------------------
(* Failure.                                                                *)

\* A statement fails (nodes.name is UNIQUE), the request's context is
\* cancelled or the connection is lost: PostgreSQL rolls back.
Rollback(h) ==
    /\ tx[h].pc # "idle"
    /\ End(h)
    /\ UNCHANGED <<nodes, clients, issued>>

HubNodes == {n \in NodeIds : Exists(n) /\ nodes[n].hub}

\* The panel process dies and boots again: every open transaction is rolled
\* back and EnsureHubNode inserts the hub's row when an admin deleted it.
Restart ==
    /\ tx' = [h \in Handlers |-> Idle]
    /\ allocLock' = Nil
    /\ rowLock' = [n \in NodeIds |-> Nil]
    /\ \/ HubNodes # {} /\ UNCHANGED nodes
       \/ /\ HubNodes = {}
          /\ \E n \in NodeIds : /\ nodes[n].status = "unused"
                                /\ nodes' = [nodes EXCEPT ![n] = HubRow]
    /\ UNCHANGED <<clients, issued>>

---------------------------------------------------------------------------
\* The statement a handler's open transaction executes next.
NextStatement(h) ==
    \/ PickAddress(h) \/ PoolExhausted(h)
    \/ InsertNode(h) \/ InsertClient(h) \/ ActivateNode(h)
    \/ InsertPending(h) \/ Reannounce(h)

Next ==
    \/ \E h \in Handlers : AcquireAllocLock(h) \/ NextStatement(h) \/ Rollback(h)
    \/ \E h \in Handlers, n \in NodeIds : BeginCreateNode(h, n) \/ BeginApprove(h, n)
    \/ \E h \in Handlers, c \in ClientIds : BeginCreateClient(h, c)
    \/ \E h \in Handlers, k \in Keys, n \in NodeIds :
         \/ LookupKnownKey(h, k, n)
         \/ \E t \in Tokens : LookupUnknownKey(h, k, n, t)
    \/ \E n \in NodeIds : RejectNode(n) \/ DeleteNode(n)
    \/ \E c \in ClientIds : DeleteClient(c)
    \/ Restart

Spec == Init /\ [][Next]_vars

\* PostgreSQL runs the statements of an open transaction, and hands an advisory
\* lock to its waiters in the order they came; no admin has to do anything.
Fairness == \A h \in Handlers : /\ WF_vars(NextStatement(h))
                                /\ SF_vars(AcquireAllocLock(h))

FairSpec == Spec /\ Fairness

---------------------------------------------------------------------------
(* Properties.                                                             *)

\* The tables, the locks and the open transactions have the shapes the schema
\* and the store's functions give them.
TypeOK ==
    /\ nodes \in [NodeIds -> NodeRow]
    /\ clients \in [ClientIds -> ClientRow]
    /\ allocLock \in Handlers \cup {Nil}
    /\ rowLock \in [NodeIds -> Handlers \cup {Nil}]
    /\ tx \in [Handlers -> Tx]
    /\ issued \subseteq Tokens

\* AllocateIP and its callers (alloc.go:15-18): no two rows, of one table or of
\* both, hold the same tunnel address, whatever handlers run at the same time and
\* whatever rows were rejected, deleted or approved again; nodes.address and
\* clients.address are each UNIQUE, but nothing in the schema spans both.
AddressesUnique ==
    /\ \A m, n \in NodeIds :
         Exists(m) /\ Exists(n) /\ m # n /\ nodes[m].addr # Nil => nodes[m].addr # nodes[n].addr
    /\ \A c, d \in ClientIds : Live(c) /\ Live(d) /\ c # d => clients[c].addr # clients[d].addr
    /\ \A n \in NodeIds, c \in ClientIds : Exists(n) /\ Live(c) => nodes[n].addr # clients[c].addr

\* AllocateIP seeds its used set with hub.address: only the row of the hub itself
\* ever holds that address, also after the hub's row was deleted and boot put a
\* new one in (hub_node.go:23-47).
HubAddressReserved ==
    /\ \A n \in NodeIds : Exists(n) /\ nodes[n].addr = HubAddr => nodes[n].hub
    /\ \A c \in ClientIds : Live(c) => clients[c].addr # HubAddr

\* ApproveNode (enroll.go:131-133): while a node stays active its address stays,
\* so a second approval that overlaps the first cannot move a peer whose config
\* has been handed out.
ActiveAddressStable ==
    [][\A n \in NodeIds :
         nodes[n].status = "active" /\ nodes'[n].status = "active"
           => nodes'[n].addr = nodes[n].addr]_vars

\* EnrollNode keeps the token a row has (enroll.go:52): the agent polls with the
\* first one it was given, and takes an unknown token for a deleted node.
TokenNeverReplaced ==
    [][\A n \in NodeIds :
         Exists(n) /\ Exists(n)' /\ nodes[n].token # Nil
           => nodes'[n].token = nodes[n].token]_vars

\* The admin's approval is the gate (handlers_enroll.go:21-22): a row that awaits
\* approval or was refused becomes active only in a transaction of ApproveNode.
ApprovalIsTheGate ==
    [][\A n \in NodeIds :
         nodes[n].status \in {"pending", "rejected"} /\ nodes'[n].status = "active"
           => \E h \in Handlers : tx[h].op = "approve" /\ tx[h].node = n]_vars

\* Every transaction ends: the advisory lock and the row locks are taken in an
\* order no two handlers can close into a circle, and each error path gives them
\* back (pgx.BeginFunc).
TransactionsEnd ==
    \A h \in Handlers : tx[h].pc # "idle" ~> tx[h].pc = "idle"
===========================================================================
