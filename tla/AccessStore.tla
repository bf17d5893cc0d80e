---------------------------- MODULE AccessStore ----------------------------
(***************************************************************************)
(* What internal/store promises about access, one commit at a time: who    *)
(* exists, what each grant allows and which grants are internet exits.     *)
(* The module Grants, with its transactions and locks, implements it;      *)
(* Reconcile reads it.                                                     *)
(***************************************************************************)
CONSTANTS
    Clients,    \* rows the `clients` table may hold
    Nodes,      \* rows the `nodes` table may hold
    HubNode,    \* the node whose is_hub is set
    Rules,      \* access rules the editor can submit: destination, protocol, ports
    Nil

VARIABLES
    client,     \* "absent", "enabled", "disabled" or "gone", for every client
    node,       \* "inactive" (pending or rejected), "active" or "gone", for every node
    access,     \* what the grant of each pair allows
    exits       \* the grants whose exit column is true

dbVars == <<client, node, access, exits>>

Pairs == Clients \X Nodes

\* A grant allows a set of rules; with none, the whole of the node's LAN.
NoAccess  == {Nil}
Unlimited == {}
Allowed   == (SUBSET Rules) \cup {NoAccess}

Granted == {g \in Pairs : access[g] # NoAccess}

\* What a DELETE statement names: a grant, a client or a node.
Target == Pairs \cup Clients \cup Nodes

\* The grants a deletion of t removes, itself or by ON DELETE CASCADE.
Doomed(t) == {g \in Pairs : t = g \/ t = g[1] \/ t = g[2]}

Exists(t) == \/ t \in Granted
             \/ t \in Clients /\ client[t] \in {"enabled", "disabled"}
             \/ t \in Nodes /\ node[t] # "gone"

StoreInit ==
    /\ client = [c \in Clients |-> "absent"]
    /\ node = [n \in Nodes |-> IF n = HubNode THEN "active" ELSE "inactive"]
    /\ access = [g \in Pairs |-> NoAccess]
    /\ exits = {}

---------------------------------------------------------------------------
CreateClient(c) ==
    /\ client[c] = "absent"
    /\ client' = [client EXCEPT ![c] = "enabled"]
    /\ UNCHANGED <<node, access, exits>>

UpdateClient(c, status) ==
    /\ Exists(c)
    /\ client' = [client EXCEPT ![c] = status]
    /\ UNCHANGED <<node, access, exits>>

\* ApproveNode and RejectNode; a rejected node keeps its grants.
SetNodeStatus(n, status) ==
    /\ Exists(n)
    /\ node' = [node EXCEPT ![n] = status]
    /\ UNCHANGED <<client, access, exits>>

\* A new grant has no rules; one that exists is left alone.
SetGrant(g) ==
    /\ Exists(g[1]) /\ Exists(g[2])
    /\ access' = [access EXCEPT ![g] = IF @ = NoAccess THEN Unlimited ELSE @]
    /\ UNCHANGED <<client, node, exits>>

\* DeleteGrant, DeleteClient and DeleteNode: no grant keeps its rules or exit.
Delete(t) ==
    /\ Exists(t)
    /\ access' = [g \in Pairs |-> IF g \in Doomed(t) THEN NoAccess ELSE access[g]]
    /\ exits' = exits \ Doomed(t)
    /\ client' = [c \in Clients |-> IF c = t THEN "gone" ELSE client[c]]
    /\ node' = [n \in Nodes |-> IF n = t THEN "gone" ELSE node[n]]

\* The rules submitted, and some of those that were there: what a transaction that
\* overlapped this one inserted is not deleted by it.
SetGrantRules(g, R) ==
    /\ g \in Granted
    /\ \E kept \in SUBSET access[g] : access' = [access EXCEPT ![g] = R \cup kept]
    /\ UNCHANGED <<client, node, exits>>

SetGrantExit(g, on) ==
    /\ g \in Granted /\ g[2] # HubNode
    /\ exits' = IF on THEN exits \cup {g} ELSE exits \ {g}
    /\ UNCHANGED <<client, node, access>>

StoreNext ==
    \/ \E c \in Clients : \/ CreateClient(c)
                          \/ \E s \in {"enabled", "disabled"} : UpdateClient(c, s)
    \/ \E n \in Nodes \ {HubNode}, s \in {"active", "inactive"} : SetNodeStatus(n, s)
    \/ \E t \in Target : Delete(t)
    \/ \E g \in Pairs : \/ SetGrant(g)
                        \/ \E R \in SUBSET Rules : SetGrantRules(g, R)
                        \/ \E on \in BOOLEAN : SetGrantExit(g, on)

StoreSpec == StoreInit /\ [][StoreNext]_dbVars

StoreTypeOK ==
    /\ client \in [Clients -> {"absent", "enabled", "disabled", "gone"}]
    /\ node \in [Nodes -> {"inactive", "active", "gone"}]
    /\ access \in [Pairs -> Allowed]
    /\ exits \subseteq Pairs
===========================================================================
