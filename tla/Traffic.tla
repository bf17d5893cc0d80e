------------------------------ MODULE Traffic ------------------------------
(***************************************************************************)
(* What the grants and links of the database mean for packets.  The panel  *)
(* renders four things from it, each by a function of its own: the hub's   *)
(* peers (RenderHub), its packet filter (RenderNFT) and the configs that   *)
(* nodes and devices are given (RenderNode, RenderClient).  A packet has   *)
(* to pass all of those on its way.  Reconcile has how the first two reach *)
(* the system, NodeAgent how the third does; here all are up to date.      *)
(*                                                                         *)
(* A prefix is the set of its addresses; the tunnel address of a device or *)
(* a node is the device or node itself.  A packet starts a flow, replies   *)
(* ride on "ct state established".                                         *)
(***************************************************************************)
EXTENDS AccessStore, Naturals

CONSTANTS
    Subnets,   \* LANs a node may announce
    Internet,   \* an address of no LAN
    Kinds,      \* protocol and destination port of a packet, port 0 where it has none
    Requests    \* calls of SetNodeLink in flight

VARIABLES
    lan,        \* table node_subnets
    links,      \* table node_links, pairs of source and destination
    req         \* what SetNodeLink is about to insert

trafficVars == <<lan, links, req>>

Pool      == Clients \cup Nodes
Addresses == Pool \cup {Internet} \cup UNION Subnets
Packet    == [src : Addresses, dst : Addresses, wan : BOOLEAN, kind : Kinds]

\* Both prefixes of a rule's columns, and the CHECKs on them; 0 stands for NULL.
RuleShape(r) ==
    /\ r.dest \subseteq Addresses /\ r.proto \in {"any", "tcp", "udp"}
    /\ r.from \in Nat /\ r.to \in Nat
    /\ r.from = 0 \/ r.to = 0 \/ r.to >= r.from

ASSUME TrafficAssumption ==
    /\ HubNode \in Nodes
    /\ \A r \in Rules : RuleShape(r)
    /\ \A k \in Kinds : k.proto \in {"tcp", "udp", "icmp"} /\ (k.port > 0 <=> k.proto # "icmp")

\* EnsureHubNode gives the hub's node the subnet 0.0.0.0/0.
TrafficInit ==
    /\ StoreInit
    /\ lan = [n \in Nodes |-> IF n = HubNode THEN {Addresses} ELSE {}]
    /\ links = {}
    /\ req = [h \in Requests |-> Nil]

---------------------------------------------------------------------------
(* The tables.                                                             *)

\* A deleted node takes its LANs and links with it.
StoreStep ==
    /\ StoreNext
    /\ lan' = [n \in Nodes |-> IF node'[n] = "gone" THEN {} ELSE lan[n]]
    /\ links' = {l \in links : node'[l[1]] # "gone" /\ node'[l[2]] # "gone"}
    /\ UNCHANGED req

\* CreateNode and EnrollNode; an agent enrols again when its LAN has changed.
Announce(n, S) ==
    /\ n # HubNode /\ Exists(n) /\ S # {}
    /\ lan' = [lan EXCEPT ![n] = S]
    /\ UNCHANGED <<dbVars, links, req>>

Overlap(a, b) == \E s \in lan[a], t \in lan[b] : s \cap t # {}

\* SetNodeLink: what it checks ...
CheckLink(h, a, b) ==
    /\ req[h] = Nil
    /\ a # b /\ node[a] = "active" /\ node[b] = "active"
    /\ HubNode \notin {a, b}
    /\ lan[a] # {} /\ lan[b] # {} /\ ~ Overlap(a, b)
    /\ req' = [req EXCEPT ![h] = <<a, b>>]
    /\ UNCHANGED <<dbVars, lan, links>>

InsertAnyway(h) ==
    /\ req[h] # Nil
    /\ links' = links \cup {req[h]}
    /\ req' = [req EXCEPT ![h] = Nil]
    /\ UNCHANGED <<dbVars, lan>>

\* ... may not be so any more when it inserts: only the foreign keys are checked then.
InsertLink(h) ==
    /\ req[h] # Nil
    /\ links' = IF \A n \in {req[h][1], req[h][2]} : Exists(n) THEN links \cup {req[h]} ELSE links
    /\ req' = [req EXCEPT ![h] = Nil]
    /\ UNCHANGED <<dbVars, lan>>

DeleteNodeLink(l) ==
    /\ links' = links \ {l}
    /\ UNCHANGED <<dbVars, lan, req>>

TrafficNext ==
    \/ StoreStep
    \/ \E n \in Nodes, S \in SUBSET Subnets : Announce(n, S)
    \/ \E h \in Requests : InsertLink(h) \/ \E a, b \in Nodes : CheckLink(h, a, b)
    \/ \E l \in links : DeleteNodeLink(l)

TrafficSpec == TrafficInit /\ [][TrafficNext]_<<dbVars, trafficVars>>

---------------------------------------------------------------------------
(* What Snapshot hands to the renderers.                                   *)

Active(n) == node[n] = "active"
Homes     == {n \in Nodes : Active(n) /\ n # HubNode}
Lan(n)    == UNION lan[n]

Live(g) == g \in Granted /\ client[g[1]] = "enabled" /\ Active(g[2])

LinksOfAnyNode == {l \in links : lan[l[1]] # {} /\ lan[l[2]] # {}}

LiveLinks == {l \in links : /\ Active(l[1]) /\ lan[l[1]] # {}
                            /\ Active(l[2]) /\ lan[l[2]] # {}}

---------------------------------------------------------------------------
(* RenderNFT.                                                              *)

NoMesh == {}

\* What an exit does not open: the LANs and the pool.
Mesh == Pool \cup UNION {Lan(n) : n \in Homes}

\* nftRuleLines: a port makes "any" tcp and udp; a range needs a larger end.
RuleAccepts(r, p) ==
    /\ p.dst \in r.dest
    /\ r.proto \in {"any", p.kind.proto}
    /\ r.from > 0 => /\ p.kind.proto \in {"tcp", "udp"}
                     /\ p.kind.port \in r.from .. (IF r.to > r.from THEN r.to ELSE r.from)

\* The lines of one grant, for packets of its device; a grant of the hub's node knows
\* no rules.
GrantAccepts(g, p) ==
    IF g[2] = HubNode THEN p.wan
    ELSE \/ g \in exits /\ p.dst \notin Mesh
         \/ access[g] = Unlimited /\ p.dst \in Lan(g[2])
         \/ \E r \in access[g] : RuleAccepts(r, p)

LinkAccepts(l, p) == p.src \in {l[1]} \cup Lan(l[1]) /\ p.dst \in Lan(l[2])

Forwards(p) == \/ /\ p.src \in Clients
                  /\ \E n \in Nodes : Live(<<p.src, n>>) /\ GrantAccepts(<<p.src, n>>, p)
               \/ \E l \in LiveLinks : LinkAccepts(l, p)

---------------------------------------------------------------------------
(* RenderHub, RenderNode and RenderClient: which addresses go to, and may   *)
(* come from, each peer.                                                    *)

HubPeers(addr) == {n \in Homes : addr \in {n} \cup Lan(n)}
                    \cup {c \in Clients : client[c] = "enabled" /\ addr = c}

ReachOfSource(n) == UNION {Lan(l[2]) : l \in {x \in links : x[1] = n}}

\* nodeReachSubnets: links in both directions, one for the way, one for the way back.
Reach(n) == ReachOfSource(n) \cup UNION {Lan(l[1]) : l \in {x \in links : x[2] = n}}

NodeTunnel(n) == Pool \cup Reach(n)

Dests(g) == IF access[g] = Unlimited THEN Lan(g[2]) ELSE UNION {r.dest : r \in access[g]}

\* An exit is the whole default route; a disabled device's config is rendered too.
ClientTunnel(c) ==
    {HubNode} \cup UNION {IF g \in exits /\ g[2] # HubNode THEN Addresses ELSE Dests(g) :
                            g \in {x \in Granted : x[1] = c /\ Active(x[2])}}

---------------------------------------------------------------------------
(* Properties.                                                             *)

\* A link joins two nodes that exist and are not the hub's, whatever happened to
\* them between SetNodeLink's checks and its INSERT.
TrafficTypeOK ==
    /\ StoreTypeOK
    /\ lan \in [Nodes -> SUBSET (Subnets \cup {Addresses})]
    /\ links \subseteq {l \in Nodes \X Nodes : l[1] # l[2] /\ HubNode \notin {l[1], l[2]}}
    /\ \A l \in links : Exists(l[1]) /\ Exists(l[2])
    /\ req \in [Requests -> (Nodes \X Nodes) \cup {Nil}]

\* README.md:20: "Node subnets must not overlap".
LansApart == \A a, b \in Homes : a # b => ~ Overlap(a, b)

\* The way of a packet from the device c: its own config, the hub's filter and
\* peers, the config of the node n.
Arrives(c, n, p) == /\ p.dst \in ClientTunnel(c)
                    /\ Forwards(p)
                    /\ HubPeers(p.dst) = {n}
                    /\ p.src \in NodeTunnel(n)

\* The way of a packet between linked nodes, and of the answer; the hub takes from a
\* peer only what it would send there.
Crosses(a, b, p) == /\ p.dst \in NodeTunnel(a)
                    /\ HubPeers(p.src) = {a}
                    /\ Forwards(p)
                    /\ HubPeers(p.dst) = {b}
                    /\ p.src \in NodeTunnel(b)

ToLan(src, dst, kind) == [src |-> src, dst |-> dst, wan |-> FALSE, kind |-> kind]

\* Four renderers, one meaning (render.go, nft.go, node_links.go:140-143): what a grant
\* without rules, a rule of a grant or a link allows gets through all of them.
GrantedTrafficArrives ==
    LansApart =>
      /\ \A g \in Pairs, k \in Kinds : Live(g) /\ g[2] # HubNode =>
           \A h \in Lan(g[2]) : LET p == ToLan(g[1], h, k) IN
             access[g] = Unlimited \/ (\E r \in access[g] : RuleAccepts(r, p))
               => Arrives(g[1], g[2], p)
      /\ \A l \in links, k \in Kinds : {l[1], l[2]} \subseteq Homes =>
           \A x \in Lan(l[1]), y \in Lan(l[2]) : Crosses(l[1], l[2], ToLan(x, y, k))

\* "Send my internet out this node" must not also mean "give me every other site"
\* (nft.go:23-26): whichever exits are switched on or off, no packet into a LAN or to
\* another device begins or ceases to pass.
ExitOpensNoLan ==
    [][exits' # exits /\ UNCHANGED <<client, node, access, lan, links>> =>
         \A p \in Packet : ~ p.wan /\ (p.dst \in Pool \/ \E n \in Homes : p.dst \in Lan(n))
           => (Forwards(p)' <=> Forwards(p))]_<<dbVars, trafficVars>>

\* Grants and links outlive the approval of their node (RejectNode deletes nothing) and
\* the enabling of their device; Snapshot alone leaves them out.  Whatever they say,
\* nothing passes from a device that is not enabled, or from a node that is not active
\* and the LAN behind it.
NoTrafficUnapproved ==
    LET Approved == {c \in Clients : client[c] = "enabled"} \cup Homes \cup UNION {Lan(n) : n \in Homes}
    IN  \A src \in Addresses \ Approved :
          ~ \E p \in [src : {src}, dst : Addresses, wan : BOOLEAN, kind : Kinds] : Forwards(p)
=============================================================================
