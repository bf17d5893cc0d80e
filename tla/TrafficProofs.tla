--------------------------- MODULE TrafficProofs ---------------------------
(***************************************************************************)
(* Proofs about Traffic, for every set of devices, nodes, rules, LANs and   *)
(* kinds of packet, and any number of SetNodeLink calls in flight.  Only    *)
(* the tables need an invariant: what the renderers make of them is a       *)
(* function of the state.                                                   *)
(***************************************************************************)
EXTENDS Traffic, TLAPS

\* What SetNodeLink has checked and nothing can change any more.
Checked(l) == l[1] # l[2] /\ HubNode \notin {l[1], l[2]}

RequestInv == \A h \in Requests : req[h] # Nil => Checked(req[h])

\* Only the hub's node has the default route for a LAN.
LanInv == \A n \in Nodes \ {HubNode} : lan[n] \subseteq Subnets

IInv == TrafficTypeOK /\ RequestInv /\ LanInv

---------------------------------------------------------------------------
(* The tables.                                                             *)

\* A commit keeps the types of the store's tables.
LEMMA StoreTypes ==
    ASSUME StoreTypeOK, StoreNext
    PROVE  StoreTypeOK'
<1> USE DEF StoreTypeOK, Pairs
<1>1. ASSUME NEW c \in Clients, CreateClient(c) \/ \E s \in {"enabled", "disabled"} : UpdateClient(c, s)
      PROVE  StoreTypeOK'
  BY <1>1 DEF CreateClient, UpdateClient
<1>2. ASSUME NEW n \in Nodes, NEW s \in {"active", "inactive"}, SetNodeStatus(n, s)
      PROVE  StoreTypeOK'
  BY <1>2 DEF SetNodeStatus
<1>3. ASSUME NEW t \in Target, Delete(t)
      PROVE  StoreTypeOK'
  BY <1>3 DEF Delete, Allowed
<1>4. ASSUME NEW g \in Pairs, SetGrant(g)
      PROVE  StoreTypeOK'
  BY <1>4 DEF SetGrant, Allowed, Unlimited
<1>5. ASSUME NEW g \in Pairs, NEW R \in SUBSET Rules, SetGrantRules(g, R)
      PROVE  StoreTypeOK'
  <2>1. PICK kept \in SUBSET access[g] : access' = [access EXCEPT ![g] = R \cup kept]
    BY <1>5 DEF SetGrantRules
  <2>2. access[g] \in SUBSET Rules
    BY <1>5 DEF SetGrantRules, Granted, Allowed
  <2> QED
    BY <1>5, <2>1, <2>2 DEF SetGrantRules, Allowed
<1>6. ASSUME NEW g \in Pairs, NEW on \in BOOLEAN, SetGrantExit(g, on)
      PROVE  StoreTypeOK'
  BY <1>6 DEF SetGrantExit
<1> QED
  BY <1>1, <1>2, <1>3, <1>4, <1>5, <1>6, Zenon DEF StoreNext

\* The invariant holds to begin with, when the hub's node is the only one with a LAN.
LEMMA TrafficStart == TrafficInit => IInv
<1> SUFFICES ASSUME TrafficInit PROVE IInv
  OBVIOUS
<1>1. StoreTypeOK
  BY DEF TrafficInit, StoreInit, StoreTypeOK, Allowed, NoAccess, Pairs
<1>2. lan \in [Nodes -> SUBSET (Subnets \cup {Addresses})]
  BY DEF TrafficInit
<1> QED
  BY <1>1, <1>2 DEF IInv, TrafficTypeOK, RequestInv, LanInv, TrafficInit

\* A deletion takes the links of the node with it.
LEMMA StoreKeeps ==
    ASSUME IInv, StoreStep
    PROVE  IInv'
<1>1. StoreTypeOK'
  BY StoreTypes DEF IInv, TrafficTypeOK, StoreStep
<1>2. lan' \in [Nodes -> SUBSET (Subnets \cup {Addresses})]
  BY DEF IInv, TrafficTypeOK, StoreStep
<1>3. \A l \in links' : l \in links /\ Exists(l[1])' /\ Exists(l[2])'
  <2> SUFFICES ASSUME NEW l \in links' PROVE l \in links /\ Exists(l[1])' /\ Exists(l[2])'
    OBVIOUS
  <2>1. l \in links /\ node'[l[1]] # "gone" /\ node'[l[2]] # "gone"
    BY DEF StoreStep
  <2>2. l[1] \in Nodes /\ l[2] \in Nodes
    BY <2>1 DEF IInv, TrafficTypeOK
  <2> QED
    BY <2>1, <2>2 DEF Exists
<1> QED
  BY <1>1, <1>2, <1>3 DEF IInv, TrafficTypeOK, RequestInv, LanInv, Checked, StoreStep

\* While the tables of AccessStore stay as they are, so does what exists.
LEMMA SameRows ==
    ASSUME UNCHANGED dbVars
    PROVE  (StoreTypeOK' <=> StoreTypeOK) /\ \A t : Exists(t)' <=> Exists(t)
BY DEF dbVars, StoreTypeOK, Exists, Granted

\* A request inserts what it has checked, if the two nodes are still there.
LEMMA RequestsKeep ==
    ASSUME IInv, NEW h \in Requests, InsertLink(h) \/ \E a, b \in Nodes : CheckLink(h, a, b)
    PROVE  IInv'
<1>1. UNCHANGED <<dbVars, lan>>
  BY DEF InsertLink, CheckLink
<1>2. (StoreTypeOK' <=> StoreTypeOK) /\ \A t : Exists(t)' <=> Exists(t)
  BY <1>1, SameRows
<1>3. CASE InsertLink(h)
  <2>1. req[h] \in Nodes \X Nodes /\ Checked(req[h])
    BY <1>3 DEF InsertLink, IInv, TrafficTypeOK, RequestInv
  <2>2. \A l \in links' : l \in links \/ (l = req[h] /\ Exists(l[1]) /\ Exists(l[2]))
    BY <1>3 DEF InsertLink
  <2>3. req' = [req EXCEPT ![h] = Nil]
    BY <1>3 DEF InsertLink
  <2> QED
    BY <1>1, <1>2, <2>1, <2>2, <2>3 DEF IInv, TrafficTypeOK, RequestInv, LanInv, Checked
<1>4. ASSUME NEW a \in Nodes, NEW b \in Nodes, CheckLink(h, a, b) PROVE IInv'
  <2>1. req' = [req EXCEPT ![h] = <<a, b>>] /\ links' = links /\ Checked(<<a, b>>)
    BY <1>4 DEF CheckLink, Checked
  <2> QED
    BY <1>1, <1>2, <2>1 DEF IInv, TrafficTypeOK, RequestInv, LanInv, Checked
<1> QED
  BY <1>3, <1>4

\* A link that is deleted leaves the others as they are.
LEMMA DeletionKeeps ==
    ASSUME IInv, NEW l \in links, DeleteNodeLink(l)
    PROVE  IInv'
<1>1. UNCHANGED <<dbVars, lan, req>> /\ links' = links \ {l}
  BY DEF DeleteNodeLink
<1>2. (StoreTypeOK' <=> StoreTypeOK) /\ \A t : Exists(t)' <=> Exists(t)
  BY <1>1, SameRows
<1> QED
  BY <1>1, <1>2 DEF IInv, TrafficTypeOK, RequestInv, LanInv, Checked

\* A node announces LANs, and never becomes the hub's by that.
LEMMA AnnounceKeeps ==
    ASSUME IInv, NEW n \in Nodes, NEW S \in SUBSET Subnets, Announce(n, S)
    PROVE  IInv'
<1>1. UNCHANGED <<dbVars, links, req>> /\ lan' = [lan EXCEPT ![n] = S]
  BY DEF Announce
<1>2. (StoreTypeOK' <=> StoreTypeOK) /\ \A t : Exists(t)' <=> Exists(t)
  BY <1>1, SameRows
<1> QED
  BY <1>1, <1>2 DEF IInv, TrafficTypeOK, RequestInv, LanInv, Checked

\* Every step of the specification keeps the invariant.
LEMMA TrafficInduction ==
    ASSUME IInv, [TrafficNext]_<<dbVars, trafficVars>>
    PROVE  IInv'
<1>1. CASE StoreStep
  BY <1>1, StoreKeeps
<1>2. ASSUME NEW n \in Nodes, NEW S \in SUBSET Subnets, Announce(n, S) PROVE IInv'
  BY <1>2, AnnounceKeeps
<1>3. ASSUME NEW h \in Requests, InsertLink(h) \/ \E a, b \in Nodes : CheckLink(h, a, b) PROVE IInv'
  BY <1>3, RequestsKeep
<1>4. ASSUME NEW l \in links, DeleteNodeLink(l) PROVE IInv'
  BY <1>4, DeletionKeeps
<1>5. CASE UNCHANGED <<dbVars, trafficVars>>
  <2>1. (StoreTypeOK' <=> StoreTypeOK) /\ \A t : Exists(t)' <=> Exists(t)
    BY <1>5, SameRows
  <2> QED
    BY <1>5, <2>1 DEF trafficVars, IInv, TrafficTypeOK, RequestInv, LanInv, Checked
<1> QED
  BY <1>1, <1>2, <1>3, <1>4, <1>5 DEF TrafficNext

\* The tables keep their invariant.
LEMMA TablesInvariant == TrafficSpec => []IInv
BY TrafficStart, TrafficInduction, PTL DEF TrafficSpec

\* SetNodeLink checks and inserts in two steps, with anything in between: a link
\* still joins two different nodes that exist, and never the hub's.
THEOREM TrafficTypeCorrect == TrafficSpec => []TrafficTypeOK
<1>1. IInv => TrafficTypeOK
  BY DEF IInv
<1> QED
  BY <1>1, TablesInvariant, PTL

---------------------------------------------------------------------------
(* The filter.                                                             *)

\* RenderNFT names the source in every line, and Snapshot gives it no source that is
\* not approved: whatever grants and links a rejected node or a disabled device has,
\* no packet from it passes.
LEMMA SourcesAreApproved ==
    ASSUME TrafficTypeOK, NEW p, Forwards(p)
    PROVE  \/ p.src \in Clients /\ client[p.src] = "enabled"
           \/ p.src \in Homes
           \/ \E n \in Homes : p.src \in Lan(n)
<1>1. CASE p.src \in Clients /\ \E n \in Nodes : Live(<<p.src, n>>)
  BY <1>1 DEF Live
<1>2. ASSUME NEW l \in LiveLinks, LinkAccepts(l, p)
      PROVE  p.src \in Homes \/ \E n \in Homes : p.src \in Lan(n)
  <2>1. l[1] \in Nodes /\ l[1] # HubNode /\ Active(l[1])
    BY DEF LiveLinks, TrafficTypeOK
  <2>2. l[1] \in Homes
    BY <2>1 DEF Homes
  <2> QED
    BY <1>2, <2>2 DEF LinkAccepts
<1> QED
  BY <1>1, <1>2 DEF Forwards

\* So it is in every state of the specification.
THEOREM UnapprovedPassNothing == TrafficSpec => []NoTrafficUnapproved
<1>1. TrafficTypeOK => NoTrafficUnapproved
  <2> SUFFICES ASSUME TrafficTypeOK,
                      NEW p \in [src : Addresses, dst : Addresses, wan : BOOLEAN, kind : Kinds],
                      Forwards(p)
               PROVE  p.src \in {c \in Clients : client[c] = "enabled"} \cup Homes
                                  \cup UNION {Lan(n) : n \in Homes}
    BY DEF NoTrafficUnapproved
  <2> QED
    BY SourcesAreApproved
<1> QED
  BY <1>1, TrafficTypeCorrect, PTL

\* An exit's line of RenderNFT leaves the LANs and the pool out, and the lines of the
\* grant itself do not depend on it: for such a packet the filter does not depend on
\* the exits at all.
LEMMA MeshIsApartFromExits ==
    ASSUME UNCHANGED <<client, node, access, lan, links>>,
           NEW p, p.dst \in Mesh, ~ p.wan
    PROVE  Forwards(p)' <=> Forwards(p)
<1>1. Homes' = Homes /\ (\A n : Lan(n)' = Lan(n) /\ (Active(n)' <=> Active(n)))
  BY DEF Homes, Lan, Active
<1>2. Mesh' = Mesh
  BY <1>1 DEF Mesh, Pool
<1>3. \A g : Live(g)' <=> Live(g)
  BY <1>1 DEF Live, Granted
<1>4. \A g : GrantAccepts(g, p)' <=> GrantAccepts(g, p)
  BY <1>1, <1>2 DEF GrantAccepts, RuleAccepts
<1>5. LiveLinks' = LiveLinks
  BY <1>1 DEF LiveLinks
<1>6. \A l : LinkAccepts(l, p)' <=> LinkAccepts(l, p)
  BY <1>1 DEF LinkAccepts
<1> QED
  BY <1>3, <1>4, <1>5, <1>6 DEF Forwards

\* "Send my internet out this node" does not mean "give me every other site": no step
\* that switches exits opens or closes the way to a LAN or to another device.
THEOREM ExitsOpenNoLan == TrafficSpec => ExitOpensNoLan
<1> DEFINE Step == exits' # exits /\ UNCHANGED <<client, node, access, lan, links>> =>
         \A p \in Packet : ~ p.wan /\ (p.dst \in Pool \/ \E n \in Homes : p.dst \in Lan(n))
           => (Forwards(p)' <=> Forwards(p))
<1>1. Step
  BY MeshIsApartFromExits DEF Mesh
<1> QED
  BY <1>1, PTL DEF ExitOpensNoLan

---------------------------------------------------------------------------
(* The four renderers together.                                            *)

\* No LAN holds a tunnel address.  Nothing in the code checks this, as nothing
\* checks that LANs do not overlap.
PoolApart == \A S \in Subnets : S \cap Pool = {}

\* Then cryptokey routing gives an address of a LAN to the one peer behind it.
LEMMA OnePeerPerHost ==
    ASSUME IInv, PoolApart, LansApart, NEW n \in Homes, NEW h \in Lan(n)
    PROVE  HubPeers(h) = {n} /\ h \in Addresses /\ lan[n] # {}
<1>1. \A m \in Homes : m \in Nodes /\ lan[m] \subseteq Subnets
  BY DEF Homes, IInv, LanInv
<1>2. PICK S \in lan[n] : h \in S
  BY DEF Lan
<1>3. h \notin Pool
  BY <1>1, <1>2 DEF PoolApart
<1>4. \A m \in Homes : h \in {m} \cup Lan(m) => m = n
  <2> SUFFICES ASSUME NEW m \in Homes, h \in Lan(m), m # n PROVE FALSE
    BY <1>1, <1>3 DEF Pool
  <2>1. PICK T \in lan[m] : h \in T
    BY DEF Lan
  <2> QED
    BY <1>2, <2>1 DEF LansApart, Overlap
<1> QED
  BY <1>1, <1>2, <1>3, <1>4 DEF HubPeers, Pool, Addresses

\* What a grant without rules, or a rule of a grant, allows is in the device's config,
\* passes the filter, and its answer is in the node's config.
LEMMA GrantArrives ==
    ASSUME IInv, PoolApart, LansApart, NEW g \in Pairs, Live(g), g[2] # HubNode,
           NEW k, NEW h \in Lan(g[2]),
           access[g] = Unlimited \/ \E r \in access[g] : RuleAccepts(r, ToLan(g[1], h, k))
    PROVE  Arrives(g[1], g[2], ToLan(g[1], h, k))
<1> DEFINE p == ToLan(g[1], h, k)
<1>1. p.src = g[1] /\ p.dst = h
  BY DEF ToLan
<1>2. g[1] \in Clients /\ g[2] \in Homes /\ g = <<g[1], g[2]>>
  BY DEF Pairs, Live, Homes
<1>3. HubPeers(h) = {g[2]} /\ h \in Addresses
  BY <1>2, OnePeerPerHost
<1>4. h \in ClientTunnel(g[1])
  <2>1. g \in {x \in Granted : x[1] = g[1] /\ Active(x[2])}
    BY DEF Live
  <2>2. h \in Dests(g)
    BY <1>1 DEF Dests, RuleAccepts
  <2>3. h \in IF g \in exits /\ g[2] # HubNode THEN Addresses ELSE Dests(g)
    BY <1>3, <2>2
  <2> QED
    BY <2>1, <2>3 DEF ClientTunnel
<1>5. GrantAccepts(g, p)
  BY <1>1 DEF GrantAccepts
<1>6. Forwards(p)
  <2>1. p.src \in Clients /\ g[2] \in Nodes /\ g = <<p.src, g[2]>>
    BY <1>1, <1>2 DEF Homes
  <2> QED
    BY <1>5, <2>1 DEF Forwards
<1>7. p.src \in NodeTunnel(g[2])
  BY <1>1, <1>2 DEF NodeTunnel, Pool
<1> QED
  BY <1>1, <1>3, <1>4, <1>6, <1>7 DEF Arrives

\* What a link allows goes through the configs of both nodes, there and back.
LEMMA LinkCrosses ==
    ASSUME IInv, PoolApart, LansApart, NEW l \in links, {l[1], l[2]} \subseteq Homes,
           NEW k, NEW x \in Lan(l[1]), NEW y \in Lan(l[2])
    PROVE  Crosses(l[1], l[2], ToLan(x, y, k))
<1> DEFINE p == ToLan(x, y, k)
<1>1. p.src = x /\ p.dst = y
  BY DEF ToLan
<1>2. /\ HubPeers(x) = {l[1]} /\ lan[l[1]] # {}
      /\ HubPeers(y) = {l[2]} /\ lan[l[2]] # {}
  BY OnePeerPerHost
<1>3. l \in LiveLinks
  BY <1>2 DEF LiveLinks, Homes
<1>4. Forwards(p)
  BY <1>1, <1>3 DEF Forwards, LinkAccepts
<1>5. y \in NodeTunnel(l[1])
  BY DEF NodeTunnel, Reach, ReachOfSource
<1>6. x \in NodeTunnel(l[2])
  BY DEF NodeTunnel, Reach
<1> QED
  BY <1>1, <1>2, <1>4, <1>5, <1>6 DEF Crosses

\* The four renderers agree, whatever has been granted, linked, announced, rejected
\* and deleted before: where LANs overlap neither each other nor the pool, what a grant
\* or a link allows arrives.
THEOREM GrantedArrives ==
    ASSUME PoolApart
    PROVE  TrafficSpec => []GrantedTrafficArrives
<1>1. IInv => GrantedTrafficArrives
  BY GrantArrives, LinkCrosses DEF GrantedTrafficArrives
<1> QED
  BY <1>1, TablesInvariant, PTL
=============================================================================
