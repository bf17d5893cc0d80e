------------------------- MODULE NodeRegistryProofs -------------------------
(***************************************************************************)
(* Proofs about NodeRegistry, for every pool, every set of rows and every  *)
(* number of concurrent handlers.                                          *)
(*                                                                         *)
(* AddressesUnique is not inductive: it says nothing of the address that a *)
(* transaction has picked and not yet written.  The invariant adds that    *)
(* only the holder of the advisory lock has picked one (LockInv), that it  *)
(* is still free (PickInv), and that the rows a transaction is about to    *)
(* write are as its lookup left them (RowInv).                             *)
(***************************************************************************)
EXTENDS NodeRegistry, TLAPS

\* Address a is neither the hub's nor held by a row.
Untaken(a) ==
    /\ a # HubAddr
    /\ \A n \in NodeIds : Exists(n) => nodes[n].addr # a
    /\ \A c \in ClientIds : Live(c) => clients[c].addr # a

\* A handler is past AllocateIP's lock exactly while it holds it.
LockInv == \A h \in Handlers : tx[h].pc \in {"read", "write"} <=> allocLock = h

\* The address picked under the lock stays free until it is written.
PickInv == \A h \in Handlers : tx[h].pc = "write" => tx[h].addr \in Hosts /\ Untaken(tx[h].addr)

\* What the lookup of h's transaction found still holds when it writes.
RowInvOf(h) ==
    /\ tx[h].pc = "idle" => tx[h] = Idle
    /\ tx[h].op = "approve" =>
         /\ tx[h].node \in NodeIds /\ rowLock[tx[h].node] = h
         /\ Exists(tx[h].node)
         /\ ~ (nodes[tx[h].node].status = "active" /\ nodes[tx[h].node].addr # Nil)
    /\ tx[h].op = "createNode" \/ tx[h].pc = "insert" =>
         /\ tx[h].node \in NodeIds /\ nodes[tx[h].node].status = "unused"
         /\ \A g \in Handlers : g # h => tx[g].node # tx[h].node
    /\ tx[h].op = "createClient" =>
         /\ tx[h].client \in ClientIds /\ clients[tx[h].client].status = "unused"
         /\ \A g \in Handlers : g # h => tx[g].client # tx[h].client
    /\ tx[h].pc = "reannounce" =>
         /\ tx[h].node \in NodeIds /\ rowLock[tx[h].node] = h
         /\ Exists(tx[h].node)
         /\ nodes[tx[h].node].token \in {Nil, tx[h].token}
    /\ tx[h].pc \in {"insert", "reannounce"} <=> tx[h].op = "enroll"

RowInv == \A h \in Handlers : RowInvOf(h)

\* Stored clients hold an address; rows that hold none yet are not active.
HeldInv ==
    /\ \A c \in ClientIds : Live(c) => clients[c].addr \in Hosts
    /\ \A n \in NodeIds : nodes[n].status = "active" => nodes[n].addr # Nil

\* What the invariant says of addresses.
AddrInv == PickInv /\ HeldInv /\ AddressesUnique /\ HubAddressReserved

IInv == TypeOK /\ LockInv /\ RowInv /\ AddrInv

---------------------------------------------------------------------------
(* Type correctness.                                                       *)

\* The end of a transaction leaves well-typed locks and transactions.
LEMMA EndType ==
    ASSUME TypeOK, NEW h \in Handlers, End(h)
    PROVE  /\ allocLock' \in Handlers \cup {Nil}
           /\ rowLock' \in [NodeIds -> Handlers \cup {Nil}]
           /\ tx' \in [Handlers -> Tx]
<1>1. Idle \in Tx
  BY DEF Idle, Tx, Address
<1> QED
  BY <1>1 DEF TypeOK, End

LEMMA HostIsAddress == Hosts \subseteq Address
BY PoolAssumption DEF Hosts, Address

LEMMA RowsTyped ==
    /\ HubRow \in NodeRow /\ UnusedRow \in NodeRow /\ Idle \in Tx
    /\ [UnusedRow EXCEPT !.status = "deleted"] \in NodeRow
BY DEF HubRow, UnusedRow, NodeRow, Idle, Tx, Address, Stored

\* Every step of the store keeps rows, locks and transactions well typed.
LEMMA TypeStep == TypeOK /\ [Next]_vars => TypeOK'
<1> SUFFICES ASSUME TypeOK, [Next]_vars PROVE TypeOK'
  OBVIOUS
<1> USE RowsTyped
<1>1. ASSUME NEW h \in Handlers, AcquireAllocLock(h) PROVE TypeOK'
  BY <1>1 DEF AcquireAllocLock, TypeOK, Tx
<1>2. ASSUME NEW h \in Handlers, PickAddress(h) PROVE TypeOK'
  <2>1. PICK a \in Hosts : tx' = [tx EXCEPT ![h] = [@ EXCEPT !.pc = "write", !.addr = a]]
    BY <1>2 DEF PickAddress, Free
  <2>2. [tx[h] EXCEPT !.pc = "write", !.addr = a] \in Tx
    BY HostIsAddress DEF TypeOK, Tx
  <2> QED
    BY <1>2, <2>1, <2>2 DEF PickAddress, TypeOK
<1>3. ASSUME NEW h \in Handlers, PoolExhausted(h) PROVE TypeOK'
  BY <1>3, EndType DEF PoolExhausted, TypeOK
<1>4. ASSUME NEW h \in Handlers, InsertNode(h) PROVE TypeOK'
  BY <1>4, EndType DEF InsertNode, TypeOK, Tx, NodeRow, Stored
<1>5. ASSUME NEW h \in Handlers, InsertClient(h) PROVE TypeOK'
  BY <1>5, EndType DEF InsertClient, TypeOK, Tx, ClientRow
<1>6. ASSUME NEW h \in Handlers, ActivateNode(h) PROVE TypeOK'
  <2> DEFINE row == [nodes[tx[h].node] EXCEPT !.addr = tx[h].addr, !.status = "active"]
  <2>1. CASE tx[h].node \in NodeIds
    <3>1. row \in NodeRow
      BY <2>1 DEF TypeOK, Tx, NodeRow, Stored
    <3>2. nodes' = [nodes EXCEPT ![tx[h].node] = row]
      BY <1>6 DEF ActivateNode
    <3> QED
      BY <1>6, <2>1, <3>1, <3>2, EndType DEF ActivateNode, TypeOK
  <2>2. CASE tx[h].node \notin NodeIds
    BY <1>6, <2>2, EndType DEF ActivateNode, TypeOK
  <2> QED
    BY <2>1, <2>2
<1>7. ASSUME NEW h \in Handlers, InsertPending(h) PROVE TypeOK'
  BY <1>7, EndType DEF InsertPending, TypeOK, Tx, NodeRow, Stored, Address
<1>8. ASSUME NEW h \in Handlers, Reannounce(h) PROVE TypeOK'
  <2> DEFINE row == [nodes[tx[h].node] EXCEPT !.token = tx[h].token,
                                              !.status = ReannouncedStatus(nodes[tx[h].node].status)]
  <2>1. CASE tx[h].node \in NodeIds
    <3>1. row \in NodeRow
      BY <2>1 DEF TypeOK, Tx, NodeRow, Stored, ReannouncedStatus
    <3>2. /\ nodes' = [nodes EXCEPT ![tx[h].node] = row]
          /\ End(h) /\ UNCHANGED <<clients, issued>>
      BY <1>8 DEF Reannounce
    <3> HIDE DEF row
    <3> QED
      BY <2>1, <3>1, <3>2, EndType DEF TypeOK
  <2>2. CASE tx[h].node \notin NodeIds
    BY <1>8, <2>2, EndType DEF Reannounce, TypeOK
  <2> QED
    BY <2>1, <2>2
<1>9. ASSUME NEW h \in Handlers, Rollback(h) PROVE TypeOK'
  BY <1>9, EndType DEF Rollback, TypeOK
<1>10. ASSUME NEW h \in Handlers, NEW n \in NodeIds, BeginCreateNode(h, n) PROVE TypeOK'
  BY <1>10 DEF BeginCreateNode, TypeOK, Tx, Idle
<1>11. ASSUME NEW h \in Handlers, NEW n \in NodeIds, BeginApprove(h, n) PROVE TypeOK'
  BY <1>11 DEF BeginApprove, TypeOK, Tx, Idle
<1>12. ASSUME NEW h \in Handlers, NEW c \in ClientIds, BeginCreateClient(h, c) PROVE TypeOK'
  BY <1>12 DEF BeginCreateClient, TypeOK, Tx, Idle
<1>13. ASSUME NEW h \in Handlers, NEW k \in Keys, NEW n \in NodeIds, LookupKnownKey(h, k, n)
       PROVE  TypeOK'
  <2>1. KeptToken(n) \subseteq Tokens
    BY <1>13, PoolAssumption DEF KeptToken, TypeOK, NodeRow
  <2>2. PICK t \in Tokens :
          /\ issued' = issued \cup {t}
          /\ tx' = [tx EXCEPT ![h] = [Idle EXCEPT !.pc = "reannounce", !.op = "enroll",
                                                  !.node = n, !.key = k, !.token = t]]
    BY <1>13, <2>1 DEF LookupKnownKey
  <2>3. tx' \in [Handlers -> Tx]
    BY <2>2 DEF TypeOK, Tx, Idle
  <2> QED
    BY <1>13, <2>2, <2>3 DEF LookupKnownKey, TypeOK
<1>14. ASSUME NEW h \in Handlers, NEW k \in Keys, NEW n \in NodeIds, NEW t \in Tokens,
              LookupUnknownKey(h, k, n, t)
       PROVE  TypeOK'
  BY <1>14 DEF LookupUnknownKey, TypeOK, Tx, Idle
<1>15. ASSUME NEW n \in NodeIds, RejectNode(n) PROVE TypeOK'
  BY <1>15 DEF RejectNode, TypeOK, NodeRow, Stored
<1>16. ASSUME NEW n \in NodeIds, DeleteNode(n) PROVE TypeOK'
  BY <1>16 DEF DeleteNode, TypeOK
<1>17. ASSUME NEW c \in ClientIds, DeleteClient(c) PROVE TypeOK'
  BY <1>17 DEF DeleteClient, TypeOK, ClientRow, Address
<1>18. CASE Restart
  BY <1>18 DEF Restart, TypeOK
<1>19. CASE UNCHANGED vars
  BY <1>19 DEF vars, TypeOK
<1> QED
  BY <1>1, <1>2, <1>3, <1>4, <1>5, <1>6, <1>7, <1>8, <1>9, <1>10, <1>11, <1>12,
     <1>13, <1>14, <1>15, <1>16, <1>17, <1>18, <1>19 DEF Next, NextStatement

LEMMA TypeInit == Init => TypeOK
BY PoolAssumption, RowsTyped DEF Init, TypeOK, ClientRow, Address

\* Every reachable state of the registry is well typed: in particular no row ever
\* holds the network or the broadcast address of the pool.
THEOREM TypeCorrect == Spec => []TypeOK
BY TypeInit, TypeStep, PTL DEF Spec

---------------------------------------------------------------------------
(* The advisory lock.                                                      *)

\* Ending a transaction gives up the lock together with the right to use it.
LEMMA EndLock ==
    ASSUME TypeOK, LockInv, NEW h \in Handlers, End(h)
    PROVE  LockInv'
BY PoolAssumption DEF TypeOK, LockInv, End, Idle

\* Only AllocateIP takes the lock, and only the end of a transaction drops it.
LEMMA LockStep == TypeOK /\ LockInv /\ [Next]_vars => LockInv'
<1> SUFFICES ASSUME TypeOK, LockInv, [Next]_vars PROVE LockInv'
  OBVIOUS
<1> USE PoolAssumption
<1>1. ASSUME NEW h \in Handlers, AcquireAllocLock(h) PROVE LockInv'
  BY <1>1 DEF AcquireAllocLock, TypeOK, LockInv
<1>2. ASSUME NEW h \in Handlers, PickAddress(h) PROVE LockInv'
  BY <1>2 DEF PickAddress, TypeOK, LockInv
<1>3. ASSUME NEW h \in Handlers,
             PoolExhausted(h) \/ InsertNode(h) \/ InsertClient(h) \/ ActivateNode(h)
               \/ InsertPending(h) \/ Reannounce(h) \/ Rollback(h)
      PROVE  LockInv'
  BY <1>3, EndLock DEF PoolExhausted, InsertNode, InsertClient, ActivateNode, InsertPending,
     Reannounce, Rollback
<1>4. ASSUME NEW h \in Handlers, NEW n \in NodeIds, BeginCreateNode(h, n) \/ BeginApprove(h, n)
      PROVE  LockInv'
  <2>1. CASE BeginCreateNode(h, n)
    BY <2>1 DEF BeginCreateNode, Idle, TypeOK, LockInv
  <2>2. CASE BeginApprove(h, n)
    BY <2>2 DEF BeginApprove, Idle, TypeOK, LockInv
  <2> QED
    BY <1>4, <2>1, <2>2
<1>5. ASSUME NEW h \in Handlers, NEW c \in ClientIds, BeginCreateClient(h, c) PROVE LockInv'
  BY <1>5 DEF BeginCreateClient, Idle, TypeOK, LockInv
<1>6. ASSUME NEW h \in Handlers, NEW k \in Keys, NEW n \in NodeIds, LookupKnownKey(h, k, n)
      PROVE  LockInv'
  BY <1>6 DEF LookupKnownKey, Idle, TypeOK, LockInv
<1>7. ASSUME NEW h \in Handlers, NEW k \in Keys, NEW n \in NodeIds, NEW t \in Tokens,
             LookupUnknownKey(h, k, n, t)
      PROVE  LockInv'
  BY <1>7 DEF LookupUnknownKey, Idle, TypeOK, LockInv
<1>8. ASSUME NEW n \in NodeIds, RejectNode(n) \/ DeleteNode(n) PROVE LockInv'
  BY <1>8 DEF RejectNode, DeleteNode, LockInv
<1>9. ASSUME NEW c \in ClientIds, DeleteClient(c) PROVE LockInv'
  BY <1>9 DEF DeleteClient, LockInv
<1>10. CASE Restart
  BY <1>10 DEF Restart, Idle, LockInv
<1>11. CASE UNCHANGED vars
  BY <1>11 DEF vars, LockInv
<1> QED
  BY <1>1, <1>2, <1>3, <1>4, <1>5, <1>6, <1>7, <1>8, <1>9, <1>10, <1>11 DEF Next, NextStatement


---------------------------------------------------------------------------
(* The rows a transaction has looked up.                                   *)

\* Every node id that a transaction works on is a row or a uuid, never NULL.
LEMMA IdsAreNotNil == Nil \notin NodeIds /\ Nil \notin ClientIds /\ Nil \notin Handlers
BY PoolAssumption

\* A transaction that ends leaves what the others looked up as it was, when the
\* rows it wrote were locked by it or drawn for it.
LEMMA RowStep == TypeOK /\ RowInv /\ [Next]_vars => RowInv'
<1> SUFFICES ASSUME TypeOK, RowInv, [Next]_vars, NEW g \in Handlers PROVE RowInvOf(g)'
  BY DEF RowInv
<1> USE IdsAreNotNil
<1>1. ASSUME NEW h \in Handlers, AcquireAllocLock(h) PROVE RowInvOf(g)'
  BY <1>1 DEF AcquireAllocLock, TypeOK, RowInv, RowInvOf, Exists
<1>2. ASSUME NEW h \in Handlers, PickAddress(h) PROVE RowInvOf(g)'
  BY <1>2 DEF PickAddress, TypeOK, RowInv, RowInvOf, Exists
<1>3. ASSUME NEW h \in Handlers, PoolExhausted(h) \/ Rollback(h) PROVE RowInvOf(g)'
  BY <1>3 DEF PoolExhausted, Rollback, End, Idle, TypeOK, RowInv, RowInvOf, Exists
<1>4. ASSUME NEW h \in Handlers, InsertNode(h) PROVE RowInvOf(g)'
  BY <1>4 DEF InsertNode, End, Idle, TypeOK, RowInv, RowInvOf, Exists, Stored
<1>5. ASSUME NEW h \in Handlers, InsertClient(h) PROVE RowInvOf(g)'
  BY <1>5 DEF InsertClient, End, Idle, TypeOK, RowInv, RowInvOf, Exists
<1>6. ASSUME NEW h \in Handlers, ActivateNode(h) PROVE RowInvOf(g)'
  BY <1>6 DEF ActivateNode, End, Idle, TypeOK, RowInv, RowInvOf, Exists, Stored
<1>7. ASSUME NEW h \in Handlers, InsertPending(h) PROVE RowInvOf(g)'
  BY <1>7 DEF InsertPending, End, Idle, TypeOK, RowInv, RowInvOf, Exists, Stored
<1>8. ASSUME NEW h \in Handlers, Reannounce(h) PROVE RowInvOf(g)'
  BY <1>8 DEF Reannounce, ReannouncedStatus, End, Idle, TypeOK, RowInv, RowInvOf, Exists, Stored
<1>9. ASSUME NEW h \in Handlers, NEW n \in NodeIds, BeginCreateNode(h, n) PROVE RowInvOf(g)'
  BY <1>9 DEF BeginCreateNode, FreshNode, Idle, TypeOK, RowInv, RowInvOf, Exists, Stored
<1>10. ASSUME NEW h \in Handlers, NEW n \in NodeIds, BeginApprove(h, n) PROVE RowInvOf(g)'
  BY <1>10 DEF BeginApprove, Unlocked, Idle, TypeOK, RowInv, RowInvOf, Exists, Stored
<1>11. ASSUME NEW h \in Handlers, NEW c \in ClientIds, BeginCreateClient(h, c) PROVE RowInvOf(g)'
  BY <1>11 DEF BeginCreateClient, FreshClient, Idle, TypeOK, RowInv, RowInvOf, Exists, Stored
<1>12. ASSUME NEW h \in Handlers, NEW k \in Keys, NEW n \in NodeIds, LookupKnownKey(h, k, n)
       PROVE  RowInvOf(g)'
  BY <1>12 DEF LookupKnownKey, Enrolled, KeptToken, Unlocked, Idle, TypeOK, RowInv, RowInvOf,
     Exists, Stored
<1>13. ASSUME NEW h \in Handlers, NEW k \in Keys, NEW n \in NodeIds, NEW t \in Tokens,
              LookupUnknownKey(h, k, n, t)
       PROVE  RowInvOf(g)'
  BY <1>13 DEF LookupUnknownKey, FreshNode, Idle, TypeOK, RowInv, RowInvOf, Exists, Stored
<1>14. ASSUME NEW n \in NodeIds, RejectNode(n) PROVE RowInvOf(g)'
  BY <1>14 DEF RejectNode, Unlocked, TypeOK, RowInv, RowInvOf, Exists, Stored
<1>15. ASSUME NEW n \in NodeIds, DeleteNode(n) PROVE RowInvOf(g)'
  BY <1>15 DEF DeleteNode, Unlocked, UnusedRow, TypeOK, RowInv, RowInvOf, Exists, Stored
<1>16. ASSUME NEW c \in ClientIds, DeleteClient(c) PROVE RowInvOf(g)'
  BY <1>16 DEF DeleteClient, Live, TypeOK, RowInv, RowInvOf, Exists
<1>17. CASE Restart
  BY <1>17 DEF Restart, Idle, RowInvOf
<1>18. CASE UNCHANGED vars
  BY <1>18 DEF vars, RowInv, RowInvOf, Exists
<1> QED
  BY <1>1, <1>2, <1>3, <1>4, <1>5, <1>6, <1>7, <1>8, <1>9, <1>10, <1>11, <1>12, <1>13,
     <1>14, <1>15, <1>16, <1>17, <1>18 DEF Next, NextStatement

---------------------------------------------------------------------------
(* Addresses.                                                              *)

\* AllocateIP's result: an address outside Used is one that nothing holds.
LEMMA FreeIsUntaken ==
    ASSUME NEW a \in Free
    PROVE  a \in Hosts /\ a # Nil /\ Untaken(a)
<1>1. a \in Hosts /\ a # Nil
  BY PoolAssumption DEF Free, Hosts
<1> QED
  BY <1>1 DEF Free, Used, NodeAddrs, ClientAddrs, Untaken

\* The state functions about addresses, opened together.
LEMMA NoRowMoves ==
    ASSUME TypeOK, AddrInv,
           \A n \in NodeIds : Exists(n)' => Exists(n) /\ nodes'[n].addr = nodes[n].addr
                                                     /\ nodes'[n].hub = nodes[n].hub,
           \A n \in NodeIds : nodes'[n].status = "active" => nodes'[n].addr # Nil,
           \A c \in ClientIds : Live(c)' => Live(c) /\ clients'[c].addr = clients[c].addr,
           \A h \in Handlers : tx'[h].pc = "write" =>
              \/ tx[h].pc = "write" /\ tx'[h].addr = tx[h].addr
              \/ tx'[h].addr \in Free
    PROVE  AddrInv'
<1>1. PickInv'
  <2> SUFFICES ASSUME NEW h \in Handlers, tx'[h].pc = "write"
               PROVE  tx'[h].addr \in Hosts /\ Untaken(tx[h].addr)'
    BY DEF PickInv
  <2>1. tx'[h].addr \in Hosts /\ Untaken(tx'[h].addr)
    BY FreeIsUntaken DEF AddrInv, PickInv
  <2> QED
    BY <2>1 DEF Untaken
<1>2. HeldInv'
  BY DEF AddrInv, HeldInv
<1>3. AddressesUnique'
  BY DEF AddrInv, AddressesUnique
<1>4. HubAddressReserved'
  BY DEF AddrInv, HubAddressReserved
<1> QED
  BY <1>1, <1>2, <1>3, <1>4 DEF AddrInv

\* While h writes its address, no other handler holds one.
LEMMA OnlyWriter ==
    ASSUME LockInv, NEW h \in Handlers, tx[h].pc = "write", End(h), TypeOK
    PROVE  PickInv'
BY DEF LockInv, PickInv, End, Idle, TypeOK

LEMMA AddrStep == TypeOK /\ LockInv /\ RowInv /\ AddrInv /\ [Next]_vars => AddrInv'
<1> SUFFICES ASSUME TypeOK, LockInv, RowInv, AddrInv, [Next]_vars PROVE AddrInv'
  OBVIOUS
<1> USE IdsAreNotNil
<1>1. ASSUME NEW h \in Handlers, AcquireAllocLock(h) PROVE AddrInv'
  BY <1>1, NoRowMoves DEF AcquireAllocLock, TypeOK, AddrInv, HeldInv, Exists, Live
<1>2. ASSUME NEW h \in Handlers, PickAddress(h) PROVE AddrInv'
  BY <1>2, NoRowMoves DEF PickAddress, TypeOK, AddrInv, HeldInv, Exists, Live
<1>3. ASSUME NEW h \in Handlers, PoolExhausted(h) \/ Rollback(h) PROVE AddrInv'
  BY <1>3, NoRowMoves DEF PoolExhausted, Rollback, End, Idle, TypeOK, AddrInv, HeldInv, Exists, Live
<1>4. ASSUME NEW h \in Handlers, InsertNode(h) PROVE AddrInv'
  <2> DEFINE a == tx[h].addr
  <2>1. a \in Hosts /\ a # Nil /\ Untaken(a)
    BY <1>4, PoolAssumption DEF InsertNode, AddrInv, PickInv, Hosts
  <2>2. PickInv'
    BY <1>4, OnlyWriter DEF InsertNode
  <2>3. HeldInv'
    BY <1>4, <2>1 DEF InsertNode, TypeOK, AddrInv, HeldInv, Live
  <2>4. AddressesUnique'
    BY <1>4, <2>1 DEF InsertNode, TypeOK, AddrInv, AddressesUnique, Untaken, Exists, Live, Stored
  <2>5. HubAddressReserved'
    BY <1>4, <2>1 DEF InsertNode, TypeOK, AddrInv, HubAddressReserved, Untaken, Exists, Live, Stored
  <2> QED
    BY <2>2, <2>3, <2>4, <2>5 DEF AddrInv
<1>5. ASSUME NEW h \in Handlers, InsertClient(h) PROVE AddrInv'
  <2> DEFINE a == tx[h].addr
  <2>1. a \in Hosts /\ a # Nil /\ Untaken(a)
    BY <1>5, PoolAssumption DEF InsertClient, AddrInv, PickInv, Hosts
  <2>2. PickInv'
    BY <1>5, OnlyWriter DEF InsertClient
  <2>3. HeldInv'
    BY <1>5, <2>1 DEF InsertClient, TypeOK, AddrInv, HeldInv, Live
  <2>4. AddressesUnique'
    BY <1>5, <2>1 DEF InsertClient, TypeOK, AddrInv, AddressesUnique, Untaken, Exists, Live
  <2>5. HubAddressReserved'
    BY <1>5, <2>1 DEF InsertClient, TypeOK, AddrInv, HubAddressReserved, Untaken, Exists, Live
  <2> QED
    BY <2>2, <2>3, <2>4, <2>5 DEF AddrInv
<1>6. ASSUME NEW h \in Handlers, ActivateNode(h) PROVE AddrInv'
  <2> DEFINE a == tx[h].addr
  <2>1. a \in Hosts /\ a # Nil /\ Untaken(a)
    BY <1>6, PoolAssumption DEF ActivateNode, AddrInv, PickInv, Hosts
  <2>2. PickInv'
    BY <1>6, OnlyWriter DEF ActivateNode
  <2>3. HeldInv'
    BY <1>6, <2>1 DEF ActivateNode, TypeOK, NodeRow, AddrInv, HeldInv, Live
  <2>4. AddressesUnique'
    BY <1>6, <2>1 DEF ActivateNode, TypeOK, NodeRow, RowInv, RowInvOf, AddrInv, AddressesUnique,
       Untaken, Exists, Live, Stored
  <2>5. HubAddressReserved'
    BY <1>6, <2>1 DEF ActivateNode, TypeOK, NodeRow, RowInv, RowInvOf, AddrInv,
       HubAddressReserved, Untaken, Exists, Live, Stored
  <2> QED
    BY <2>2, <2>3, <2>4, <2>5 DEF AddrInv
<1>7. ASSUME NEW h \in Handlers, InsertPending(h) PROVE AddrInv'
  <2>1. PickInv'
    <3> SUFFICES ASSUME NEW g \in Handlers, tx'[g].pc = "write"
                 PROVE  tx'[g].addr \in Hosts /\ Untaken(tx[g].addr)'
      BY DEF PickInv
    <3>1. tx'[g] = tx[g] /\ tx[g].addr \in Hosts /\ tx[g].addr # Nil /\ Untaken(tx[g].addr)
      BY <1>7, PoolAssumption DEF InsertPending, End, Idle, TypeOK, AddrInv, PickInv, Hosts
    <3> QED
      BY <1>7, <3>1 DEF InsertPending, TypeOK, Untaken, Exists, Live, Stored
  <2>2. HeldInv'
    BY <1>7 DEF InsertPending, TypeOK, AddrInv, HeldInv, Live
  <2>3. AddressesUnique'
    BY <1>7, PoolAssumption DEF InsertPending, TypeOK, AddrInv, HeldInv, AddressesUnique, Hosts,
       Exists, Live, Stored
  <2>4. HubAddressReserved'
    BY <1>7, PoolAssumption DEF InsertPending, TypeOK, AddrInv, HubAddressReserved, Exists, Live, Stored
  <2> QED
    BY <2>1, <2>2, <2>3, <2>4 DEF AddrInv
<1>8. ASSUME NEW h \in Handlers, Reannounce(h) PROVE AddrInv'
  BY <1>8, NoRowMoves DEF Reannounce, ReannouncedStatus, End, Idle, TypeOK, NodeRow, RowInv,
     RowInvOf, AddrInv, HeldInv, Exists, Live, Stored
<1>9. ASSUME NEW h \in Handlers, NEW n \in NodeIds, BeginCreateNode(h, n) PROVE AddrInv'
  BY <1>9, NoRowMoves DEF BeginCreateNode, Idle, TypeOK, AddrInv, HeldInv, Exists, Live
<1>10. ASSUME NEW h \in Handlers, NEW n \in NodeIds, BeginApprove(h, n) PROVE AddrInv'
  BY <1>10, NoRowMoves DEF BeginApprove, Idle, TypeOK, AddrInv, HeldInv, Exists, Live
<1>11. ASSUME NEW h \in Handlers, NEW c \in ClientIds, BeginCreateClient(h, c) PROVE AddrInv'
  BY <1>11, NoRowMoves DEF BeginCreateClient, Idle, TypeOK, AddrInv, HeldInv, Exists, Live
<1>12. ASSUME NEW h \in Handlers, NEW k \in Keys, NEW n \in NodeIds, LookupKnownKey(h, k, n)
       PROVE  AddrInv'
  BY <1>12, NoRowMoves DEF LookupKnownKey, Idle, TypeOK, AddrInv, HeldInv, Exists, Live
<1>13. ASSUME NEW h \in Handlers, NEW k \in Keys, NEW n \in NodeIds, NEW t \in Tokens,
              LookupUnknownKey(h, k, n, t)
       PROVE  AddrInv'
  BY <1>13, NoRowMoves DEF LookupUnknownKey, Idle, TypeOK, AddrInv, HeldInv, Exists, Live
<1>14. ASSUME NEW n \in NodeIds, RejectNode(n) PROVE AddrInv'
  BY <1>14, NoRowMoves DEF RejectNode, TypeOK, NodeRow, AddrInv, HeldInv, Exists, Live, Stored
<1>15. ASSUME NEW n \in NodeIds, DeleteNode(n) PROVE AddrInv'
  BY <1>15, NoRowMoves DEF DeleteNode, UnusedRow, TypeOK, AddrInv, HeldInv, Exists, Live, Stored
<1>16. ASSUME NEW c \in ClientIds, DeleteClient(c) PROVE AddrInv'
  BY <1>16, NoRowMoves DEF DeleteClient, TypeOK, AddrInv, HeldInv, Exists, Live
<1>17. CASE Restart
  <2>1. CASE UNCHANGED nodes
    BY <1>17, <2>1, NoRowMoves DEF Restart, Idle, AddrInv, HeldInv, Exists, Live
  <2>2. CASE HubNodes = {} /\ \E n \in NodeIds : /\ nodes[n].status = "unused"
                                                 /\ nodes' = [nodes EXCEPT ![n] = HubRow]
    <3>1. Nil # HubAddr
      BY PoolAssumption
    <3>2. \A m \in NodeIds : Exists(m) => nodes[m].addr # HubAddr
      BY <2>2 DEF HubNodes, AddrInv, HubAddressReserved
    <3>3. PickInv'
      BY <1>17 DEF Restart, Idle, PickInv
    <3>4. HeldInv'
      BY <1>17, <2>2, <3>1 DEF Restart, HubRow, TypeOK, AddrInv, HeldInv, Live
    <3>5. AddressesUnique'
      BY <1>17, <2>2, <3>2 DEF Restart, HubRow, TypeOK, AddrInv, HubAddressReserved,
         AddressesUnique, Exists, Live, Stored
    <3>6. HubAddressReserved'
      BY <1>17, <2>2 DEF Restart, HubRow, TypeOK, AddrInv, HubAddressReserved, Exists, Live, Stored
    <3> QED
      BY <3>3, <3>4, <3>5, <3>6 DEF AddrInv
  <2> QED
    BY <1>17, <2>1, <2>2 DEF Restart
<1>18. CASE UNCHANGED vars
  BY <1>18, NoRowMoves DEF vars, AddrInv, HeldInv, Exists, Live
<1> QED
  BY <1>1, <1>2, <1>3, <1>4, <1>5, <1>6, <1>7, <1>8, <1>9, <1>10, <1>11, <1>12, <1>13,
     <1>14, <1>15, <1>16, <1>17, <1>18 DEF Next, NextStatement

---------------------------------------------------------------------------
(* The theorems.                                                           *)

LEMMA InvInit == Init => IInv
<1> SUFFICES ASSUME Init PROVE IInv
  OBVIOUS
<1> USE PoolAssumption, IdsAreNotNil DEF Init
<1>1. TypeOK
  BY TypeInit
<1>2. LockInv
  BY DEF LockInv, Idle
<1>3. RowInv
  BY DEF RowInv, RowInvOf, Idle
<1>4. \A n \in NodeIds : Exists(n) => n = HubId
  BY DEF Exists, Stored, UnusedRow
<1>5. nodes[HubId] = HubRow /\ \A c \in ClientIds : ~ Live(c)
  BY DEF Live
<1>6. PickInv
  BY DEF PickInv, Idle
<1>7. HeldInv
  BY <1>5 DEF HeldInv, HubRow, UnusedRow
<1>8. AddressesUnique
  BY <1>4, <1>5 DEF AddressesUnique
<1>9. HubAddressReserved
  BY <1>4, <1>5 DEF HubAddressReserved, HubRow
<1> QED
  BY <1>1, <1>2, <1>3, <1>6, <1>7, <1>8, <1>9 DEF IInv, AddrInv

LEMMA InvStep == IInv /\ [Next]_vars => IInv'
BY TypeStep, LockStep, RowStep, AddrStep DEF IInv

\* The strengthened invariant holds in every reachable state.
THEOREM Invariance == Spec => []IInv
BY InvInit, InvStep, PTL DEF Spec

\* No two rows of the two tables hold the same tunnel address, for any pool and
\* any number of concurrent handlers.
THEOREM UniqueAddresses == Spec => []AddressesUnique
<1>1. IInv => AddressesUnique
  BY DEF IInv, AddrInv
<1> QED
  BY Invariance, <1>1, PTL

\* Only the hub's own row ever holds the hub's address.
THEOREM ReservedHubAddress == Spec => []HubAddressReserved
<1>1. IInv => HubAddressReserved
  BY DEF IInv, AddrInv
<1> QED
  BY Invariance, <1>1, PTL

\* A row that stays active keeps its address: ActivateNode, the one statement that
\* rewrites an address, holds the row's lock since it saw the row not active.
THEOREM StableAddresses == Spec => ActiveAddressStable
<1> DEFINE Stable == \A n \in NodeIds :
                       nodes[n].status = "active" /\ nodes'[n].status = "active"
                         => nodes'[n].addr = nodes[n].addr
<1>1. IInv /\ [Next]_vars => Stable
  <2> SUFFICES ASSUME IInv, [Next]_vars PROVE Stable
    OBVIOUS
  <2> USE DEF IInv, TypeOK, Stored
  <2>1. ASSUME NEW h \in Handlers, InsertNode(h) PROVE Stable
    BY <2>1 DEF InsertNode, RowInv, RowInvOf
  <2>2. ASSUME NEW h \in Handlers, ActivateNode(h) PROVE Stable
    BY <2>2 DEF ActivateNode, RowInv, RowInvOf, AddrInv, HeldInv
  <2>3. ASSUME NEW h \in Handlers, InsertPending(h) \/ Reannounce(h) PROVE Stable
    <3>1. CASE InsertPending(h)
      BY <3>1 DEF InsertPending
    <3>2. CASE Reannounce(h)
      BY <3>2 DEF Reannounce, NodeRow
    <3> QED
      BY <2>3, <3>1, <3>2
  <2>4. ASSUME NEW n \in NodeIds, RejectNode(n) \/ DeleteNode(n) PROVE Stable
    BY <2>4 DEF RejectNode, DeleteNode, UnusedRow, NodeRow
  <2>5. CASE Restart
    BY <2>5 DEF Restart
  <2>6. CASE UNCHANGED nodes
    BY <2>6
  <2> QED
    BY <2>1, <2>2, <2>3, <2>4, <2>5, <2>6 DEF Next, NextStatement, AcquireAllocLock, PickAddress,
       PoolExhausted, InsertClient, Rollback, BeginCreateNode, BeginApprove, BeginCreateClient,
       LookupKnownKey, LookupUnknownKey, DeleteClient, vars
<1>2. IInv /\ [Next]_vars => [Stable]_vars
  BY <1>1
<1> QED
  BY Invariance, <1>2, PTL DEF Spec, ActiveAddressStable

\* A row keeps the token an agent was given: a re-announcement writes back the one
\* it read, and the row has been locked since.
THEOREM TokensKept == Spec => TokenNeverReplaced
<1> DEFINE Kept == \A n \in NodeIds :
                     Exists(n) /\ Exists(n)' /\ nodes[n].token # Nil
                       => nodes'[n].token = nodes[n].token
<1>1. IInv /\ [Next]_vars => Kept
  <2> SUFFICES ASSUME IInv, [Next]_vars PROVE Kept
    OBVIOUS
  <2> USE DEF IInv, TypeOK, Stored, Exists
  <2>1. ASSUME NEW h \in Handlers, InsertNode(h) \/ InsertPending(h) PROVE Kept
    BY <2>1 DEF InsertNode, InsertPending, RowInv, RowInvOf
  <2>2. ASSUME NEW h \in Handlers, ActivateNode(h) PROVE Kept
    BY <2>2 DEF ActivateNode, NodeRow
  <2>3. ASSUME NEW h \in Handlers, Reannounce(h) PROVE Kept
    BY <2>3 DEF Reannounce, RowInv, RowInvOf, NodeRow
  <2>4. ASSUME NEW n \in NodeIds, RejectNode(n) PROVE Kept
    BY <2>4 DEF RejectNode, NodeRow
  <2>5. ASSUME NEW n \in NodeIds, DeleteNode(n) PROVE Kept
    BY <2>5 DEF DeleteNode, UnusedRow
  <2>6. CASE Restart
    BY <2>6 DEF Restart
  <2>7. CASE UNCHANGED nodes
    BY <2>7
  <2> QED
    BY <2>1, <2>2, <2>3, <2>4, <2>5, <2>6, <2>7 DEF Next, NextStatement, AcquireAllocLock,
       PickAddress, PoolExhausted, InsertClient, Rollback, BeginCreateNode, BeginApprove,
       BeginCreateClient, LookupKnownKey, LookupUnknownKey, DeleteClient, vars
<1>2. IInv /\ [Next]_vars => [Kept]_vars
  BY <1>1
<1> QED
  BY Invariance, <1>2, PTL DEF Spec, TokenNeverReplaced

\* A row that awaits approval, or was refused it, becomes active only in a
\* transaction of ApproveNode on that row.
THEOREM ApprovalGate == Spec => ApprovalIsTheGate
<1> DEFINE Gate == \A n \in NodeIds :
                     nodes[n].status \in {"pending", "rejected"} /\ nodes'[n].status = "active"
                       => \E h \in Handlers : tx[h].op = "approve" /\ tx[h].node = n
<1>1. IInv /\ [Next]_vars => Gate
  <2> SUFFICES ASSUME IInv, [Next]_vars PROVE Gate
    OBVIOUS
  <2> USE DEF IInv, TypeOK
  <2>1. ASSUME NEW h \in Handlers, InsertNode(h) \/ InsertPending(h) PROVE Gate
    BY <2>1 DEF InsertNode, InsertPending, RowInv, RowInvOf
  <2>2. ASSUME NEW h \in Handlers, ActivateNode(h) PROVE Gate
    BY <2>2 DEF ActivateNode
  <2>3. ASSUME NEW h \in Handlers, Reannounce(h) PROVE Gate
    BY <2>3 DEF Reannounce, ReannouncedStatus, NodeRow
  <2>4. ASSUME NEW n \in NodeIds, RejectNode(n) \/ DeleteNode(n) PROVE Gate
    BY <2>4 DEF RejectNode, DeleteNode, UnusedRow, NodeRow
  <2>5. CASE Restart
    BY <2>5 DEF Restart
  <2>6. CASE UNCHANGED nodes
    BY <2>6
  <2> QED
    BY <2>1, <2>2, <2>3, <2>4, <2>5, <2>6 DEF Next, NextStatement, AcquireAllocLock,
       PickAddress, PoolExhausted, InsertClient, Rollback, BeginCreateNode, BeginApprove,
       BeginCreateClient, LookupKnownKey, LookupUnknownKey, DeleteClient, vars
<1>2. IInv /\ [Next]_vars => [Gate]_vars
  BY <1>1
<1> QED
  BY Invariance, <1>2, PTL DEF Spec, ApprovalIsTheGate

=============================================================================
