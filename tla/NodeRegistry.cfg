\* Two handlers, the hub's row and two more, one client, a pool of three hosts
\* of which the hub holds one.
CONSTANTS
    n0 = n0  n1 = n1  n2 = n2
    c1 = c1
    h1 = h1  h2 = h2
    NodeIds <- MCNodeIds
    ClientIds <- MCClientIds
    Handlers <- MCHandlers
    Keys = {k1}
    Tokens = {t1, t2}
    HubId = n0
    Network = 0
    Broadcast = 4
    HubAddr = 1
    Nil = Nil
SPECIFICATION FairSpec
INVARIANTS TypeOK AddressesUnique HubAddressReserved
PROPERTIES ActiveAddressStable TokenNeverReplaced ApprovalIsTheGate TransactionsEnd
CHECK_DEADLOCK FALSE
