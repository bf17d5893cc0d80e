\* Two requests at a time, one client, one home node and the hub's, one rule.
CONSTANTS
    c1 = c1  n1 = n1  n2 = n2  hub = hub  r1 = r1  r2 = r2  h1 = h1  h2 = h2
    Clients <- OneClient
    Nodes <- NodeAndHub
    HubNode = hub
    Rules <- OneRule
    Handlers <- TwoHandlers
    Nil = Nil
SPECIFICATION FairSpec
INVARIANTS TypeOK NothingOutlivesAGrant
PROPERTIES ImplementsAccessStore TransactionsEnd
CHECK_DEADLOCK FALSE
