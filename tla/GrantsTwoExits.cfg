\* Two requests at a time: both pass the check before either updates.
CONSTANTS
    c1 = c1  n1 = n1  n2 = n2  hub = hub  r1 = r1  r2 = r2  h1 = h1  h2 = h2
    Clients <- OneClient
    Nodes <- TwoNodes
    HubNode = hub
    Rules <- OneRule
    Handlers <- TwoHandlers
    Nil = Nil
SPECIFICATION Spec
INVARIANTS AtMostOneExit
CHECK_DEADLOCK FALSE
