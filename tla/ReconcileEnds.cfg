\* Three requests at a time, about one node that nobody has a grant for.
CONSTANTS
    c1 = c1  n1 = n1  hub = hub  r1 = r1  h1 = h1  h2 = h2  h3 = h3
    Clients = {}
    Nodes <- OneNode
    HubNode = hub
    Rules = {}
    Handlers <- ThreeHandlers
    Subnets = {s1}
    Nil = Nil
SPECIFICATION FairSpec
PROPERTIES RequestsEnd
CHECK_DEADLOCK FALSE
