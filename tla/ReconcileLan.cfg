\* A node announces another LAN while nobody changes anything.
CONSTANTS
    c1 = c1  n1 = n1  hub = hub  r1 = r1  h1 = h1  h2 = h2  h3 = h3
    Clients <- OneClient
    Nodes <- OneNode
    HubNode = hub
    Rules <- OneRule
    Handlers <- TwoHandlers
    Subnets = {s1, s2}
    Nil = Nil
SPECIFICATION Spec
INVARIANTS AnnouncedLanIsLive
CHECK_DEADLOCK FALSE
