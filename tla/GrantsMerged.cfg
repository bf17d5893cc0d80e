\* Two requests at a time: neither deletes the rows the other inserts.
CONSTANTS
    c1 = c1  n1 = n1  n2 = n2  hub = hub  r1 = r1  r2 = r2  h1 = h1  h2 = h2
    Clients <- OneClient
    Nodes <- NodeAndHub
    HubNode = hub
    Rules <- TwoRules
    Handlers <- TwoHandlers
    Nil = Nil
SPECIFICATION FairSpec
PROPERTIES RulesReplaced
CHECK_DEADLOCK FALSE
