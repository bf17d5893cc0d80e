CONSTANTS
    p1 = p1  k1 = k1  k2 = k2  t1 = t1  t2 = t2
    good = good  bad = bad  c1 = c1  e1 = e1
    Panels <- OnePanel
    Keys <- TwoKeys
    Tokens <- TwoTokens
    Revs <- TwoRevs
    Bad <- OneBad
    Connectors <- OneConnector
    Editors <- OneEditor
    Poller = Poller
    Nil = Nil
    MaxDisturbances = 5
SPECIFICATION MCSpec
INVARIANTS TypeOK PushedConfigHasItsKey 
CHECK_DEADLOCK FALSE
PROPERTIES  DeletedNodeGoesDark
