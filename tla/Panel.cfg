CONSTANTS
    c1 = c1  c2 = c2  n1 = n1  n2 = n2  hub = hub  h1 = h1  h2 = h2  far = far
    b1 = b1  b2 = b2  f1 = f1  f2 = f2  g1 = g1  q1 = q1
    Clients = {c1, c2}  Nodes = {n1, n2, hub}  HubNode = hub  Nil = Nil
    Rules <- TheRules  CatchAll <- CatchAllRule
    Browsers = {b1, b2}  Flows = {f1, f2}  GroupIds = {g1}
    Subnets = {{h1}, {h2}, {h1, h2}}  Internet = far  Kinds <- TheKinds  Requests = {q1}
    Devices = {c1, c2}  Places = {n1, n2}  Hub = hub  Frames = {g1}  Nobody = Nobody
    Cards = {c1, c2}  Boxes = {g1}  Loose = Loose
    SliderHues <- AllHues  SeedHues <- AllHues
    MaxChanges = 5  MaxTogether = 2  MaxLocations = 5
    MaxLines = 4  MaxCards = 6  MaxColours = 4  MaxDialogs = 7
SPECIFICATION MCSpec
INVARIANTS TypeOK SettledGroupsShareAccess TrafficTypeOK GrantedTrafficArrives NoTrafficUnapproved
INVARIANTS ClicksMirrorTheHighlight OneLinePerPair CardsInTheirFrame CardsReadable PageScrolls
PROPERTIES SaveBringsIntoLine ExitOpensNoLan StruckLinesGo PickerShowsTheCard
CHECK_DEADLOCK FALSE
