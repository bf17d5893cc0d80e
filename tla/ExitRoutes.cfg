\* Two clients and two exit nodes; any call may follow any other.
CONSTANTS
    c1 = c1  c2 = c2  n1 = n1  n2 = n2  lan1 = lan1  pool = pool
    Clients <- TwoClients
    Nodes <- TwoNodes
    Lans <- TwoLans
    Routes <- RouteSets
    Meshes <- AllMeshes
    Nil = Nil
SPECIFICATION FairSpec
INVARIANTS TypeOK ExactOnSuccess SteeredTrafficHasARoute MeshBeforeExit
PROPERTIES CallsEnd
