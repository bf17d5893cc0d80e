\* The same, with no LAN announced twice: a device that never came up.
CONSTANTS
    c1 = c1  c2 = c2  n1 = n1  n2 = n2  lan1 = lan1  pool = pool
    Clients <- TwoClients
    Nodes <- TwoNodes
    Lans <- TwoLans
    Routes <- RouteSets
    Meshes <- SoundMeshes
    Nil = Nil
SPECIFICATION Spec
INVARIANTS CleanCallSucceeds
