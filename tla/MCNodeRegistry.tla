--------------------------- MODULE MCNodeRegistry ---------------------------
(* Instances of NodeRegistry for TLC. *)
EXTENDS NodeRegistry

CONSTANTS n0, n1, n2, c1, h1, h2

MCNodeIds   == {n0, n1, n2}
MCClientIds == {c1}
MCHandlers  == {h1, h2}

=============================================================================
