------------------------------ MODULE MCGrants ------------------------------
(* Instances of Grants for TLC. *)
EXTENDS Grants

CONSTANTS c1, n1, n2, hub, r1, r2, h1, h2

OneClient   == {c1}
TwoNodes    == {n1, n2}
NodeAndHub  == {n1, hub}
OneRule     == {r1}
TwoRules    == {r1, r2}
TwoHandlers == {h1, h2}

=============================================================================
