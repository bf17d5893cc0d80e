---------------------------- MODULE MCReconcile ----------------------------
(* Instances of Reconcile for TLC. *)
EXTENDS Reconcile

CONSTANTS c1, n1, hub, r1, h1, h2, h3

OneClient     == {c1}
OneNode       == {n1}
OneRule       == {r1}
TwoHandlers   == {h1, h2}
ThreeHandlers == {h1, h2, h3}

=============================================================================
