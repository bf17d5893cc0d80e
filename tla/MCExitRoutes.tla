---------------------------- MODULE MCExitRoutes ----------------------------
(* Instances of ExitRoutes for TLC. *)
EXTENDS ExitRoutes

CONSTANTS c1, c2, n1, n2, lan1, pool

TwoClients == {c1, c2}
TwoNodes   == {n1, n2}
TwoLans    == {lan1, pool}

\* No exit, one, the same client elsewhere, two clients on one node and on two,
\* and a client with two exits.
RouteSets == {{}, {<<c1, n1>>}, {<<c1, n2>>}, {<<c1, n1>>, <<c2, n1>>},
              {<<c1, n1>>, <<c2, n2>>}, {<<c1, n1>>, <<c1, n2>>}}

\* No node yet, and one node.
SoundMeshes == {<<pool>>, <<lan1, pool>>}

\* Also two nodes that announced the same LAN.
AllMeshes == SoundMeshes \cup {<<lan1, lan1, pool>>}

=============================================================================
