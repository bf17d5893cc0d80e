---------------------------- MODULE MCNodeAgent ----------------------------
(* Instances of NodeAgent for TLC: at most MaxDisturbances requests, changes *)
(* by the admin and failures in a behaviour.                                 *)
EXTENDS NodeAgent, Naturals

CONSTANTS p1, k1, k2, t1, t2, good, bad, c1, e1, MaxDisturbances

VARIABLE disturbances

OnePanel     == {p1}
TwoKeys      == {k1, k2}
TwoTokens    == {t1, t2}
TwoRevs      == {good, bad}
OneBad       == {bad}
OneConnector == {c1}
OneEditor    == {e1}

\* To begin with the panel renders what comes up.
MCInit == Init /\ rev \in [Panels -> Revs \ Bad] /\ disturbances = 0

Works == LoopStep \/ (\E c \in Connectors : ConnectStep(c)) \/ (\E a \in Appliers : ApplyStep(a))

\* The page offers the editor to a node that is enrolled and has a config.
EditsAsOffered ==
    \A e \in Editors : ~ Applying(e) /\ Applying(e)' => Connected(mem) /\ conf # Nil

MCNext ==
    \/ Works /\ UNCHANGED disturbances
    \/ /\ disturbances < MaxDisturbances
       /\ Disturbance
       /\ EditsAsOffered
       /\ disturbances' = disturbances + 1

MCSpec == MCInit /\ [][MCNext]_<<vars, disturbances>> /\ Fairness
=============================================================================
