--------------------------- MODULE MCHostLifecycle ---------------------------
(* Two configurations, the start-up task and two request tasks, and the    *)
(* version installed with an older one, a pre-release of it and a newer one.*)
EXTENDS HostLifecycle, TLC

CONSTANTS r1, r2
Handlers == Permutations({r1, r2})

v110 == [core |-> <<1, 1, 0>>, pre |-> <<>>]
v110rc == [core |-> <<1, 1, 0>>, pre |-> <<1>>]
v109 == [core |-> <<1, 0, 9>>, pre |-> <<>>]
v120 == [core |-> <<1, 2, 0>>, pre |-> <<>>]
MCVersions == {v109, v110, v110rc, v120}
=============================================================================
