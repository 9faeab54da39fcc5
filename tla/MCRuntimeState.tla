--------------------------- MODULE MCRuntimeState ---------------------------
(* RuntimeState on small instances: a1 has a declared impairment; b1 is the *)
(* other end of its link, on another node; a2 is on a1's node.              *)
EXTENDS RuntimeState, TLC

CONSTANTS a1, a2, b1, v, w, lab, engine, replayer, p1, p2

Nodes == [e \in Endpoints |-> IF e = b1 THEN "b" ELSE "a"]
Topology == [e \in Endpoints |-> IF e = a1 THEN v ELSE Clean]

\* One endpoint, or both ends of a link.
LinkTargets == {<<e>> : e \in Endpoints} \cup {<<a1, b1>>}
NodeTargets == {<<e>> : e \in Endpoints}

PidSymmetry == Permutations(Pids)
=============================================================================
