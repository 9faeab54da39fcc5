---------------------------- MODULE MCApplyPlan ----------------------------
(* ApplyPlan for two nodes: a is absent, a namespace or a container of      *)
(* either options, b is absent or a namespace.                              *)
EXTENDS ApplyPlan

CONSTANTS Mtus, MgmtAndExec, Macvlans

TwoNodes == <<"a", "b">>

\* Every e0 is an end of at most one link, or a port of the network.
Wirings == {[links |-> {}, net |-> n] : n \in {<< >>, <<"b">>, <<"a", "b">>, <<"b", "a">>}}
           \cup {[links |-> {[a |-> "a", b |-> "b", mtu |-> m]}, net |-> << >>] : m \in Mtus}
           \cup {[links |-> {[a |-> "b", b |-> "a", mtu |-> "m1"]}, net |-> << >>]}

\* A mgmt subnet, and a's background command.
Mixed == {<<None, None>>, <<None, "v1">>, <<None, "v2">>, <<"m1", None>>, <<"m2", "v1">>}
Plain == {<<None, None>>, <<None, "v1">>}

\* What the validator lets through.
Valid(t) == /\ LinkEnds(t) \cup Range(t.net) \subseteq Present(t)
            /\ \A n \in Nodes \ Present(t) : t.exec[n] = None
            /\ t.macvlans \subseteq Present(t)

SmallTopologies ==
    {t \in {[kind |-> [n \in Nodes |-> IF n = "a" THEN k ELSE l], links |-> w.links, net |-> w.net,
             mgmt |-> x[1], exec |-> [n \in Nodes |-> IF n = "a" THEN x[2] ELSE None],
             macvlans |-> mv] :
               k \in Kinds, l \in {"absent", "ns"}, w \in Wirings, x \in MgmtAndExec,
               mv \in Macvlans} : Valid(t)}
============================================================================
