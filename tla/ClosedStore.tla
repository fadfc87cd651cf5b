---------------------------- MODULE ClosedStore ----------------------------
(***************************************************************************)
(* What a deployment promises, whatever the programs, the failures and the  *)
(* edits: a store of resources to which one is added, or replaced, only      *)
(* when all it depends on is there, and from which one is taken only when    *)
(* nothing that stays depends on it.                                         *)
(***************************************************************************)
CONSTANT Nodes   \* records with the fields `urn' and `deps' at least

VARIABLE have

UrnsOf(nodes) == {n.urn : n \in nodes}

Init == have = {}

Put(n) ==
    /\ n.deps \subseteq UrnsOf(have)
    /\ have' = {m \in have : m.urn # n.urn} \cup {n}

Drop(n) ==
    /\ \A m \in have \ {n} : n.urn \notin m.deps
    /\ have' = have \ {n}

Next ==
    \/ \E n \in Nodes : Put(n)
    \/ \E n \in have : Drop(n)

Spec == Init /\ [][Next]_have
=============================================================================
