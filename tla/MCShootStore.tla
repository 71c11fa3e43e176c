---------------------------- MODULE MCShootStore ----------------------------
\* Values of the constants of ShootStore for TLC.
EXTENDS ShootStore, TLC

CONSTANTS n1, n2, a, b, p1, p2, r1

MCGarden == (p1 :> n1) @@ (p2 :> n2)

Labelled(v) == [k \in {"tier"} |-> v]

AShoot(name, v, status) == [name |-> name, labels |-> Labelled(v), status |-> status]

\* Projects with a namespace of their own and one that gets the default; two
\* projects that share a namespace and a shoot name.
MCConfigs ==
    {<<[name |-> p1, namespace |-> n2,
        shoots |-> <<AShoot(a, "x", "Progressing"),
                     AShoot(b, "", "Hibernated")>>]>>,
     <<[name |-> p1, namespace |-> None,
        shoots |-> <<AShoot(a, "x", "Healthy")>>],
       [name |-> p2, namespace |-> n1,
        shoots |-> <<AShoot(a, "", "Unhealthy")>>]>>}

NoSelector == [k \in {} |-> ""]

MCQuestions ==
    {[kind |-> "get", namespace |-> n1, name |-> a],
     [kind |-> "get", namespace |-> n2, name |-> a],
     [kind |-> "list", namespace |-> None, selector |-> NoSelector],
     [kind |-> "list", namespace |-> n2, selector |-> Labelled("x")]}
=============================================================================
