---------------------------- MODULE MCLifecycle ----------------------------
\* Values of the constants of Lifecycle for TLC.
EXTENDS Lifecycle

\* No projects at all, two regular ones, a namespace shared by two projects,
\* and a namespace left empty.
MCConfigs ==
    {<<>>,
     DefaultConfig(2, 1),
     <<[name |-> 1, namespace |-> 1, shoots |-> <<1>>],
       [name |-> 2, namespace |-> 1, shoots |-> <<2>>]>>,
     <<[name |-> 1, namespace |-> Empty, shoots |-> <<1>>]>>}
============================================================================
