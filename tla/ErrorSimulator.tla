--------------------------- MODULE ErrorSimulator ---------------------------
(***************************************************************************)
(* What the simulator promises a client, whichever of its two HTTP servers  *)
(* is asked and however many locked sections the answer is put together     *)
(* from: a request is answered once, and the answer is one that the worlds   *)
(* current between its arrival and its answer allow.  A world is whatever    *)
(* answers may depend on: the settings and the objects served.  EnvtestProxy *)
(* and StandaloneApi, which look at the world one piece at a time while it    *)
(* changes, are shown to implement this.                                    *)
(***************************************************************************)
CONSTANTS
    Requests,           \* identities of the requests of a behaviour
    Arrivals,           \* the requests clients may send
    Allowed(_, _, _)    \* the answers that worlds allow to what is asked

VARIABLES
    world,      \* what answers depend on
    asked,      \* per request: what is asked
    phase,      \* per request: idle, asked or answered
    lived,      \* per request: the worlds it has lived through
    given       \* per request: its answer, once answered

vars == <<world, asked, phase, lived, given>>

Init ==
    /\ asked \in [Requests -> Arrivals]
    /\ phase = [r \in Requests |-> "idle"]
    /\ lived = [r \in Requests |-> {}]

\* The world may change; whoever waits for an answer lives through that.
Live ==
    lived' = [r \in Requests |-> IF phase[r] = "asked"
                                 THEN lived[r] \cup {world'} ELSE lived[r]]

Ask(r) ==
    /\ phase[r] = "idle"
    /\ phase' = [phase EXCEPT ![r] = "asked"]
    /\ lived' = [lived EXCEPT ![r] = {world}]
    /\ UNCHANGED <<world, asked, given>>

\* A request that is served may itself change the world.
Answer(r) ==
    /\ phase[r] = "asked"
    /\ phase' = [phase EXCEPT ![r] = "answered"]
    /\ Live
    /\ Allowed(lived'[r], asked[r], given'[r])
    /\ given' = [given EXCEPT ![r] = given'[r]]
    /\ UNCHANGED asked

Change ==
    /\ Live
    /\ UNCHANGED <<asked, phase, given>>

Next == Change \/ \E r \in Requests : Ask(r) \/ Answer(r)

Spec == Init /\ [][Next]_vars
=============================================================================
