---------------------------- MODULE MCDiscovery ----------------------------
(***************************************************************************)
(* Small instances of Startup.                                             *)
(***************************************************************************)
EXTENDS Startup

CONSTANTS n1, n2, a1, a2

TwoNodes == {n1, n2}
TwoAddresses == {a1, a2}

\* A node sends to the address of its own socket, so it hears itself: n1 is bound to
\* the address of the whole network, n2 to every address it has.
OneBroadcasts == [n \in Nodes |-> IF n = n1 THEN Nodes ELSE {n}]

\* Clients ask n1.
Asked == {n1}

\* The clock of n2 is one interval ahead: what waits for it is soon too old.
Apart == [n \in Nodes |-> IF n = n2 THEN 1 ELSE 0]
=============================================================================
