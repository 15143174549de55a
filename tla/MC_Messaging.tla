---------------------------- MODULE MC_Messaging ----------------------------
(* Model-checking instance of Messaging: two processes on two hosts, two   *)
(* TCP ports (so a restarted peer can come back on a new port while its    *)
(* old entry is still in the registry), two nicknames.                     *)
EXTENDS Messaging

CONSTANTS p1, p2, h1, h2, t1, t2, alice, bob, carol

MCProc == {p1, p2}
MCIP == {h1, h2}
MCHostOf == [p \in MCProc |-> IF p = p1 THEN h1 ELSE h2]
MCPorts == {t1, t2}
\* A single port: every restart comes back at the same address.
MCOnePort == {t1}
MCNicks == {alice, bob}
\* The user at p1 is always alice and the one at p2 always bob; only alice
\* sends.
MCNickChoice == [p \in MCProc |-> IF p = p1 THEN {alice} ELSE {bob}]
MCSenders == {p1}
\* A third user, carol, may start at p2's slot after bob has left it.
MCNicksCarol == {alice, bob, carol}
MCNickChoiceCarol == [p \in MCProc |-> IF p = p1 THEN {alice} ELSE {bob, carol}]
=============================================================================
