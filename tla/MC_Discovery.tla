---------------------------- MODULE MC_Discovery ----------------------------
(* Model-checking instances of Discovery: two process slots, two TCP ports *)
(* and two nicknames, with the slots either sharing one host (so that they *)
(* compete for ports and one can take over the other's address) or on two  *)
(* hosts.  The intervals keep the code's defaults in ratio: announce 5 s,  *)
(* timeout 15 s, cleanup 5 s become 1, 3 and 1 time units.                 *)
EXTENDS Discovery, TLC

CONSTANTS p1, p2, h1, h2, t1, t2, alice, bob, carol

MCProc == {p1, p2}
MCPorts == {t1, t2}
MCNicks == {alice, bob}
MCNickChoice == [p \in MCProc |-> MCNicks]

\* A third user, carol, may start at p2's slot, so that a process can start
\* at the address its predecessor left under another nickname.
MCOnePort == {t1}
MCNicksCarol == {alice, bob, carol}
MCNickChoiceCarol == [p \in MCProc |-> IF p = p1 THEN {alice} ELSE {bob, carol}]

\* Both slots on host h1.
MCOneHostIP == {h1}
MCOneHostOf == [p \in MCProc |-> h1]

\* Slot p1 on host h1, slot p2 on host h2.
MCTwoHostIP == {h1, h2}
MCTwoHostOf == [p \in MCProc |-> IF p = p1 THEN h1 ELSE h2]

\* With both slots on one host and the same nickname choices, the slots are
\* interchangeable: no definition singles out p1 or p2.
MCProcSymmetry == Permutations(MCProc)
=============================================================================
