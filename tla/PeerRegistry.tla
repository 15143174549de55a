---------------------------- MODULE PeerRegistry ----------------------------
(***************************************************************************)
(* The peer registry of src/src/core/peer.rs as values and operators.      *)
(*                                                                         *)
(* PeerRegistry holds a HashMap<PeerId, Peer> behind a tokio RwLock; every *)
(* method takes the lock for its whole body, so each one is a single       *)
(* atomic step on the map and is modelled as an operator from one map      *)
(* value to the next.  The components that own a registry (Discovery,      *)
(* Messaging) apply these operators inside their actions.                  *)
(*                                                                         *)
(* Abstractions:                                                           *)
(*  - PeerId::from_addr is a UUIDv5 of the address string: injective on    *)
(*    addresses for all practical purposes, so the map is keyed by the     *)
(*    address itself;                                                      *)
(*  - Peer.last_seen is an Instant; the model keeps its age, the whole     *)
(*    time units elapsed since then, which is all is_timed_out reads.      *)
(*    Ages saturate at AgeCap, which must exceed every timeout compared.  *)
(***************************************************************************)
EXTENDS Naturals, Functions

CONSTANTS
    Addr,     \* socket addresses a peer can be reached at (ip, tcp port)
    Nicks,    \* nicknames
    AgeCap    \* saturation value of an entry's age (a positive natural)


\* The Peer record as stored: nickname and age of last_seen.  Its id and
\* addr are the map key.
Peer == [nickname : Nicks, age : 0..AgeCap]

\* A registry value: a finite map from addresses to peers.
IsRegistry(r) ==
    /\ DOMAIN r \subseteq Addr
    /\ \A a \in DOMAIN r : r[a] \in Peer

EmptyRegistry == [a \in {} |-> CHOOSE p \in Peer : TRUE]

\* PeerRegistry::upsert.  An existing entry is refreshed (last_seen := now)
\* and its nickname and addr overwritten; a new one is inserted with the
\* last_seen that Peer::new gave it, also now.  Both branches store the same
\* record; they differ only in the "New peer discovered" log line.
Upsert(r, a, nick) ==
    [x \in DOMAIN r \cup {a} |->
        IF x = a THEN [nickname |-> nick, age |-> 0] ELSE r[x]]

\* Mutation variant of IsTimedOut: one time unit of slack too many.
IsTimedOutLate(p, timeout) == p.age > timeout + 1

\* Peer::is_timed_out: last_seen.elapsed() > timeout (strictly).
IsTimedOut(p, timeout) == p.age > timeout

\* PeerRegistry::remove_timed_out: collect the ids of every timed-out entry,
\* then remove each of them, all under one write lock.
TimedOutIds(r, timeout) == {a \in DOMAIN r : IsTimedOut(r[a], timeout)}

RemoveTimedOut(r, timeout) == Restrict(r, DOMAIN r \ TimedOutIds(r, timeout))

\* PeerRegistry::remove.
Remove(r, a) == Restrict(r, DOMAIN r \ {a})

\* The passage of one time unit, seen by every last_seen of the map.
Age(r) == [a \in DOMAIN r |-> [r[a] EXCEPT !.age = IF @ < AgeCap THEN @ + 1 ELSE @]]

\* PeerRegistry::get_all projected on what callers read: the (address,
\* nickname) pairs of the snapshot.  Its order (HashMap iteration) is not
\* modelled; callers that depend on it choose nondeterministically.
GetAll(r) == {<<a, r[a].nickname>> : a \in DOMAIN r}
=============================================================================
