------------------------------ MODULE Discovery ------------------------------
(***************************************************************************)
(* Peer discovery over UDP multicast: src/src/network/discovery.rs, the    *)
(* registry of src/src/core/peer.rs, and the process lifecycle of          *)
(* src/src/app/mod.rs that starts and aborts it.                           *)
(*                                                                         *)
(* Several Parlance processes ("slots" in Proc) run on a few hosts.  Each  *)
(* running process has a TCP port (chosen by the OS when the messaging     *)
(* listener binds port 0), a nickname, a PeerRegistry and the three tasks  *)
(* DiscoveryService::run spawns: the announce loop, the listen loop and    *)
(* the cleanup loop.  A multicast datagram is delivered as one copy per    *)
(* process that is up when it is sent, the sender included (multicast      *)
(* loopback is on).  Copies may be reordered (the network is a set), lost  *)
(* (if Lossy), received more than once (if Duplicating), and are received  *)
(* within MaxDelay time units unless lost.                                 *)
(*                                                                         *)
(* Time is discrete.  Each loop's tokio interval is a countdown to its     *)
(* next tick; time cannot advance while a tick is due or a copy has        *)
(* reached MaxDelay, so ticks fire in the time unit they are due in.       *)
(***************************************************************************)
EXTENDS Naturals, FiniteSets

CONSTANTS
    Proc,              \* process slots (one running Parlance process at a time each)
    IP,                \* host addresses
    HostOf,            \* HostOf[p]: the host slot p runs on
    Ports,             \* TCP ports the OS may assign to the messaging listener
    Nicks,             \* nicknames
    NickChoice,        \* NickChoice[p]: the nicknames slot p's user may start with
    AnnounceInterval,  \* DiscoveryConfig.announce_interval
    PeerTimeout,       \* DiscoveryConfig.peer_timeout
    CleanupInterval,   \* the cleanup loop's Duration::from_secs(5)
    MaxDelay,          \* longest a datagram copy stays in the network
    Lossy,             \* may the network (or send_to) lose a datagram?
    Duplicating        \* may the network deliver a datagram twice?

ASSUME HostAssumption == HostOf \in [Proc -> IP]
ASSUME IntervalAssumption ==
    /\ AnnounceInterval \in Nat
    /\ CleanupInterval \in Nat \ {0}
    /\ PeerTimeout \in Nat
    /\ MaxDelay \in Nat
ASSUME NonEmptyAssumption == Ports # {} /\ Nicks # {}
ASSUME NickAssumption == NickChoice \in [Proc -> SUBSET Nicks]
ASSUME FlagAssumption == Lossy \in BOOLEAN /\ Duplicating \in BOOLEAN

\* A peer's reachable address: (sender's IP, announced TCP port).
Addr == IP \X Ports

\* Entry ages saturate one above the largest age the registry can reach
\* (EvictionBound), so that a saturated age is itself a violation.
AgeCap == PeerTimeout + CleanupInterval + 1

R == INSTANCE PeerRegistry

\* How long a process must have been up before its view of a peer that has
\* also been up that long is settled.  Copies of an earlier process at the
\* peer's address may arrive for MaxDelay units after the peer started; its
\* first announcement after that comes within one announce interval and is
\* received within MaxDelay more, plus the time unit it is consumed in.
Settle == AnnounceInterval + 2 * MaxDelay + 1

\* A datagram copy in flight: Announce{nickname, tcp_port} from host ip to
\* the discovery socket of process dst, age time units after it was sent.
Copy == [dst : Proc, ip : IP, nickname : Nicks, tcp_port : Ports,
         age : 0..MaxDelay]

VARIABLES
    up,            \* up[p]: slot p runs a process
    nickname,      \* nickname[p]: AppConfig.nickname of the process
    tcpPort,       \* tcpPort[p]: the port MessagingService bound (actual_tcp_port)
    registry,      \* registry[p]: the PeerRegistry map of the process
    announceDue,   \* time units until the announce interval ticks
    cleanupDue,    \* time units until the cleanup interval ticks
    net,           \* set of datagram copies in flight
    upFor          \* history: time units p has been up, saturating at Settle

vars == <<up, nickname, tcpPort, registry, announceDue, cleanupDue, net, upFor>>

\* The values a slot without a process carries (never read while it is down).
DefaultNick == CHOOSE n \in Nicks : TRUE
DefaultPort == CHOOSE t \in Ports : TRUE

AddrOf(p) == <<HostOf[p], tcpPort[p]>>
Running == {p \in Proc : up[p]}

TypeOK ==
    /\ up \in [Proc -> BOOLEAN]
    /\ nickname \in [Proc -> Nicks]
    /\ tcpPort \in [Proc -> Ports]
    /\ \A p \in Proc : R!IsRegistry(registry[p])
    /\ DOMAIN registry = Proc
    /\ announceDue \in [Proc -> 0..AnnounceInterval]
    /\ cleanupDue \in [Proc -> 0..CleanupInterval]
    /\ net \subseteq Copy
    /\ upFor \in [Proc -> 0..Settle]

Init ==
    /\ up = [p \in Proc |-> FALSE]
    /\ nickname = [p \in Proc |-> DefaultNick]
    /\ tcpPort = [p \in Proc |-> DefaultPort]
    /\ registry = [p \in Proc |-> R!EmptyRegistry]
    /\ announceDue = [p \in Proc |-> 0]
    /\ cleanupDue = [p \in Proc |-> 0]
    /\ net = {}
    /\ upFor = [p \in Proc |-> 0]

-----------------------------------------------------------------------------
(* Process lifecycle (main.rs, App::run).                                  *)

\* App::run: MessagingService::new binds port 0 and the OS hands out a port
\* no other process on the host holds; DiscoveryService::new binds the
\* multicast port with SO_REUSEADDR/SO_REUSEPORT and joins the group; the
\* tasks are spawned and both intervals tick at once.  A failed bind or
\* join makes run return before anything is spawned: no state change.
Start(p, port, nick) ==
    /\ ~up[p]
    /\ \A q \in Running : HostOf[q] = HostOf[p] => tcpPort[q] # port
    /\ up' = [up EXCEPT ![p] = TRUE]
    /\ nickname' = [nickname EXCEPT ![p] = nick]
    /\ tcpPort' = [tcpPort EXCEPT ![p] = port]
    /\ registry' = [registry EXCEPT ![p] = R!EmptyRegistry]
    /\ announceDue' = [announceDue EXCEPT ![p] = 0]
    /\ cleanupDue' = [cleanupDue EXCEPT ![p] = 0]
    /\ upFor' = [upFor EXCEPT ![p] = 0]
    /\ UNCHANGED net

\* Ctrl+C or /quit: App::run aborts every task.  The registry lives in
\* memory only, and the discovery socket is closed, discarding the copies
\* addressed to it.  No Goodbye is sent (send_goodbye is never called).
\* The slot's nickname and port return to the defaults of Init: no process
\* holds them any more.
Stop(p) ==
    /\ up[p]
    /\ up' = [up EXCEPT ![p] = FALSE]
    /\ nickname' = [nickname EXCEPT ![p] = DefaultNick]
    /\ tcpPort' = [tcpPort EXCEPT ![p] = DefaultPort]
    /\ registry' = [registry EXCEPT ![p] = R!EmptyRegistry]
    /\ announceDue' = [announceDue EXCEPT ![p] = 0]
    /\ cleanupDue' = [cleanupDue EXCEPT ![p] = 0]
    /\ net' = {c \in net : c.dst # p}
    /\ upFor' = [upFor EXCEPT ![p] = 0]

-----------------------------------------------------------------------------
(* The three tasks of DiscoveryService::run.                               *)

\* The announce task survives its first statement: time::interval panics on
\* a zero period, which ends the spawned task.  run's select! then logs and
\* returns Ok(()), dropping (not aborting) the listen and cleanup tasks, and
\* App::run's discovery_task logs only an Err: the process stays up,
\* listening and sweeping, and never announces.
AnnounceTaskAlive == AnnounceInterval > 0

\* Mutation variant of Announce: the interval re-armed one unit too long.
AnnounceLate(p) ==
    /\ up[p]
    /\ AnnounceTaskAlive
    /\ announceDue[p] = 0
    /\ net' = net \cup {[dst |-> q, ip |-> HostOf[p], nickname |-> nickname[p],
                         tcp_port |-> tcpPort[p], age |-> 0] : q \in Running}
    /\ announceDue' = [announceDue EXCEPT ![p] = AnnounceInterval + 1]
    /\ UNCHANGED <<up, nickname, tcpPort, registry, cleanupDue, upFor>>

\* Announce loop: on each tick, send Announce{nickname, tcp_port} to the
\* group; every process up at that moment gets a copy.  A failed send_to
\* is logged and the loop goes on; the model counts it as the loss of the
\* copies (Lose).
Announce(p) ==
    /\ up[p]
    /\ AnnounceTaskAlive
    /\ announceDue[p] = 0
    /\ net' = net \cup {[dst |-> q, ip |-> HostOf[p], nickname |-> nickname[p],
                         tcp_port |-> tcpPort[p], age |-> 0] : q \in Running}
    /\ announceDue' = [announceDue EXCEPT ![p] = AnnounceInterval]
    /\ UNCHANGED <<up, nickname, tcpPort, registry, cleanupDue, upFor>>

\* Mutation variant of HandleAnnounce: the self-suppression check dropped.
HandleAnnounceNoSelfCheck(p, c) ==
    [registry EXCEPT ![p] = R!Upsert(@, <<c.ip, c.tcp_port>>, c.nickname)]

\* The state change of the listen loop for one received Announce: ignore
\* our own nickname (self-suppression), otherwise upsert the peer at the
\* sender's IP and the announced TCP port.
HandleAnnounce(p, c) ==
    IF c.nickname = nickname[p]
    THEN registry
    ELSE [registry EXCEPT ![p] = R!Upsert(@, <<c.ip, c.tcp_port>>, c.nickname)]

\* Listen loop: recv_from returns a copy addressed to this process.
Receive(p, c) ==
    /\ up[p]
    /\ c \in net
    /\ c.dst = p
    /\ net' = net \ {c}
    /\ registry' = HandleAnnounce(p, c)
    /\ UNCHANGED <<up, nickname, tcpPort, announceDue, cleanupDue, upFor>>

\* The same, for a copy the network delivers again later.
ReceiveDuplicate(p, c) ==
    /\ Duplicating
    /\ up[p]
    /\ c \in net
    /\ c.dst = p
    /\ registry' = HandleAnnounce(p, c)
    /\ UNCHANGED <<up, nickname, tcpPort, announceDue, cleanupDue, net, upFor>>

\* The network, or a failed send_to, loses a copy.
Lose(c) ==
    /\ Lossy
    /\ c \in net
    /\ net' = net \ {c}
    /\ UNCHANGED <<up, nickname, tcpPort, registry, announceDue, cleanupDue, upFor>>

\* Mutation variant of Cleanup: the interval re-armed one unit too long.
CleanupLate(p) ==
    /\ up[p]
    /\ cleanupDue[p] = 0
    /\ registry' = [registry EXCEPT ![p] = R!RemoveTimedOut(@, PeerTimeout)]
    /\ cleanupDue' = [cleanupDue EXCEPT ![p] = CleanupInterval + 1]
    /\ UNCHANGED <<up, nickname, tcpPort, announceDue, net, upFor>>

\* Cleanup loop: on each tick, remove_timed_out(peer_timeout).
Cleanup(p) ==
    /\ up[p]
    /\ cleanupDue[p] = 0
    /\ registry' = [registry EXCEPT ![p] = R!RemoveTimedOut(@, PeerTimeout)]
    /\ cleanupDue' = [cleanupDue EXCEPT ![p] = CleanupInterval]
    /\ UNCHANGED <<up, nickname, tcpPort, announceDue, net, upFor>>

-----------------------------------------------------------------------------
(* Time.                                                                   *)

\* One time unit passes.  It may not while a tick of a live interval is due or a
\* copy has been in flight for MaxDelay.  Every last_seen ages, every
\* interval counts down, every copy ages.
Tick ==
    /\ \A p \in Running : (AnnounceTaskAlive => announceDue[p] > 0)
                         /\ cleanupDue[p] > 0
    /\ \A c \in net : c.age < MaxDelay
    /\ registry' = [p \in Proc |-> R!Age(registry[p])]
    /\ announceDue' = [p \in Proc |-> IF up[p] /\ AnnounceTaskAlive
                                      THEN announceDue[p] - 1 ELSE 0]
    /\ cleanupDue' = [p \in Proc |-> IF up[p] THEN cleanupDue[p] - 1 ELSE 0]
    /\ net' = {[c EXCEPT !.age = @ + 1] : c \in net}
    /\ upFor' = [p \in Proc |-> IF up[p] /\ upFor[p] < Settle THEN upFor[p] + 1
                                ELSE upFor[p]]
    /\ UNCHANGED <<up, nickname, tcpPort>>

Next ==
    \/ \E p \in Proc : \E port \in Ports, nick \in NickChoice[p] : Start(p, port, nick)
    \/ \E p \in Proc : Stop(p) \/ Announce(p) \/ Cleanup(p)
    \/ \E p \in Proc, c \in net : Receive(p, c) \/ ReceiveDuplicate(p, c)
    \/ \E c \in net : Lose(c)
    \/ Tick

Spec == Init /\ [][Next]_vars

-----------------------------------------------------------------------------
(* Properties.                                                             *)

\* Self-suppression works: no running process holds an entry for its own
\* address, although multicast loopback hands it every one of its own
\* announcements (handle of Announce in the listen loop).
NoSelfEntry ==
    \A p \in Running : AddrOf(p) \notin DOMAIN registry[p]

\* The cleanup loop bounds staleness: no entry of a running process has gone
\* unrefreshed for longer than peer_timeout plus one cleanup period, so a
\* peer that stopped announcing leaves every registry within that time.
EvictionBound ==
    \A p \in Running :
        \A a \in DOMAIN registry[p] :
            registry[p][a].age <= PeerTimeout + CleanupInterval

\* Discovery is complete and fresh on a reliable network: once two
\* processes with different nicknames have both been up for Settle time
\* units, each holds the other at its current address and nickname, seen
\* within the last announce interval plus network delay; so when that is
\* at most peer_timeout, the cleanup loop never evicts a live peer.
LivePeersKnown ==
    \A p, q \in Running :
        (/\ p # q
         /\ nickname[p] # nickname[q]
         /\ upFor[p] = Settle
         /\ upFor[q] = Settle)
        => /\ AddrOf(q) \in DOMAIN registry[p]
           /\ registry[p][AddrOf(q)].nickname = nickname[q]
           /\ registry[p][AddrOf(q)].age <= AnnounceInterval + MaxDelay

-----------------------------------------------------------------------------
(* The inductive strengthening of NoSelfEntry (proved in DiscoveryProofs). *)

\* The OS never gives two running processes of one host the same port.
PortsUnique ==
    \A p, q \in Running :
        p # q /\ HostOf[p] = HostOf[q] => tcpPort[p] # tcpPort[q]

\* A copy in flight is addressed to a running process (closing the socket
\* discards what was addressed to it).
CopiesToRunning == \A c \in net : up[c.dst]

\* A copy that carries its receiver's own address carries its nickname too:
\* only the receiver itself can have sent it.
OwnAddressCopies ==
    \A c \in net : <<c.ip, c.tcp_port>> = AddrOf(c.dst) => c.nickname = nickname[c.dst]

-----------------------------------------------------------------------------
(* The inductive strengthening of EvictionBound (proved in DiscoveryProofs).*)

\* An entry's age plus the time left until the next cleanup tick never
\* exceeds peer_timeout plus the cleanup period: a cleanup leaves only
\* entries of age <= peer_timeout and re-arms the full period, and each time
\* unit adds to the age what it takes from the countdown.
AgeBudget ==
    \A p \in Running :
        \A a \in DOMAIN registry[p] :
            registry[p][a].age + cleanupDue[p] <= PeerTimeout + CleanupInterval

EvictionInv == TypeOK /\ AgeBudget

\* The inductive invariant of NoSelfEntry.
NoSelfEntryInv ==
    /\ TypeOK
    /\ PortsUnique
    /\ CopiesToRunning
    /\ OwnAddressCopies
    /\ NoSelfEntry

-----------------------------------------------------------------------------
(* The inductive strengthening of LivePeersKnown (proved in                *)
(* DiscoveryProofs, for a network that loses nothing and an announce      *)
(* interval plus delay within peer_timeout).                               *)

\* Time units since q's announce interval last ticked; it ticks at once
\* when the process starts, so this is AnnounceInterval before the first.
SinceAnnounce(q) == AnnounceInterval - announceDue[q]

\* Copies in flight to p that carry q's current address and nickname.
CopiesOf(q, p) ==
    {c \in net : /\ c.dst = p
                 /\ c.ip = HostOf[q] /\ c.tcp_port = tcpPort[q]
                 /\ c.nickname = nickname[q]}

\* A copy that carries a running process's address but another nickname
\* was sent by an earlier process at that address, before this one started.
StaleCopyAge ==
    \A c \in net, q \in Running :
        <<c.ip, c.tcp_port>> = AddrOf(q) /\ c.nickname # nickname[q]
            => c.age >= upFor[q]

\* A copy of q to p sent when no stale copy of q's address could remain and
\* p was already up.
GoodCopy(c, p, q) == upFor[q] >= c.age + MaxDelay + 1 /\ upFor[p] >= c.age + 1

\* ... and the announcement one interval before it was not such a copy.
FirstGood(c, p, q) ==
    upFor[q] <= c.age + AnnounceInterval + MaxDelay \/ upFor[p] <= c.age + AnnounceInterval

\* q's latest announcement sent a good copy to p.
LastAnnounceGood(p, q) ==
    /\ upFor[q] >= SinceAnnounce(q) + MaxDelay + 1
    /\ upFor[p] >= SinceAnnounce(q) + 1

\* p holds q at its address and nickname, refreshed no earlier than q's
\* latest announcement, or than one interval before a copy still in flight.
EntryFresh(p, q) ==
    /\ AddrOf(q) \in DOMAIN registry[p]
    /\ registry[p][AddrOf(q)].nickname = nickname[q]
    /\ \/ registry[p][AddrOf(q)].age <= SinceAnnounce(q)
       \/ \E c \in CopiesOf(q, p) : registry[p][AddrOf(q)].age <= c.age + AnnounceInterval

\* p holds a fresh entry of q, or the first good copy of q to p is still
\* in flight.
Knows(p, q) ==
    \/ EntryFresh(p, q)
    \/ \E c \in CopiesOf(q, p) : GoodCopy(c, p, q) /\ FirstGood(c, p, q)

\* Once q's latest announcement sent p a good copy, p knows q.
FreshView ==
    \A p, q \in Running :
        p # q /\ nickname[p] # nickname[q] /\ LastAnnounceGood(p, q) => Knows(p, q)

LiveInv == NoSelfEntryInv /\ StaleCopyAge /\ FreshView
=============================================================================
