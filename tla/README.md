# Formal model of parlance

TLA+ models of the peer-to-peer LAN chat in `src/`: UDP-multicast peer
discovery, the peer registry it maintains, and direct TCP messaging that
looks peers up in it. TLC checks the models on small instances. For every value of the constants,
TLAPS proves:

- type correctness, of discovery and of messaging composed with it;
- the self-suppression invariant;
- the eviction bound;
- that live peers stay known on a reliable network with a non-zero
  announce interval whose value plus the delay is within the timeout.

## 1. Inventory of the system

| Component | Source | State | Operations |
|---|---|---|---|
| Peer registry | `core/peer.rs` | `HashMap<PeerId, Peer>` behind an `RwLock`. `PeerId` is a UUIDv5 of the socket address, and each `Peer` holds a nickname, an address and `last_seen` | `upsert` (insert, or refresh `last_seen` and overwrite the nickname), `remove_timed_out`, `get_all`, plus `remove`, `get` and `count`, which are unused |
| Discovery service | `network/discovery.rs` | the multicast UDP socket and a config (nickname, TCP port, announce interval, peer timeout) | three tasks in `run`: **announce** (`interval.tick`, `send_to` the group), **listen** (`recv_from`, drop our own nickname, `upsert` at the sender's IP and the announced port), **cleanup** (every 5 s, `remove_timed_out(peer_timeout)`). `send_goodbye` and `handle_message` are never called |
| Messaging service | `network/messaging.rs` | TCP listener and event channel | `send_message` (`get_all` snapshot, first nickname match, `connect`, write one JSON line, flush, `Sent` event), the accept loop, and one spawned `handle_connection` per connection (read lines, emit `Received`) |
| Application | `app/mod.rs` | the spawned tasks | `run`: bind TCP (port 0 means an OS-chosen port), start discovery with the actual port, spawn the tasks, wait for Ctrl-C or `/quit`, then **abort** discovery, messaging and the event task. There is no goodbye. The input task serves `/send`, `/peers`, `/help` and `/quit` |
| Config, commands, validation, output, errors | `core/config.rs`, `app/command.rs`, `core/validation.rs`, `app/output.rs`, `core/error.rs`, `main.rs` | none at run time | parsing and formatting |

How the parts interact:

- The registry is shared. Discovery's listen task writes it, and its
  cleanup task deletes from it.
- The messaging input task reads it, and so does `/peers`.
- Different processes interact only through the network:
  - multicast announcements, which are received by everyone, the sender
    included (loopback);
  - TCP connections.

Behaviours that are hard to test:

- A process sees its own announcements.
- Announcements are lost, duplicated or delayed.
- A process is aborted with no goodbye and restarts, possibly on a new port
  and possibly reusing a port another process freed on the same host.
- A stale entry lives until the next cleanup after `peer_timeout`.
- `send_message` snapshots the registry, releases the lock, then connects.
  Anything can change in between.
- Two entries can share a nickname, for example the old and new port of a
  restarted peer.
- A failed connect emits no event.

## 2. Modules

| Module | Models | Notes |
|---|---|---|
| `PeerRegistry` | `core/peer.rs` | A registry is a function from addresses to `[nickname, age]`. Keying by address is exact because `PeerId::from_addr` is injective. `age` is `last_seen.elapsed()` in time units, saturating at `AgeCap` (any age above the timeout behaves the same). It is used via `INSTANCE` |
| `Discovery` | `discovery.rs`, the lifecycle of `app/mod.rs` | see the table of actions below |
| `Messaging` | `messaging.rs`, the input task | extends `Discovery` and adds `pending` (a `send_message` between lookup and connect), `conns` (flushed connections not yet read), `received`, `lastEvent` and `lastResult` |
| `DiscoveryProofs` | | TLAPS proofs of `TypeOK`, `NoSelfEntry` and `EvictionBound` |
| `FreshViewProofs` | | TLAPS proof of `LivePeersKnown` under `ReliableTiming` |
| `MessagingProofs` | | TLAPS proof of `MsgTypeOK` |
| `MC_Discovery`, `MC_Messaging` | | model values and small sets for TLC |

The actions of `Discovery`:

| Action | Code |
|---|---|
| `Start(p, port, nick)` | `App::run` up to the spawns. The port is any port not held on the same host, because the OS allocates ports uniquely. Timers are 0 because tokio intervals tick at once |
| `Stop(p)` | the aborts of `App::run`. The registry goes, the socket closes, and copies addressed to `p` are dropped |
| `Announce(p)` | one tick of the announce task: a copy goes to every running process, `p` included. It is guarded by `AnnounceTaskAlive` (a non-zero interval): `time::interval(0)` panics, which ends only the spawned announce task, so with interval 0 the process runs on without ever announcing |
| `Receive(p, c)` / `ReceiveDuplicate(p, c)` | the listen task: `HandleAnnounce` is the self check followed by `upsert` |
| `Lose(c)` | UDP loss, or a failed `send_to` |
| `Cleanup(p)` | one tick of the cleanup task |
| `Tick` | one time unit passes: ages and countdowns advance. It is blocked while a live interval is due or a copy has reached `MaxDelay`, so timers fire on time and delivery takes at most `MaxDelay` |

The actions of `Messaging`:

| Action | Code |
|---|---|
| `Lookup(p, to)` | `get_all`, then `find`. It either fails with PeerNotFound, or picks **any** matching entry, since HashMap order is unspecified |
| `Connect(p)` | `connect`, write and flush, then `Sent`. If nobody is listening at the address, it takes the error path |
| `Deliver(q, c)` | `handle_connection` |
| `MStart` / `MStop` | the `Start` / `Stop` of `Discovery`, plus the messaging state |

Abstractions:

- A message is its sender's nickname. Content, timestamps and JSON are left
  out, because no property depends on them.
- Time is discrete.
- The cleanup interval is a constant (5 s in the code).
- `upFor` is a history variable: how long a process has been up, capped at
  `Settle = AnnounceInterval + 2·MaxDelay + 1`. That is how long it takes
  until a process's latest announcement was sent after its peer started,
  and any copy carrying a previous holder's nickname at its address has
  been delivered or dropped. An earlier version used
  `AnnounceInterval + MaxDelay + 1`. The proof attempt showed it too short:
  with delay 1, a peer restarting at the same address under another
  nickname is, for one time unit, still listed under the old one. That was a
  bound of the property, not a code bug.

## 3. Runs

| Run | Config | Expect | Checks |
|---|---|---|---|
| discovery_lossy | `MC_Discovery.cfg`: 2 processes on 1 host, 2 ports, 2 nicknames, interval 1, timeout 3, cleanup 1, delay ≤ 1, loss (duplication is left to the reliable run, and the two slots, which are interchangeable here, are reduced by symmetry, to stay within five minutes) | pass | `TypeOK`; `NoSelfEntry` (no running process lists its own address); `EvictionBound` (no entry is older than timeout + cleanup interval) |
| discovery_reliable | `MC_DiscoveryReliable.cfg`: 2 hosts, 1 port, nicknames alice / {bob, carol}, interval 1, timeout 3, cleanup 1, delay ≤ 1, duplication, no loss | pass | `LivePeersKnown`: two processes with distinct nicknames that have both been up for `Settle` know each other at the current address, with the current nickname, and with age ≤ interval + delay |
| messaging_types | `MC_Messaging.cfg`: 2 hosts, 1 port, alice sends to bob, interval 1, timeout 3, delay 0, loss | pass | `MsgTypeOK` over the composed discovery and messaging steps, restarts and failed connects included |
| send_error_event | `MC_MessagingSendError.cfg`: 2 hosts, 2 ports | violation | `SendFailureReported`: finding 1 |
| misdelivery | `MC_MessagingMisdelivery.cfg`: 2 hosts, one port t1, a third nickname carol | violation | `DeliveredToAddressee` (every message a running process received was addressed to its nickname): finding 2 |
| interval_misconfig | `MC_DiscoveryMisconfig.cfg`: 2 hosts, 2 ports, interval 2, timeout 1, no loss | violation | `LivePeersKnown`: finding 3 |
| zero_interval | `MC_DiscoveryZeroInterval.cfg`: 2 hosts, 2 ports, interval 0, timeout 3, no loss | violation | `LivePeersKnown`: finding 4 |

Why the bounds are enough:

- One host with two ports gives the cases of:
  - port reuse;
  - a restart on the old or on a new port;
  - a process receiving its own announcements;
  - a stale entry at an address now held by another process.
- Timeout 3 against interval 1 and cleanup 1 gives room for an entry to
  age, be refreshed, and be evicted on time or late. A delay of 1 lets
  stale copies from before a restart arrive afterwards.
- In the reliable run, one port per host forces a restart onto the old
  address, and the second process chooses between bob and carol at each
  start, so a peer can come back at the same address under a new
  nickname while copies of its old announcements are still in flight.
  This is the case that showed the old `Settle` too short.
- The messaging runs use delay 0 to stay under five minutes. Restarts,
  loss and stale entries still happen in them.

Each property of a pass run has a mutant that TLC catches (listed in
`PROJECT.json`):

- `NoSelfEntry`: the self check dropped from the listen loop;
- `EvictionBound`: `>` in `is_timed_out` replaced by an off-by-one;
- `TypeOK`: the cleanup interval re-armed one unit late;
- `LivePeersKnown` and `MsgTypeOK`: the announce interval re-armed one
  unit late.

No fairness is assumed anywhere: every property checked is a safety
property.

## 4. Findings

1. `send_message` never emits `SendError`, although spec §4.3 requires it
   (`messaging.rs:117`, and the variant is dead code).
2. A message can be shown by the wrong user (`messaging.rs:117`). TLC's
   trace has 10 states:
   1. alice starts on host h1;
   2. bob starts at h2:t1;
   3. bob announces;
   4. bob stops, and carol starts at the same address h2:t1;
   5. alice receives bob's announcement, which was still in flight, and
      lists bob at h2:t1;
   6. alice sends to bob. The lookup yields h2:t1 and the connect succeeds;
   7. carol's `handle_connection` accepts and shows the message.

   `TextMessage` has no recipient field and nothing checks one. The spec
   does not address this case.
3. The configuration accepts `announce_interval_secs ≥ timeout_secs`
   (`config.rs:49`). With interval 2 and timeout 1, cleanup evicts a peer that
   is still announcing, so `LivePeersKnown` fails. The spec states no
   constraint between the two values.
4. The configuration also accepts `announce_interval_secs = 0`.
   `time::interval` then panics inside the spawned announce task
   (`discovery.rs:188`). The `select!` of `DiscoveryService::run` logs and
   returns `Ok(())` (`discovery.rs:265-277`), dropping but not aborting the
   listen and cleanup tasks. `App::run`'s `discovery_task` logs only an `Err`,
   and `App::run` waits only for Ctrl-C or the input task. So the process
   keeps running, listening and sweeping, but it never announces, and no
   peer ever lists it: `LivePeersKnown` fails as soon as two processes have
   been up for `Settle`. Spec §4.2 says the engine is failed, and the failure
   is surfaced to the caller, when any of the three activities terminates.

## 5. Proofs (`DiscoveryProofs`, `FreshViewProofs`, `MessagingProofs`)

The proofs assume:

- `HostOf ∈ [Proc → IP]`;
- a natural announce interval (0 is allowed, as the configuration allows
  it) and a positive cleanup interval (the code fixes it at 5 s);
- natural numbers for the timeout and the delay;
- non-empty sets of ports and nicknames;
- `NickChoice ⊆ Nicks`;
- Boolean `Lossy` and `Duplicating`, and `Senders ⊆ Proc` for messaging.

`PeersStayKnown` also takes `ReliableTiming` as a hypothesis (see below).

What is proved:

- `TypeCorrect`: `Spec ⇒ □TypeOK`. It rests on lemmas that `Upsert`,
  `RemoveTimedOut`, `Age` and the empty registry return registries.
- `SelfSuppression`: `Spec ⇒ □NoSelfEntry`. On its own, `NoSelfEntry` is not
  inductive. A copy of `p`'s own announcement could be in flight, and `p`
  could restart with another nickname at the same address. The proof uses
  the inductive invariant `NoSelfEntryInv`:
  - `TypeOK`;
  - `PortsUnique`: running processes on one host have different ports;
  - `CopiesToRunning`: every in-flight copy is addressed to a running
    process, because abort drops the socket's queue;
  - `OwnAddressCopies`: a copy to `p` that carries `p`'s address also carries
    `p`'s nickname.

  The self check then discards every such copy. Each action is proved in its
  own step.
- `EvictionBounded`: `Spec ⇒ □EvictionBound`. `EvictionBound` is not
  inductive either: an entry of age `PeerTimeout + CleanupInterval` must not
  age further. The proof uses `EvictionInv`, which is `TypeOK` plus
  `AgeBudget`: for every entry, its age plus the countdown to the next
  cleanup is at most `PeerTimeout + CleanupInterval`.
  - `Tick` raises the age by one and lowers the countdown by one. It is
    blocked when the countdown is 0.
  - `Cleanup` re-arms the countdown, and keeps only entries with age at most
    `PeerTimeout`.
  - `upsert` resets the age to 0.
  - `Start` begins with an empty registry.

  Lemmas about `RemoveTimedOut` and `Age` carry the per-entry facts.
- `PeersStayKnown`: `ReliableTiming ⇒ (Spec ⇒ □LivePeersKnown)`, where
  `ReliableTiming` is `¬Lossy ∧ AnnounceTaskAlive ∧ AnnounceInterval +
  MaxDelay ≤ PeerTimeout`. Each hypothesis is needed:
  - with loss, every announcement can be lost;
  - with interval 0, the `zero_interval` run shows that nobody announces;
  - with a larger interval, the `interval_misconfig` run shows the eviction
    of a live peer.

  The inductive invariant `LiveInv` is `NoSelfEntryInv` plus:
  - `StaleCopyAge`: a copy carrying the address of a running `q` but another
    nickname is at least `upFor[q]` old. It was sent before `q` started,
    because ports are unique on a host;
  - `FreshView`: if `p` and `q` run with different nicknames, and
    `LastAnnounceGood(p, q)` holds, then `Knows(p, q)`. The hypothesis says
    that `q`'s latest announcement was sent after `p` started, and at least
    `MaxDelay + 1` after `q` started. `Knows` says that either `p`'s entry
    for `q` is `EntryFresh`, or a first such copy is still in flight.
    `EntryFresh` means the right nickname, and an age at most the time since
    `q` last announced, or at most a pending copy's age plus the interval.

  The step proof (`FreshStep`) has one case per action.
  - `Announce(q)` puts a new copy in flight.
  - `Receive` of a current copy makes the entry fresh. A stale copy at the
    same address cannot arrive once `LastAnnounceGood` holds, by
    `StaleCopyAge`.
  - `Cleanup` removes nothing fresh, because `FreshAge` bounds a fresh
    entry's age by `AnnounceInterval + MaxDelay ≤ PeerTimeout`.
  - `Lose` is excluded by `¬Lossy`.
  - `Tick` ages entries and copies by one, as it does the time since the
    last announcement. That needs the announce countdown to run, which is
    `AnnounceTaskAlive`.

  At `upFor = Settle`, `LastAnnounceGood` holds, and a pending first copy
  would be older than `MaxDelay`. So the entry is fresh, which is
  `LivePeersKnown`. TLC checked `LiveInv` as an invariant of the reliable
  instance with (interval, delay) = (1, 1), (2, 1) and (1, 2) before the
  proof.
- `MsgTypeCorrect`: `MsgSpec ⇒ □MsgTypeOK`. The discovery part reuses
  `TypeStep`. `Lookup` stores an address of the registry snapshot, and
  `Connect` adds a connection to a running listener.

What is left to TLC: the properties of the violation runs, which are
false. No liveness property is stated. TLAPS could not prove one anyway,
since it does not reason about `ENABLED`. The one candidate, delivery of
a flushed message, would follow from a fairness assumption on `Deliver`
alone.

## 6. Not modelled

| Not modelled | Why |
|---|---|
| Socket set-up, JSON encoding, terminal I/O, command parsing, configuration files | pure I/O or parsing |
| `send_goodbye`, `handle_message`, `send_to_peer`, `remove`, `get` | never called |
| A listen or cleanup task ending (`discovery.rs:265`) | neither loop returns: the listen loop logs every error, and the cleanup interval is a constant 5 s. The announce task's end on a zero interval is modelled (`AnnounceTaskAlive`) |
| A `connect` that blocks forever (`messaging.rs:117`) | the model's hosts refuse connections at once. A silently dropping host would need a model of TCP timeouts |
| Lookup order among several entries with one nickname | `Lookup` picks any match. Spec §9 documents that collisions are not deduplicated |

## 7. Plan for later work

- Prove `DeliveredToAddressee`-style invariants of `Messaging` where they
  hold (on one port per host).
- Model a blocking `connect` and check that the input task can be stuck.
