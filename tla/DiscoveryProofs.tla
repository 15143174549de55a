--------------------------- MODULE DiscoveryProofs ---------------------------
(***************************************************************************)
(* Proofs about Discovery, for every value of the constants that satisfies *)
(* the module's assumptions.                                               *)
(***************************************************************************)
EXTENDS Discovery, TLAPS

USE HostAssumption, IntervalAssumption, NonEmptyAssumption, NickAssumption,
    FlagAssumption

-----------------------------------------------------------------------------
(* Lemmas on the registry operators of PeerRegistry.                       *)

\* The maximal age is a natural.
LEMMA AgeCapNat == AgeCap \in Nat
BY DEF AgeCap

\* upsert keeps a registry a registry.
LEMMA UpsertType ==
    ASSUME NEW r, R!IsRegistry(r), NEW a \in Addr, NEW n \in Nicks
    PROVE  R!IsRegistry(R!Upsert(r, a, n))
BY AgeCapNat DEF R!IsRegistry, R!Upsert, R!Peer

\* remove_timed_out keeps a registry a registry and only removes entries.
LEMMA RemoveTimedOutType ==
    ASSUME NEW r, R!IsRegistry(r), NEW t
    PROVE  /\ R!IsRegistry(R!RemoveTimedOut(r, t))
           /\ DOMAIN R!RemoveTimedOut(r, t) \subseteq DOMAIN r
BY DEF R!IsRegistry, R!RemoveTimedOut, R!TimedOutIds, R!Restrict

\* Ageing keeps a registry a registry over the same addresses.
LEMMA AgeType ==
    ASSUME NEW r, R!IsRegistry(r)
    PROVE  /\ R!IsRegistry(R!Age(r))
           /\ DOMAIN R!Age(r) = DOMAIN r
BY AgeCapNat DEF R!IsRegistry, R!Age, R!Peer

\* The empty registry.
LEMMA EmptyType == R!IsRegistry(R!EmptyRegistry) /\ DOMAIN R!EmptyRegistry = {}
BY DEF R!IsRegistry, R!EmptyRegistry

-----------------------------------------------------------------------------
(* Type correctness.                                                       *)

\* Every copy in flight, aged by one unit while younger than MaxDelay, is
\* still a copy.
LEMMA CopyAgeType ==
    ASSUME NEW c \in Copy, c.age < MaxDelay
    PROVE  [c EXCEPT !.age = @ + 1] \in Copy
BY DEF Copy

\* The initial state is well typed.
LEMMA TypeInit == Init => TypeOK
BY EmptyType DEF Init, TypeOK, DefaultNick, DefaultPort, Settle

\* Every step keeps the state well typed.
LEMMA TypeStep == TypeOK /\ [Next]_vars => TypeOK'
  <2> SUFFICES ASSUME TypeOK, [Next]_vars PROVE TypeOK'
    OBVIOUS
  <2>1. ASSUME NEW p \in Proc, NEW port \in Ports, NEW nick \in Nicks,
               Start(p, port, nick)
        PROVE  TypeOK'
    BY <2>1, EmptyType DEF Start, TypeOK, Settle
  <2>2. ASSUME NEW p \in Proc, Stop(p) PROVE TypeOK'
    BY <2>2, EmptyType DEF Stop, TypeOK, DefaultNick, DefaultPort, Settle
  <2>3. ASSUME NEW p \in Proc, Announce(p) PROVE TypeOK'
    BY <2>3 DEF Announce, TypeOK, Copy, Running
  <2>4. ASSUME NEW p \in Proc, Cleanup(p) PROVE TypeOK'
    BY <2>4, RemoveTimedOutType DEF Cleanup, TypeOK
  <2>5. ASSUME NEW p \in Proc, NEW c \in net, Receive(p, c) PROVE TypeOK'
    <3>1. <<c.ip, c.tcp_port>> \in Addr /\ c.nickname \in Nicks
      BY DEF TypeOK, Copy, Addr
    <3>2. \A q \in Proc : R!IsRegistry(HandleAnnounce(p, c)[q])
      BY <3>1, UpsertType DEF TypeOK, HandleAnnounce
    <3>3. DOMAIN HandleAnnounce(p, c) = Proc
      BY DEF TypeOK, HandleAnnounce
    <3>. QED BY <2>5, <3>2, <3>3 DEF Receive, TypeOK
  <2>6. ASSUME NEW p \in Proc, NEW c \in net, ReceiveDuplicate(p, c)
        PROVE  TypeOK'
    <3>1. <<c.ip, c.tcp_port>> \in Addr /\ c.nickname \in Nicks
      BY DEF TypeOK, Copy, Addr
    <3>2. \A q \in Proc : R!IsRegistry(HandleAnnounce(p, c)[q])
      BY <3>1, UpsertType DEF TypeOK, HandleAnnounce
    <3>3. DOMAIN HandleAnnounce(p, c) = Proc
      BY DEF TypeOK, HandleAnnounce
    <3>. QED BY <2>6, <3>2, <3>3 DEF ReceiveDuplicate, TypeOK
  <2>7. ASSUME NEW c \in net, Lose(c) PROVE TypeOK'
    BY <2>7 DEF Lose, TypeOK
  <2>8. ASSUME Tick PROVE TypeOK'
    <3>1. net' \subseteq Copy
      BY <2>8, CopyAgeType DEF Tick, TypeOK
    <3>2. \A q \in Proc : R!IsRegistry(registry'[q])
      BY <2>8, AgeType DEF Tick, TypeOK
    <3>3. /\ announceDue' \in [Proc -> 0..AnnounceInterval]
          /\ cleanupDue' \in [Proc -> 0..CleanupInterval]
          /\ upFor' \in [Proc -> 0..Settle]
      BY <2>8 DEF Tick, TypeOK, Running, Settle
    <3>. QED BY <2>8, <3>1, <3>2, <3>3 DEF Tick, TypeOK
  <2>9. CASE UNCHANGED vars
    BY <2>9 DEF vars, TypeOK
  <2>. QED BY <2>1, <2>2, <2>3, <2>4, <2>5, <2>6, <2>7, <2>8, <2>9 DEF Next

\* The type invariant holds in every reachable state.
THEOREM TypeCorrect == Spec => []TypeOK
BY TypeInit, TypeStep, PTL DEF Spec

-----------------------------------------------------------------------------
(* Self-suppression.                                                       *)

\* Upserting an address other than a keeps a out of the registry.
LEMMA UpsertOther ==
    ASSUME NEW r, NEW a, NEW b, NEW n, a # b, a \notin DOMAIN r
    PROVE  a \notin DOMAIN R!Upsert(r, b, n)
BY DEF R!Upsert

\* The invariant holds initially.
LEMMA SelfInit == Init => NoSelfEntryInv
BY TypeInit, EmptyType
   DEF Init, NoSelfEntryInv, PortsUnique, CopiesToRunning, OwnAddressCopies,
       NoSelfEntry, Running

\* Every step preserves the invariant.
LEMMA SelfStep == NoSelfEntryInv /\ [Next]_vars => NoSelfEntryInv'
<1> SUFFICES ASSUME NoSelfEntryInv, [Next]_vars PROVE NoSelfEntryInv'
  OBVIOUS
<1>0. TypeOK /\ TypeOK'
  BY TypeStep DEF NoSelfEntryInv
<1> USE DEF NoSelfEntryInv
<1>1. ASSUME NEW p \in Proc, NEW port \in Ports, NEW nick \in Nicks,
             Start(p, port, nick)
      PROVE  NoSelfEntryInv'
  <2>1. \A c \in net : c.dst # p
    BY <1>1 DEF Start, CopiesToRunning
  <2>2. PortsUnique'
    BY <1>1, <1>0 DEF Start, PortsUnique, Running, TypeOK
  <2>3. CopiesToRunning'
    BY <1>1, <1>0 DEF Start, CopiesToRunning, TypeOK
  <2>4. OwnAddressCopies'
    BY <1>1, <1>0, <2>1 DEF Start, OwnAddressCopies, AddrOf, TypeOK, Copy
  <2>5. NoSelfEntry'
    BY <1>1, <1>0, EmptyType DEF Start, NoSelfEntry, AddrOf, Running, TypeOK
  <2>. QED BY <1>0, <2>2, <2>3, <2>4, <2>5
<1>2. ASSUME NEW p \in Proc, Stop(p) PROVE NoSelfEntryInv'
  <2>1. PortsUnique'
    BY <1>2, <1>0 DEF Stop, PortsUnique, Running, TypeOK
  <2>2. CopiesToRunning'
    BY <1>2, <1>0 DEF Stop, CopiesToRunning, TypeOK
  <2>3. OwnAddressCopies'
    BY <1>2, <1>0 DEF Stop, OwnAddressCopies, AddrOf, TypeOK, Copy
  <2>4. NoSelfEntry'
    BY <1>2, <1>0 DEF Stop, NoSelfEntry, AddrOf, Running, TypeOK
  <2>. QED BY <1>0, <2>1, <2>2, <2>3, <2>4
<1>3. ASSUME NEW p \in Proc, Announce(p) PROVE NoSelfEntryInv'
  <2>1. CopiesToRunning'
    BY <1>3, <1>0 DEF Announce, CopiesToRunning, Running, TypeOK
  <2>2. OwnAddressCopies'
    <3> SUFFICES ASSUME NEW c \in net', <<c.ip, c.tcp_port>> = AddrOf(c.dst)'
                 PROVE  c.nickname = nickname'[c.dst]
      BY DEF OwnAddressCopies
    <3>1. CASE c \in net
      BY <3>1, <1>3 DEF Announce, OwnAddressCopies, AddrOf
    <3>2. CASE c \notin net
      <4>1. PICK q \in Running :
              c = [dst |-> q, ip |-> HostOf[p], nickname |-> nickname[p],
                   tcp_port |-> tcpPort[p], age |-> 0]
        BY <3>2, <1>3 DEF Announce
      <4>2. HostOf[q] = HostOf[p] /\ tcpPort[q] = tcpPort[p]
        BY <4>1, <1>3 DEF Announce, AddrOf
      <4>3. q = p
        BY <4>2, <1>3 DEF PortsUnique, Running, Announce
      <4>. QED BY <4>1, <4>3, <1>3 DEF Announce
    <3>. QED BY <3>1, <3>2
  <2>3. PortsUnique' /\ NoSelfEntry'
    BY <1>3 DEF Announce, PortsUnique, NoSelfEntry, AddrOf, Running
  <2>. QED BY <1>0, <2>1, <2>2, <2>3
<1>4. ASSUME NEW p \in Proc, Cleanup(p) PROVE NoSelfEntryInv'
  <2>1. PortsUnique' /\ CopiesToRunning' /\ OwnAddressCopies'
    BY <1>4 DEF Cleanup, PortsUnique, CopiesToRunning, OwnAddressCopies,
                AddrOf, Running
  <2>2. NoSelfEntry'
    BY <1>4, <1>0, RemoveTimedOutType
       DEF Cleanup, NoSelfEntry, AddrOf, Running, TypeOK
  <2>. QED BY <1>0, <2>1, <2>2
<1>5. ASSUME NEW p \in Proc, NEW c \in net, Receive(p, c) \/ ReceiveDuplicate(p, c)
      PROVE  NoSelfEntryInv'
  <2>1. registry' = HandleAnnounce(p, c) /\ net' \subseteq net
        /\ UNCHANGED <<up, nickname, tcpPort>>
    BY <1>5 DEF Receive, ReceiveDuplicate
  <2>2. PortsUnique' /\ CopiesToRunning' /\ OwnAddressCopies'
    BY <2>1 DEF PortsUnique, CopiesToRunning, OwnAddressCopies, AddrOf, Running
  <2>3. c.dst = p /\ up[p]
    BY <1>5 DEF Receive, ReceiveDuplicate
  <2>4. NoSelfEntry'
    <3> SUFFICES ASSUME NEW q \in Running
                 PROVE  AddrOf(q) \notin DOMAIN HandleAnnounce(p, c)[q]
      BY <2>1 DEF NoSelfEntry, AddrOf, Running
    <3>1. CASE c.nickname = nickname[p]
      BY <3>1 DEF HandleAnnounce, NoSelfEntry
    <3>2. CASE c.nickname # nickname[p] /\ q # p
      BY <3>2 DEF HandleAnnounce, NoSelfEntry, TypeOK
    <3>3. CASE c.nickname # nickname[p] /\ q = p
      <4>1. <<c.ip, c.tcp_port>> # AddrOf(p)
        BY <3>3, <2>3 DEF OwnAddressCopies
      <4>2. AddrOf(p) \notin DOMAIN registry[p]
        BY <2>3 DEF NoSelfEntry, Running
      <4>3. HandleAnnounce(p, c)[p] = R!Upsert(registry[p], <<c.ip, c.tcp_port>>, c.nickname)
        BY <3>3 DEF HandleAnnounce, TypeOK
      <4>. QED BY <3>3, <4>1, <4>2, <4>3, UpsertOther
    <3>. QED BY <3>1, <3>2, <3>3
  <2>. QED BY <1>0, <2>2, <2>4
<1>6. ASSUME NEW c \in net, Lose(c) PROVE NoSelfEntryInv'
  BY <1>6, <1>0 DEF Lose, PortsUnique, CopiesToRunning, OwnAddressCopies,
                    NoSelfEntry, AddrOf, Running
<1>7. ASSUME Tick PROVE NoSelfEntryInv'
  <2>1. PortsUnique'
    BY <1>7 DEF Tick, PortsUnique, Running
  <2>2. \A d \in net' : \E c \in net : /\ d.dst = c.dst /\ d.ip = c.ip
                                     /\ d.tcp_port = c.tcp_port
                                     /\ d.nickname = c.nickname
    BY <1>7, <1>0 DEF Tick, TypeOK, Copy
  <2>3. CopiesToRunning' /\ OwnAddressCopies'
    BY <1>7, <2>2 DEF Tick, CopiesToRunning, OwnAddressCopies, AddrOf
  <2>4. NoSelfEntry'
    BY <1>7, <1>0, AgeType DEF Tick, NoSelfEntry, AddrOf, Running, TypeOK
  <2>. QED BY <1>0, <2>1, <2>3, <2>4
<1>8. CASE UNCHANGED vars
  BY <1>8, <1>0 DEF vars, PortsUnique, CopiesToRunning, OwnAddressCopies,
                    NoSelfEntry, AddrOf, Running
<1>. QED BY <1>1, <1>2, <1>3, <1>4, <1>5, <1>6, <1>7, <1>8 DEF Next

\* No running process ever holds an entry for its own address: the
\* listen loop's self-suppression, the OS's port allocation and the
\* closing of the socket on abort together keep its own announcements out.
THEOREM SelfSuppression == Spec => []NoSelfEntry
<1>1. NoSelfEntryInv => NoSelfEntry
  BY DEF NoSelfEntryInv
<1>. QED BY <1>1, SelfInit, SelfStep, PTL DEF Spec
-----------------------------------------------------------------------------
(* Eviction bound.                                                         *)

\* remove_timed_out keeps only entries of age at most the timeout,
\* unchanged.
LEMMA RemoveTimedOutAge ==
    ASSUME NEW r, NEW t
    PROVE  \A x \in DOMAIN R!RemoveTimedOut(r, t) :
               /\ x \in DOMAIN r
               /\ R!RemoveTimedOut(r, t)[x] = r[x]
               /\ ~(r[x].age > t)
BY DEF R!RemoveTimedOut, R!TimedOutIds, R!IsTimedOut, R!Restrict

\* Ageing adds at most one unit to an entry's age.
LEMMA AgeStep ==
    ASSUME NEW r, R!IsRegistry(r)
    PROVE  \A x \in DOMAIN r : R!Age(r)[x].age <= r[x].age + 1
BY AgeCapNat DEF R!IsRegistry, R!Age, R!Peer

\* Ageing a registry keeps each entry's nickname and never makes it
\* younger, adding at most one unit to its age.
LEMMA AgeEntry ==
    ASSUME NEW r, R!IsRegistry(r), NEW x \in DOMAIN r
    PROVE  /\ x \in DOMAIN R!Age(r)
           /\ R!Age(r)[x].nickname = r[x].nickname
           /\ R!Age(r)[x].age \in Nat
           /\ R!Age(r)[x].age >= r[x].age
           /\ R!Age(r)[x].age <= r[x].age + 1
BY AgeCapNat DEF R!IsRegistry, R!Age, R!Peer

\* The budget holds initially.
LEMMA EvictionInit == Init => EvictionInv
BY TypeInit, EmptyType DEF Init, EvictionInv, AgeBudget, Running

\* Every step keeps the budget.
LEMMA EvictionStep == EvictionInv /\ [Next]_vars => EvictionInv'
<1> SUFFICES ASSUME EvictionInv, [Next]_vars PROVE AgeBudget'
  BY TypeStep DEF EvictionInv
<1>0. TypeOK /\ TypeOK'
  BY TypeStep DEF EvictionInv
<1> DEFINE Bound == PeerTimeout + CleanupInterval
<1>a. AgeBudget
  BY DEF EvictionInv
<1>1. ASSUME NEW p \in Proc, NEW port \in Ports, NEW nick \in Nicks,
             Start(p, port, nick)
      PROVE  AgeBudget'
  BY <1>1, <1>a, <1>0, EmptyType DEF Start, AgeBudget, Running, TypeOK
<1>2. ASSUME NEW p \in Proc, Stop(p) PROVE AgeBudget'
  BY <1>2, <1>a, <1>0, EmptyType DEF Stop, AgeBudget, Running, TypeOK
<1>3. ASSUME NEW p \in Proc, Announce(p) PROVE AgeBudget'
  BY <1>3, <1>a, <1>0 DEF Announce, AgeBudget, Running, TypeOK
<1>4. ASSUME NEW p \in Proc, NEW c \in net,
             Receive(p, c) \/ ReceiveDuplicate(p, c)
      PROVE  AgeBudget'
  <2>1. /\ registry' = HandleAnnounce(p, c)
        /\ UNCHANGED <<up, cleanupDue>>
    BY <1>4 DEF Receive, ReceiveDuplicate
  <2>2. CASE c.nickname = nickname[p]
    BY <2>1, <2>2, <1>a DEF HandleAnnounce, AgeBudget, Running
  <2>3. CASE c.nickname # nickname[p]
    <3> DEFINE a == <<c.ip, c.tcp_port>>
    <3>1. registry' = [registry EXCEPT ![p] = R!Upsert(registry[p], a, c.nickname)]
      BY <2>1, <2>3 DEF HandleAnnounce
    <3>2. \A x \in DOMAIN registry'[p] :
            registry'[p][x].age + cleanupDue[p] <= Bound
      <4> SUFFICES ASSUME NEW x \in DOMAIN registry'[p]
                   PROVE  registry'[p][x].age + cleanupDue[p] <= Bound
        OBVIOUS
      <4>1. registry'[p] = R!Upsert(registry[p], a, c.nickname)
        BY <3>1, <1>0 DEF TypeOK
      <4>2. cleanupDue[p] \in 0..CleanupInterval /\ PeerTimeout \in Nat
        BY <1>0 DEF TypeOK
      <4>0. /\ DOMAIN R!Upsert(registry[p], a, c.nickname) = DOMAIN registry[p] \cup {a}
            /\ R!Upsert(registry[p], a, c.nickname)[a].age = 0
            /\ \A y \in DOMAIN registry[p] \ {a} :
                   R!Upsert(registry[p], a, c.nickname)[y] = registry[p][y]
        BY DEF R!Upsert
      <4>3. CASE x = a
        BY <4>0, <4>1, <4>2, <4>3
      <4>4. CASE x # a
        <5>1. x \in DOMAIN registry[p] /\ registry'[p][x] = registry[p][x]
          BY <4>0, <4>1, <4>4
        <5>2. p \in Running
          BY <1>4 DEF Receive, ReceiveDuplicate, Running
        <5>. QED BY <5>1, <5>2, <1>a DEF AgeBudget
      <4>. QED BY <4>3, <4>4
    <3>. QED BY <3>1, <3>2, <2>1, <1>a, <1>0 DEF AgeBudget, Running, TypeOK
  <2>. QED BY <2>2, <2>3
<1>5. ASSUME NEW c \in net, Lose(c) PROVE AgeBudget'
  BY <1>5, <1>a DEF Lose, AgeBudget, Running
<1>6. ASSUME NEW p \in Proc, Cleanup(p) PROVE AgeBudget'
  <2>1. \A x \in DOMAIN registry'[p] : registry'[p][x].age <= PeerTimeout
    <3>1. \A x \in DOMAIN registry[p] : registry[p][x].age \in Nat
      BY <1>0, AgeCapNat DEF TypeOK, R!IsRegistry, R!Peer
    <3>2. registry'[p] = R!RemoveTimedOut(registry[p], PeerTimeout)
      BY <1>6, <1>0 DEF Cleanup, TypeOK
    <3>. QED BY <3>1, <3>2, RemoveTimedOutAge, IntervalAssumption
  <2> SUFFICES ASSUME NEW q \in Running', NEW x \in DOMAIN registry'[q]
               PROVE  registry'[q][x].age + cleanupDue'[q] <= Bound
    BY DEF AgeBudget
  <2>2. q \in Running
    BY <1>6 DEF Cleanup, Running
  <2>3. CASE q = p
    <3>1. registry'[q][x] \in R!Peer
      BY <1>0 DEF TypeOK, R!IsRegistry, Running
    <3>2. cleanupDue'[q] = CleanupInterval
      BY <2>3, <1>6, <1>0 DEF Cleanup, TypeOK
    <3>. QED BY <2>1, <2>3, <3>1, <3>2, AgeCapNat DEF R!Peer
  <2>4. CASE q # p
    BY <2>2, <2>4, <1>6, <1>a, <1>0 DEF Cleanup, AgeBudget, TypeOK
  <2>. QED BY <2>3, <2>4
<1>7. ASSUME Tick PROVE AgeBudget'
  <2> SUFFICES ASSUME NEW p \in Running', NEW x \in DOMAIN registry'[p]
               PROVE  registry'[p][x].age + cleanupDue'[p] <= Bound
    BY DEF AgeBudget
  <2>1. p \in Running /\ cleanupDue[p] > 0 /\ cleanupDue'[p] = cleanupDue[p] - 1
    BY <1>7, <1>0 DEF Tick, Running, TypeOK
  <2>2. /\ x \in DOMAIN registry[p]
        /\ registry'[p][x].age <= registry[p][x].age + 1
    BY <1>7, <1>0, AgeType, AgeStep, <2>1 DEF Tick, TypeOK, Running
  <2>3. registry[p][x].age + cleanupDue[p] <= Bound
    BY <2>1, <2>2, <1>a DEF AgeBudget
  <2>4. registry[p][x] \in R!Peer /\ cleanupDue[p] \in Nat
    BY <2>1, <2>2, <1>0 DEF TypeOK, R!IsRegistry, Running
  <2>5. registry[p][x].age \in Nat
    BY <2>4, AgeCapNat DEF R!Peer
  <2>6. registry'[p][x].age \in Nat
    <3>1. registry'[p][x] \in R!Peer
      BY <1>0 DEF TypeOK, R!IsRegistry, Running
    <3>. QED BY <3>1, AgeCapNat DEF R!Peer
  <2>. QED BY <2>1, <2>2, <2>3, <2>4, <2>5, <2>6
<1>8. CASE UNCHANGED vars
  BY <1>8, <1>a DEF vars, AgeBudget, Running
<1>. QED BY <1>1, <1>2, <1>3, <1>4, <1>5, <1>6, <1>7, <1>8 DEF Next

\* The cleanup loop bounds staleness: in every reachable state no entry of
\* a running process is older than peer_timeout plus one cleanup period
\* (remove_timed_out on its fixed interval, upsert's refresh, time passing).
THEOREM EvictionBounded == Spec => []EvictionBound
<1>1. EvictionInv => EvictionBound
  <2> SUFFICES ASSUME EvictionInv, NEW p \in Running,
                      NEW a \in DOMAIN registry[p]
               PROVE  registry[p][a].age <= PeerTimeout + CleanupInterval
    BY DEF EvictionBound
  <2>1. registry[p][a].age \in Nat /\ cleanupDue[p] \in Nat
    BY AgeCapNat DEF EvictionInv, TypeOK, R!IsRegistry, R!Peer, Running
  <2>. QED BY <2>1 DEF EvictionInv, AgeBudget
<1>. QED BY <1>1, EvictionInit, EvictionStep, PTL DEF Spec
=============================================================================
