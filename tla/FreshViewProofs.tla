-------------------------- MODULE FreshViewProofs --------------------------
(***************************************************************************)
(* Proof that on a network that loses no announcement, and with an        *)
(* announce interval that leaves room for the network delay within        *)
(* peer_timeout, every two settled processes know each other (Discovery's *)
(* LivePeersKnown), for every value of the constants.                      *)
(***************************************************************************)
EXTENDS DiscoveryProofs

USE HostAssumption, IntervalAssumption, NonEmptyAssumption, NickAssumption,
    FlagAssumption

\* What the theorem assumes of the deployment: no datagram is lost, the
\* announce task runs (a non-zero interval), and an entry refreshed by the
\* latest announcement survives every cleanup.
ReliableTiming ==
    /\ ~Lossy
    /\ AnnounceTaskAlive
    /\ AnnounceInterval + MaxDelay <= PeerTimeout

-----------------------------------------------------------------------------
(* Lemmas.                                                                 *)

\* remove_timed_out keeps an entry that has not timed out, unchanged.
LEMMA RemoveTimedOutKeeps ==
    ASSUME NEW r, NEW t, NEW x \in DOMAIN r, ~(r[x].age > t)
    PROVE  /\ x \in DOMAIN R!RemoveTimedOut(r, t)
           /\ R!RemoveTimedOut(r, t)[x] = r[x]
BY DEF R!RemoveTimedOut, R!TimedOutIds, R!IsTimedOut, R!Restrict

\* What p knows of q, and whether q's latest announcement was good for p,
\* depend only on p's registry, the copies of q to p, and the timers and
\* identities of p and q.
LEMMA KnowsFrame ==
    ASSUME NEW p, NEW q,
           registry'[p] = registry[p],
           CopiesOf(q, p)' = CopiesOf(q, p),
           nickname'[q] = nickname[q], tcpPort'[q] = tcpPort[q],
           upFor'[p] = upFor[p], upFor'[q] = upFor[q],
           announceDue'[q] = announceDue[q]
    PROVE  /\ Knows(p, q)' = Knows(p, q)
           /\ LastAnnounceGood(p, q)' = LastAnnounceGood(p, q)
BY DEF Knows, EntryFresh, GoodCopy, FirstGood, LastAnnounceGood,
       SinceAnnounce, AddrOf

-----------------------------------------------------------------------------
(* Stale copies.                                                           *)

LEMMA StaleInit == Init => StaleCopyAge
BY DEF Init, StaleCopyAge

LEMMA StaleStep ==
    NoSelfEntryInv /\ StaleCopyAge /\ [Next]_vars => StaleCopyAge'
<1> SUFFICES ASSUME NoSelfEntryInv, StaleCopyAge, [Next]_vars
             PROVE  StaleCopyAge'
  OBVIOUS
<1>0. TypeOK /\ TypeOK'
  BY TypeStep DEF NoSelfEntryInv
<1>1. ASSUME NEW p \in Proc, NEW port \in Ports, NEW nick \in Nicks,
             Start(p, port, nick)
      PROVE  StaleCopyAge'
  <2> SUFFICES ASSUME NEW c \in net', NEW q \in Running',
                      <<c.ip, c.tcp_port>> = AddrOf(q)', c.nickname # nickname'[q]
               PROVE  c.age >= upFor'[q]
    BY DEF StaleCopyAge
  <2>1. c \in net /\ c.age \in Nat
    BY <1>1, <1>0 DEF Start, TypeOK, Copy
  <2>2. CASE q = p
    BY <1>1, <1>0, <2>1, <2>2 DEF Start, TypeOK
  <2>3. CASE q # p
    BY <1>1, <1>0, <2>1, <2>3 DEF Start, TypeOK, StaleCopyAge, Running, AddrOf
  <2>. QED BY <2>2, <2>3
<1>2. ASSUME NEW p \in Proc, Stop(p) PROVE StaleCopyAge'
  BY <1>2, <1>0 DEF Stop, TypeOK, StaleCopyAge, Running, AddrOf
<1>3. ASSUME NEW p \in Proc, Announce(p) PROVE StaleCopyAge'
  <2> SUFFICES ASSUME NEW c \in net', NEW q \in Running',
                      <<c.ip, c.tcp_port>> = AddrOf(q)', c.nickname # nickname'[q]
               PROVE  c.age >= upFor'[q]
    BY DEF StaleCopyAge
  <2>1. CASE c \in net
    BY <1>3, <2>1 DEF Announce, StaleCopyAge, Running, AddrOf
  <2>2. CASE c \notin net
    <3>1. PICK r \in Running :
            c = [dst |-> r, ip |-> HostOf[p], nickname |-> nickname[p],
                 tcp_port |-> tcpPort[p], age |-> 0]
      BY <2>2, <1>3 DEF Announce
    <3>2. HostOf[q] = HostOf[p] /\ tcpPort[q] = tcpPort[p] /\ q \in Running
      BY <3>1, <1>3 DEF Announce, AddrOf, Running
    <3>3. q = p
      BY <3>2, <1>3 DEF PortsUnique, NoSelfEntryInv, Running, Announce
    <3>. QED BY <3>1, <3>3, <1>3 DEF Announce
  <2>. QED BY <2>1, <2>2
<1>4. ASSUME NEW p \in Proc, Cleanup(p) PROVE StaleCopyAge'
  BY <1>4 DEF Cleanup, StaleCopyAge, Running, AddrOf
<1>5. ASSUME NEW p \in Proc, NEW c \in net, Receive(p, c) \/ ReceiveDuplicate(p, c)
      PROVE  StaleCopyAge'
  BY <1>5 DEF Receive, ReceiveDuplicate, StaleCopyAge, Running, AddrOf
<1>6. ASSUME NEW c \in net, Lose(c) PROVE StaleCopyAge'
  BY <1>6 DEF Lose, StaleCopyAge, Running, AddrOf
<1>7. ASSUME Tick PROVE StaleCopyAge'
  <2> SUFFICES ASSUME NEW d \in net', NEW q \in Running',
                      <<d.ip, d.tcp_port>> = AddrOf(q)', d.nickname # nickname'[q]
               PROVE  d.age >= upFor'[q]
    BY DEF StaleCopyAge
  <2>1. PICK c \in net : d = [c EXCEPT !.age = @ + 1]
    BY <1>7 DEF Tick
  <2>2. c \in Copy /\ q \in Running
    BY <1>7, <1>0 DEF TypeOK, Tick, Running
  <2>3. /\ d.ip = c.ip /\ d.tcp_port = c.tcp_port /\ d.nickname = c.nickname
        /\ d.age = c.age + 1
    BY <2>1, <2>2 DEF Copy
  <2>4. c.age >= upFor[q]
    BY <2>2, <2>3, <1>7 DEF StaleCopyAge, Tick, AddrOf
  <2>5. upFor'[q] <= upFor[q] + 1
    BY <2>2, <1>7, <1>0 DEF Tick, TypeOK, Running
  <2>6. c.age \in Nat /\ upFor[q] \in Nat /\ upFor'[q] \in Nat
    BY <2>2, <1>0 DEF TypeOK, Copy, Running
  <2>. QED BY <2>3, <2>4, <2>5, <2>6
<1>8. CASE UNCHANGED vars
  BY <1>8 DEF vars, StaleCopyAge, Running, AddrOf
<1>. QED BY <1>1, <1>2, <1>3, <1>4, <1>5, <1>6, <1>7, <1>8 DEF Next
\* A step that leaves p's registry, the copies of q to p and the timers and
\* identities of p and q alone keeps p's knowledge of q.
LEMMA KnowsUnchanged ==
    ASSUME FreshView, NEW p \in Running, NEW q \in Running,
           p # q, nickname[p] # nickname[q],
           registry'[p] = registry[p],
           CopiesOf(q, p)' = CopiesOf(q, p),
           nickname'[q] = nickname[q], tcpPort'[q] = tcpPort[q],
           upFor'[p] = upFor[p], upFor'[q] = upFor[q],
           announceDue'[q] = announceDue[q],
           LastAnnounceGood(p, q)'
    PROVE  Knows(p, q)'
<1>1. LastAnnounceGood(p, q) /\ (Knows(p, q)' = Knows(p, q))
  BY KnowsFrame
<1>. QED BY <1>1 DEF FreshView

\* Ageing a copy in flight changes nothing but its age.
LEMMA CopyAgeFields ==
    ASSUME NEW d \in Copy
    PROVE  /\ [d EXCEPT !.age = @ + 1].dst = d.dst
           /\ [d EXCEPT !.age = @ + 1].ip = d.ip
           /\ [d EXCEPT !.age = @ + 1].tcp_port = d.tcp_port
           /\ [d EXCEPT !.age = @ + 1].nickname = d.nickname
           /\ [d EXCEPT !.age = @ + 1].age = d.age + 1
BY DEF Copy

\* A fresh entry is at most one announce interval plus the network delay
\* old.
LEMMA FreshAge ==
    ASSUME TypeOK, NEW p \in Proc, NEW q \in Proc, EntryFresh(p, q)
    PROVE  /\ registry[p][AddrOf(q)].age \in Nat
           /\ registry[p][AddrOf(q)].age <= AnnounceInterval + MaxDelay
<1>1. registry[p][AddrOf(q)].age \in Nat
  BY AgeCapNat DEF EntryFresh, TypeOK, R!IsRegistry, R!Peer
<1>2. SinceAnnounce(q) \in 0..AnnounceInterval
  BY DEF TypeOK, SinceAnnounce
<1>3. \A c \in CopiesOf(q, p) : c.age \in 0..MaxDelay
  BY DEF TypeOK, CopiesOf, Copy
<1>. QED BY <1>1, <1>2, <1>3 DEF EntryFresh

-----------------------------------------------------------------------------
(* Fresh views.                                                            *)

LEMMA FreshInit == Init => FreshView
BY DEF Init, FreshView, Running

LEMMA FreshStep ==
    ASSUME ReliableTiming
    PROVE  LiveInv /\ [Next]_vars => FreshView'
<1> SUFFICES ASSUME LiveInv, [Next]_vars,
                    NEW p \in Running', NEW q \in Running',
                    p # q, nickname'[p] # nickname'[q],
                    LastAnnounceGood(p, q)'
             PROVE  Knows(p, q)'
  BY DEF FreshView
<1>0. TypeOK /\ TypeOK'
  BY TypeStep DEF LiveInv, NoSelfEntryInv
<1>a. NoSelfEntryInv /\ StaleCopyAge /\ FreshView
  BY DEF LiveInv
<1>b. p \in Proc /\ q \in Proc
  BY DEF Running
<1>1. ASSUME NEW r \in Proc, NEW port \in Ports, NEW nick \in Nicks,
             Start(r, port, nick)
      PROVE  Knows(p, q)'
  <2>1. CASE r = p
    <3>1. upFor'[p] = 0 /\ announceDue'[q] \in 0..AnnounceInterval
      BY <2>1, <1>1, <1>0, <1>b DEF Start, TypeOK
    <3>. QED BY <3>1 DEF LastAnnounceGood, SinceAnnounce
  <2>2. CASE r = q
    <3>1. upFor'[q] = 0 /\ announceDue'[q] = 0
      BY <2>2, <1>1, <1>0, <1>b DEF Start, TypeOK
    <3>. QED BY <3>1 DEF LastAnnounceGood, SinceAnnounce
  <2>3. CASE r # p /\ r # q
    <3>1. p \in Running /\ q \in Running /\ nickname[p] # nickname[q]
      BY <2>3, <1>1, <1>0, <1>b DEF Start, Running, TypeOK
    <3>2. /\ registry'[p] = registry[p]
          /\ CopiesOf(q, p)' = CopiesOf(q, p)
          /\ nickname'[q] = nickname[q] /\ tcpPort'[q] = tcpPort[q]
          /\ upFor'[p] = upFor[p] /\ upFor'[q] = upFor[q]
          /\ announceDue'[q] = announceDue[q]
      BY <2>3, <1>1, <1>0, <1>b DEF Start, TypeOK, CopiesOf
    <3>. QED BY <3>1, <3>2, <1>a, KnowsUnchanged
  <2>. QED BY <2>1, <2>2, <2>3
<1>2. ASSUME NEW r \in Proc, Stop(r) PROVE Knows(p, q)'
  <2>1. r # p /\ r # q
    BY <1>2, <1>0 DEF Stop, Running, TypeOK
  <2>2. p \in Running /\ q \in Running /\ nickname[p] # nickname[q]
    BY <2>1, <1>2, <1>0, <1>b DEF Stop, Running, TypeOK
  <2>3. /\ registry'[p] = registry[p]
        /\ CopiesOf(q, p)' = CopiesOf(q, p)
        /\ nickname'[q] = nickname[q] /\ tcpPort'[q] = tcpPort[q]
        /\ upFor'[p] = upFor[p] /\ upFor'[q] = upFor[q]
        /\ announceDue'[q] = announceDue[q]
    BY <2>1, <1>2, <1>0, <1>b DEF Stop, TypeOK, CopiesOf
  <2>. QED BY <2>2, <2>3, <1>a, KnowsUnchanged
<1>6. ASSUME NEW c \in net, Lose(c) PROVE Knows(p, q)'
  BY <1>6 DEF Lose, ReliableTiming
<1>8. CASE UNCHANGED vars
  <2>1. p \in Running /\ q \in Running /\ nickname[p] # nickname[q]
    BY <1>8 DEF vars, Running
  <2>2. CopiesOf(q, p)' = CopiesOf(q, p)
    BY <1>8 DEF vars, CopiesOf
  <2>. QED BY <1>8, <2>1, <2>2, <1>a, KnowsUnchanged DEF vars
<1>3. ASSUME NEW r \in Proc, Announce(r) PROVE Knows(p, q)'
  <2>0. /\ p \in Running /\ q \in Running /\ nickname[p] # nickname[q]
        /\ registry' = registry /\ UNCHANGED <<nickname, tcpPort, upFor>>
    BY <1>3 DEF Announce, Running
  <2>1. CASE r # q
    <3>1. CopiesOf(q, p)' = CopiesOf(q, p)
      <4>1. \A d \in net' \ net : d.ip = HostOf[r] /\ d.tcp_port = tcpPort[r]
        BY <1>3 DEF Announce
      <4>2. r \in Running
        BY <1>3 DEF Announce, Running
      <4>3. ~(HostOf[q] = HostOf[r] /\ tcpPort[q] = tcpPort[r])
        BY <2>0, <2>1, <4>2, <1>a DEF NoSelfEntryInv, PortsUnique
      <4>. QED BY <4>1, <4>3, <2>0, <1>3 DEF CopiesOf, Announce
    <3>2. announceDue'[q] = announceDue[q]
      BY <2>1, <1>3, <1>0, <1>b DEF Announce, TypeOK
    <3>. QED BY <2>0, <3>1, <3>2, <1>a, KnowsUnchanged
  <2>2. CASE r = q
    <3>0. [dst |-> p, ip |-> HostOf[q], nickname |-> nickname[q],
           tcp_port |-> tcpPort[q], age |-> 0] \in CopiesOf(q, p)'
      BY <2>0, <2>2, <1>3 DEF Announce, CopiesOf
    <3>1. PICK c0 \in CopiesOf(q, p)' : c0.age = 0
      BY <3>0
    <3>2. CopiesOf(q, p) \subseteq CopiesOf(q, p)'
      BY <2>0, <1>3 DEF Announce, CopiesOf
    <3>3. SinceAnnounce(q) = AnnounceInterval /\ SinceAnnounce(q)' = 0
      BY <2>2, <1>3, <1>0, <1>b DEF Announce, SinceAnnounce, TypeOK
    <3>4. upFor[p] \in Nat /\ upFor[q] \in Nat
      BY <1>0, <1>b DEF TypeOK
    <3>5. CASE LastAnnounceGood(p, q)
      <4>1. Knows(p, q)
        BY <3>5, <2>0, <1>a DEF FreshView
      <4>2. CASE EntryFresh(p, q)
        <5>1. /\ AddrOf(q) \in DOMAIN registry[p]
              /\ registry[p][AddrOf(q)].nickname = nickname[q]
              /\ registry[p][AddrOf(q)].age \in Nat
          BY <4>2, <1>0, <1>b, AgeCapNat DEF EntryFresh, TypeOK, R!IsRegistry, R!Peer
        <5>2. \E d \in CopiesOf(q, p)' :
                registry[p][AddrOf(q)].age <= d.age + AnnounceInterval
          <6>1. CASE registry[p][AddrOf(q)].age <= SinceAnnounce(q)
            BY <6>1, <3>1, <3>3
          <6>2. CASE \E d \in CopiesOf(q, p) :
                       registry[p][AddrOf(q)].age <= d.age + AnnounceInterval
            BY <6>2, <3>2
          <6>. QED BY <6>1, <6>2, <4>2 DEF EntryFresh
        <5>. QED BY <5>1, <5>2, <2>0 DEF EntryFresh, Knows, AddrOf
      <4>3. CASE \E d \in CopiesOf(q, p) : GoodCopy(d, p, q) /\ FirstGood(d, p, q)
        BY <4>3, <3>2, <2>0 DEF Knows, GoodCopy, FirstGood
      <4>. QED BY <4>1, <4>2, <4>3 DEF Knows
    <3>6. CASE ~LastAnnounceGood(p, q)
      <4>1. GoodCopy(c0, p, q)'
        BY <3>1, <3>3, <3>4, <2>0 DEF LastAnnounceGood, GoodCopy
      <4>2. FirstGood(c0, p, q)'
        BY <3>1, <3>6, <3>3, <3>4, <2>0 DEF LastAnnounceGood, FirstGood
      <4>. QED BY <3>1, <4>1, <4>2 DEF Knows
    <3>. QED BY <3>5, <3>6
  <2>. QED BY <2>1, <2>2
<1>4. ASSUME NEW r \in Proc, Cleanup(r) PROVE Knows(p, q)'
  <2>0. /\ p \in Running /\ q \in Running /\ nickname[p] # nickname[q]
        /\ UNCHANGED <<nickname, tcpPort, upFor, announceDue, net>>
        /\ CopiesOf(q, p)' = CopiesOf(q, p)
    BY <1>4 DEF Cleanup, Running, CopiesOf
  <2>1. CASE r # p
    <3>1. registry'[p] = registry[p]
      BY <2>1, <1>4, <1>0, <1>b DEF Cleanup, TypeOK
    <3>. QED BY <2>0, <3>1, <1>a, KnowsUnchanged
  <2>2. CASE r = p
    <3>1. LastAnnounceGood(p, q) /\ Knows(p, q)
      BY <2>0, <1>a DEF LastAnnounceGood, SinceAnnounce, FreshView
    <3>2. CASE EntryFresh(p, q)
      <4>1. registry[p][AddrOf(q)].age <= PeerTimeout
        BY <3>2, <1>0, <1>b, FreshAge DEF ReliableTiming
      <4>2. registry'[p] = R!RemoveTimedOut(registry[p], PeerTimeout)
        BY <2>2, <1>4, <1>0, <1>b DEF Cleanup, TypeOK
      <4>3. /\ AddrOf(q) \in DOMAIN registry'[p]
            /\ registry'[p][AddrOf(q)] = registry[p][AddrOf(q)]
        <5>1. AddrOf(q) \in DOMAIN registry[p]
          BY <3>2 DEF EntryFresh
        <5>2. ~(registry[p][AddrOf(q)].age > PeerTimeout)
          BY <4>1, <3>2, <1>0, <1>b, FreshAge
        <5>. QED BY <4>2, <5>1, <5>2, RemoveTimedOutKeeps
      <4>. QED BY <4>3, <3>2, <2>0 DEF EntryFresh, Knows, AddrOf, SinceAnnounce
    <3>3. CASE \E d \in CopiesOf(q, p) : GoodCopy(d, p, q) /\ FirstGood(d, p, q)
      BY <3>3, <2>0 DEF Knows, GoodCopy, FirstGood
    <3>. QED BY <3>1, <3>2, <3>3 DEF Knows
  <2>. QED BY <2>1, <2>2
<1>5. ASSUME NEW r \in Proc, NEW c \in net, Receive(r, c) \/ ReceiveDuplicate(r, c)
      PROVE  Knows(p, q)'
  <2>0. /\ registry' = HandleAnnounce(r, c)
        /\ c.dst = r
        /\ net' \in {net, net \ {c}}
        /\ UNCHANGED <<up, nickname, tcpPort, announceDue, upFor>>
    BY <1>5 DEF Receive, ReceiveDuplicate
  <2>1. p \in Running /\ q \in Running /\ nickname[p] # nickname[q]
    BY <2>0 DEF Running
  <2>2. CASE r # p
    <3>1. registry'[p] = registry[p]
      BY <2>0, <2>2, <1>0, <1>b DEF HandleAnnounce, TypeOK
    <3>2. CopiesOf(q, p)' = CopiesOf(q, p)
      BY <2>0, <2>2 DEF CopiesOf
    <3>. QED BY <2>0, <2>1, <3>1, <3>2, <1>a, KnowsUnchanged
  <2>3. CASE r = p
    <3>0. LastAnnounceGood(p, q) /\ Knows(p, q)
      BY <2>0, <2>1, <1>a DEF LastAnnounceGood, SinceAnnounce, FreshView
    <3>a. SinceAnnounce(q) \in 0..AnnounceInterval /\ SinceAnnounce(q)' = SinceAnnounce(q)
      BY <2>0, <1>0, <1>b DEF SinceAnnounce, TypeOK
    <3>2. CASE c \in CopiesOf(q, p)
      <4>1. registry'[p] = R!Upsert(registry[p], AddrOf(q), nickname[q])
        BY <3>2, <2>0, <2>1, <2>3, <1>0, <1>b DEF CopiesOf, HandleAnnounce, AddrOf, TypeOK
      <4>2. /\ AddrOf(q) \in DOMAIN registry'[p]
            /\ registry'[p][AddrOf(q)].nickname = nickname[q]
            /\ registry'[p][AddrOf(q)].age = 0
        BY <4>1 DEF R!Upsert
      <4>. QED BY <4>2, <3>a, <2>0 DEF Knows, EntryFresh, AddrOf
    <3>3. CASE c \notin CopiesOf(q, p) /\ <<c.ip, c.tcp_port>> = AddrOf(q)
      <4>1. c.nickname # nickname[q]
        BY <3>3, <2>0, <2>3 DEF CopiesOf, AddrOf
      <4>2. c.age >= upFor[q]
        BY <4>1, <3>3, <2>1, <1>a DEF StaleCopyAge
      <4>3. c.age \in 0..MaxDelay /\ upFor[q] \in Nat
        BY <1>0, <1>b DEF TypeOK, Copy
      <4>. QED BY <4>2, <4>3, <3>0, <3>a DEF LastAnnounceGood
    <3>4. CASE <<c.ip, c.tcp_port>> # AddrOf(q)
      <4>1. CopiesOf(q, p)' = CopiesOf(q, p)
        BY <3>4, <2>0 DEF CopiesOf, AddrOf
      <4>2. /\ AddrOf(q) \in DOMAIN registry'[p] <=> AddrOf(q) \in DOMAIN registry[p]
            /\ AddrOf(q) \in DOMAIN registry[p]
                   => registry'[p][AddrOf(q)] = registry[p][AddrOf(q)]
        <5>1. CASE c.nickname = nickname[p]
          BY <5>1, <2>0, <2>3 DEF HandleAnnounce
        <5>2. CASE c.nickname # nickname[p]
          <6>1. registry'[p] = R!Upsert(registry[p], <<c.ip, c.tcp_port>>, c.nickname)
            BY <5>2, <2>0, <2>3, <1>0, <1>b DEF HandleAnnounce, TypeOK
          <6>. QED BY <6>1, <3>4 DEF R!Upsert
        <5>. QED BY <5>1, <5>2
      <4>3. CASE EntryFresh(p, q)
        BY <4>3, <4>1, <4>2, <3>a, <2>0 DEF EntryFresh, Knows, AddrOf
      <4>4. CASE \E d \in CopiesOf(q, p) : GoodCopy(d, p, q) /\ FirstGood(d, p, q)
        BY <4>4, <4>1, <2>0 DEF Knows, GoodCopy, FirstGood
      <4>. QED BY <3>0, <4>3, <4>4 DEF Knows
    <3>. QED BY <3>2, <3>3, <3>4
  <2>. QED BY <2>2, <2>3
<1>7. ASSUME Tick PROVE Knows(p, q)'
  <2>0. /\ p \in Running /\ q \in Running /\ nickname[p] # nickname[q]
        /\ UNCHANGED <<up, nickname, tcpPort>>
    BY <1>7 DEF Tick, Running
  <2>a. AnnounceTaskAlive
    BY DEF ReliableTiming
  <2>1. /\ SinceAnnounce(q) \in 0..(AnnounceInterval - 1)
        /\ SinceAnnounce(q)' = SinceAnnounce(q) + 1
    BY <2>0, <2>a, <1>7, <1>0, <1>b DEF Tick, SinceAnnounce, TypeOK, Running
  <2>2. /\ upFor[p] \in 0..Settle /\ upFor[q] \in 0..Settle
        /\ upFor'[p] = IF upFor[p] < Settle THEN upFor[p] + 1 ELSE upFor[p]
        /\ upFor'[q] = IF upFor[q] < Settle THEN upFor[q] + 1 ELSE upFor[q]
    BY <2>0, <1>7, <1>0, <1>b DEF Tick, TypeOK, Running
  <2>3. LastAnnounceGood(p, q)
    BY <2>1, <2>2 DEF LastAnnounceGood, Settle
  <2>4. Knows(p, q)
    BY <2>3, <2>0, <1>a DEF FreshView
  <2>5. ASSUME NEW d \in CopiesOf(q, p)
        PROVE  /\ [d EXCEPT !.age = @ + 1] \in CopiesOf(q, p)'
               /\ [d EXCEPT !.age = @ + 1].age = d.age + 1
               /\ d.age \in 0..(MaxDelay - 1)
    <3>1. d \in net /\ d \in Copy
      BY <1>0 DEF CopiesOf, TypeOK
    <3>2. [d EXCEPT !.age = @ + 1] \in net' /\ d.age < MaxDelay
      BY <3>1, <1>7 DEF Tick
    <3>. QED BY <3>1, <3>2, <2>0, CopyAgeFields DEF CopiesOf, Copy
  <2>6. CASE EntryFresh(p, q)
    <3> USE DEF AddrOf
    <3>1. /\ AddrOf(q) \in DOMAIN registry[p]
          /\ registry[p][AddrOf(q)].nickname = nickname[q]
          /\ registry[p][AddrOf(q)].age \in Nat
      BY <2>6, <1>0, <1>b, FreshAge DEF EntryFresh
    <3>2. registry'[p] = R!Age(registry[p]) /\ R!IsRegistry(registry[p])
      BY <1>7, <1>0, <1>b DEF Tick, TypeOK
    <3>3. /\ AddrOf(q) \in DOMAIN registry'[p]
          /\ registry'[p][AddrOf(q)].nickname = nickname[q]
          /\ registry'[p][AddrOf(q)].age \in Nat
          /\ registry'[p][AddrOf(q)].age <= registry[p][AddrOf(q)].age + 1
      BY <3>1, <3>2, AgeEntry
    <3>4. CASE registry[p][AddrOf(q)].age <= SinceAnnounce(q)
      <4>1. registry'[p][AddrOf(q)].age <= SinceAnnounce(q)'
        BY <3>1, <3>3, <3>4, <2>1
      <4>2. EntryFresh(p, q)'
        BY <3>3, <4>1, <2>0 DEF EntryFresh
      <4>. QED BY <4>2 DEF Knows
    <3>5. CASE \E d \in CopiesOf(q, p) :
                 registry[p][AddrOf(q)].age <= d.age + AnnounceInterval
      <4>1. PICK d \in CopiesOf(q, p) :
                 registry[p][AddrOf(q)].age <= d.age + AnnounceInterval
        BY <3>5
      <4>2. /\ [d EXCEPT !.age = @ + 1] \in CopiesOf(q, p)'
            /\ [d EXCEPT !.age = @ + 1].age = d.age + 1
            /\ d.age \in 0..(MaxDelay - 1)
        BY <2>5
      <4>3. registry'[p][AddrOf(q)].age
               <= [d EXCEPT !.age = @ + 1].age + AnnounceInterval
        BY <4>1, <4>2, <3>1, <3>3
      <4>. QED BY <4>2, <4>3, <3>3, <2>0 DEF EntryFresh, Knows
    <3>. QED BY <2>6, <3>4, <3>5 DEF EntryFresh
  <2>7. CASE \E d \in CopiesOf(q, p) : GoodCopy(d, p, q) /\ FirstGood(d, p, q)
    <3>1. PICK d \in CopiesOf(q, p) : GoodCopy(d, p, q) /\ FirstGood(d, p, q)
      BY <2>7
    <3>2. /\ [d EXCEPT !.age = @ + 1] \in CopiesOf(q, p)'
          /\ [d EXCEPT !.age = @ + 1].age = d.age + 1
          /\ d.age \in 0..(MaxDelay - 1)
      BY <2>5
    <3>3. GoodCopy([d EXCEPT !.age = @ + 1], p, q)'
      BY <3>1, <3>2, <2>2 DEF GoodCopy, Settle
    <3>4. FirstGood([d EXCEPT !.age = @ + 1], p, q)'
      BY <3>1, <3>2, <2>2 DEF FirstGood
    <3>. QED BY <3>2, <3>3, <3>4 DEF Knows
  <2>. QED BY <2>4, <2>6, <2>7 DEF Knows
<1>. QED BY <1>1, <1>2, <1>3, <1>4, <1>5, <1>6, <1>7, <1>8 DEF Next

\* LiveInv holds initially and is preserved by every step on a reliable
\* network.
LEMMA LiveInit == Init => LiveInv
BY SelfInit, StaleInit, FreshInit DEF LiveInv

LEMMA LiveStep ==
    ASSUME ReliableTiming
    PROVE  LiveInv /\ [Next]_vars => LiveInv'
BY SelfStep, StaleStep, FreshStep DEF LiveInv

\* Once both have been up Settle units, the pending first copy of q's last
\* announcement would be older than MaxDelay, so the entry itself is fresh.
LEMMA LiveInvKnown == LiveInv => LivePeersKnown
<1> SUFFICES ASSUME LiveInv, NEW p \in Running, NEW q \in Running,
                    p # q, nickname[p] # nickname[q],
                    upFor[p] = Settle, upFor[q] = Settle
             PROVE  /\ AddrOf(q) \in DOMAIN registry[p]
                    /\ registry[p][AddrOf(q)].nickname = nickname[q]
                    /\ registry[p][AddrOf(q)].age <= AnnounceInterval + MaxDelay
  BY DEF LivePeersKnown
<1>0. TypeOK /\ p \in Proc /\ q \in Proc
  BY DEF LiveInv, NoSelfEntryInv, Running
<1>1. LastAnnounceGood(p, q)
  BY <1>0 DEF TypeOK, LastAnnounceGood, SinceAnnounce, Settle
<1>2. Knows(p, q)
  BY <1>1 DEF LiveInv, FreshView
<1>3. ~\E c \in CopiesOf(q, p) : FirstGood(c, p, q)
  <2> SUFFICES ASSUME NEW c \in CopiesOf(q, p) PROVE ~FirstGood(c, p, q)
    OBVIOUS
  <2>1. c.age \in 0..MaxDelay
    BY <1>0 DEF CopiesOf, TypeOK, Copy
  <2>. QED BY <2>1 DEF FirstGood, Settle
<1>4. EntryFresh(p, q)
  BY <1>2, <1>3 DEF Knows
<1>. QED BY <1>0, <1>4, FreshAge DEF EntryFresh

\* On a network that loses nothing, with an announce interval plus the
\* network delay within peer_timeout, run_discovery_loop and the cleanup
\* loop together keep every peer that has been up for Settle time units in
\* the registry of every other live process, under its current nickname
\* and seen within AnnounceInterval + MaxDelay: the cleanup loop never
\* evicts a live peer, whatever restarts, duplicates and delays happen.
THEOREM PeersStayKnown ==
    ASSUME ReliableTiming
    PROVE  Spec => []LivePeersKnown
<1>1. LiveInv /\ [Next]_vars => LiveInv'
  BY LiveStep
<1>. QED BY <1>1, LiveInit, LiveInvKnown, PTL DEF Spec
=============================================================================
