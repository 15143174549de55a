-------------------------- MODULE MessagingProofs --------------------------
(***************************************************************************)
(* Proofs about the messaging layer composed with discovery, for every     *)
(* value of the constants that satisfies the modules' assumptions.         *)
(***************************************************************************)
EXTENDS Messaging, DiscoveryProofs

USE HostAssumption, IntervalAssumption, NonEmptyAssumption, NickAssumption,
    FlagAssumption, SendersAssumption

\* A messaging step that changes only the discovery state is a discovery
\* step, so the discovery typing carries over.
LEMMA DiscoveryTyped == ASSUME TypeOK, DiscoveryStep PROVE TypeOK'
<1>1. Next
  BY DEF DiscoveryStep, Next
<1>. QED BY <1>1, TypeStep

\* The messaging state is well typed initially.
LEMMA MsgTypeInit == MsgInit => MsgTypeOK
BY TypeInit DEF MsgInit, MsgTypeOK, SendResults

\* Every step keeps the messaging state well typed.
LEMMA MsgTypeStep == MsgTypeOK /\ [MsgNext]_allVars => MsgTypeOK'
<1> SUFFICES ASSUME MsgTypeOK, [MsgNext]_allVars PROVE MsgTypeOK'
  OBVIOUS
<1> USE DEF MsgTypeOK, SendResults
<1>1. ASSUME NEW p \in Proc, NEW port \in Ports, NEW nick \in NickChoice[p],
             MStart(p, port, nick)
      PROVE  MsgTypeOK'
  <2>1. TypeOK'
    BY <1>1, TypeStep DEF MStart, Next
  <2>. QED BY <1>1, <2>1 DEF MStart
<1>2. ASSUME NEW p \in Proc, MStop(p) PROVE MsgTypeOK'
  <2>1. TypeOK'
    BY <1>2, TypeStep DEF MStop, Next
  <2>. QED BY <1>2, <2>1 DEF MStop
<1>3. ASSUME DiscoveryStep PROVE MsgTypeOK'
  BY <1>3, DiscoveryTyped DEF DiscoveryStep, msgVars
<1>4. ASSUME NEW p \in Senders, NEW to \in Nicks, Lookup(p, to)
      PROVE  MsgTypeOK'
  <2>1. TypeOK'
    BY <1>4, TypeStep DEF Lookup, vars
  <2>2. Matches(p, to) \subseteq Addr
    BY DEF TypeOK, Matches, R!IsRegistry
  <2>. QED BY <1>4, <2>1, <2>2 DEF Lookup, Pending, SendResults
<1>5. ASSUME NEW p \in Proc, Connect(p) PROVE MsgTypeOK'
  <2>1. TypeOK'
    BY <1>5, TypeStep DEF Connect, vars
  <2>2. pending[p] \in Pending
    BY <1>5 DEF Connect
  <2>3. ListenerAt(pending[p].addr) \subseteq Proc
    BY DEF ListenerAt, Running
  <2>4. pending' \in [Proc -> {NoSend} \cup Pending]
    BY <1>5 DEF Connect
  <2>5. CASE \E q \in ListenerAt(pending[p].addr) :
               /\ conns' = conns \cup {[dst |-> q, from |-> nickname[p],
                                        to |-> pending[p].to]}
               /\ lastEvent' = [lastEvent EXCEPT ![p] = "sent"]
               /\ lastResult' = [lastResult EXCEPT ![p] = "ok"]
    <3>1. PICK q \in ListenerAt(pending[p].addr) :
               /\ conns' = conns \cup {[dst |-> q, from |-> nickname[p],
                                        to |-> pending[p].to]}
               /\ lastEvent' = [lastEvent EXCEPT ![p] = "sent"]
               /\ lastResult' = [lastResult EXCEPT ![p] = "ok"]
      BY <2>5
    <3>2. [dst |-> q, from |-> nickname[p], to |-> pending[p].to] \in Conn
      BY <2>2, <2>3 DEF Conn, Pending, TypeOK
    <3>. QED BY <3>1, <3>2, <2>1, <2>4, <1>5 DEF Connect
  <2>6. CASE /\ lastResult' = [lastResult EXCEPT ![p] = "network"]
             /\ UNCHANGED <<conns, lastEvent>>
    BY <2>6, <2>1, <2>4, <1>5 DEF Connect
  <2>. QED BY <1>5, <2>5, <2>6 DEF Connect
<1>6. ASSUME NEW q \in Proc, NEW c \in conns, Deliver(q, c) PROVE MsgTypeOK'
  <2>1. TypeOK'
    BY <1>6, TypeStep DEF Deliver, vars
  <2>. QED BY <1>6, <2>1 DEF Deliver, Conn, Delivered
<1>7. ASSUME UNCHANGED allVars PROVE MsgTypeOK'
  BY <1>7 DEF allVars, vars, msgVars, TypeOK
<1>. QED BY <1>1, <1>2, <1>3, <1>4, <1>5, <1>6, <1>7 DEF MsgNext

\* Every reachable state of the composed system is well typed: send_message,
\* handle_connection, App::run's start and abort and the discovery tasks
\* only ever store values of the types MsgTypeOK names.
THEOREM MsgTypeCorrect == MsgSpec => []MsgTypeOK
<1>1. MsgTypeOK /\ [MsgNext]_allVars => MsgTypeOK'
  BY MsgTypeStep
<1>. QED BY <1>1, MsgTypeInit, PTL DEF MsgSpec
=============================================================================
