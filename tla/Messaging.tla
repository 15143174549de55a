------------------------------ MODULE Messaging ------------------------------
(***************************************************************************)
(* Direct messaging over TCP, src/src/network/messaging.rs, composed with  *)
(* the discovery layer it looks peers up in.                               *)
(*                                                                         *)
(* Each running process has an input task that runs one send_message at a *)
(* time: it snapshots the registry (get_all), takes the first entry with   *)
(* the wanted nickname in HashMap order (any of them, to the model), and   *)
(* only then connects, writes one JSON line and flushes.  The registry     *)
(* lock is released in between, so discovery, restarts and the cleanup     *)
(* loop all run between the lookup and the connect.  Each accepted         *)
(* connection gets its own handle_connection task, which decodes the line  *)
(* and sends MessageEvent::Received to the event channel.                  *)
(*                                                                         *)
(* Message contents and timestamps are not modelled: a message is its      *)
(* sender's nickname plus, as history, the nickname it was addressed to.   *)
(***************************************************************************)
EXTENDS Discovery

CONSTANT Senders   \* the processes whose users issue /send commands

ASSUME SendersAssumption == Senders \subseteq Proc

\* The input task is not inside a send_message call.
NoSend == [idle |-> TRUE]

\* A send_message between its registry lookup and its connect.
Pending == [to : Nicks, addr : Addr]

\* A TCP connection accepted by (or queued at) process dst, carrying the line
\* TextMessage{from, ..} written by the sender; "to" is the nickname the
\* sender asked for (history, not on the wire).
Conn == [dst : Proc, from : Nicks, to : Nicks]

\* A message as the receiving process's event channel got it.
Delivered == [from : Nicks, to : Nicks]

VARIABLES
    pending,     \* pending[p]: the send_message in progress in p's input task
    conns,       \* connections written and flushed, not yet read
    received,    \* received[p]: messages emitted as MessageEvent::Received
    lastEvent,   \* lastEvent[p]: last MessageEvent p's send path emitted
    lastResult   \* lastResult[p]: what p's last send_message returned

msgVars == <<pending, conns, received, lastEvent, lastResult>>

SendResults == {"none", "ok", "peer_not_found", "network"}
allVars == <<vars, msgVars>>

MsgTypeOK ==
    /\ TypeOK
    /\ pending \in [Proc -> {NoSend} \cup Pending]
    /\ conns \subseteq Conn
    /\ received \in [Proc -> SUBSET Delivered]
    /\ lastEvent \in [Proc -> {"none", "sent", "send_error"}]
    /\ lastResult \in [Proc -> SendResults]

MsgInit ==
    /\ Init
    /\ pending = [p \in Proc |-> NoSend]
    /\ conns = {}
    /\ received = [p \in Proc |-> {}]
    /\ lastEvent = [p \in Proc |-> "none"]
    /\ lastResult = [p \in Proc |-> "none"]

-----------------------------------------------------------------------------
(* Process lifecycle, now including the messaging side.                    *)

\* App::run also creates the event channel and spawns the input, accept and
\* event tasks.
MStart(p, port, nick) ==
    /\ Start(p, port, nick)
    /\ pending' = [pending EXCEPT ![p] = NoSend]
    /\ received' = [received EXCEPT ![p] = {}]
    /\ lastEvent' = [lastEvent EXCEPT ![p] = "none"]
    /\ lastResult' = [lastResult EXCEPT ![p] = "none"]
    /\ UNCHANGED conns

\* Abort: the listener is closed and connections not yet read are reset;
\* an unfinished send_message dies with the runtime.  Lines this process
\* already flushed to others stay in flight.
MStop(p) ==
    /\ Stop(p)
    /\ pending' = [pending EXCEPT ![p] = NoSend]
    /\ conns' = {c \in conns : c.dst # p}
    /\ received' = [received EXCEPT ![p] = {}]
    /\ lastEvent' = [lastEvent EXCEPT ![p] = "none"]
    /\ lastResult' = [lastResult EXCEPT ![p] = "none"]

\* Every other discovery step leaves the messaging state alone.
DiscoveryStep ==
    /\ \/ \E p \in Proc : Announce(p) \/ Cleanup(p)
       \/ \E p \in Proc, c \in net : Receive(p, c) \/ ReceiveDuplicate(p, c)
       \/ \E c \in net : Lose(c)
       \/ Tick
    /\ UNCHANGED msgVars

-----------------------------------------------------------------------------
(* send_message(to_nickname, content).                                     *)

\* The registry snapshot's entries carrying a nickname.
Matches(p, to) == {a \in DOMAIN registry[p] : registry[p][a].nickname = to}

\* get_all, then find by nickname: no match returns PeerNotFound before any
\* connection attempt (and emits no event); otherwise the first match in
\* HashMap iteration order, which the model leaves open, is the target.
Lookup(p, to) ==
    /\ up[p]
    /\ pending[p] = NoSend
    /\ \/ /\ Matches(p, to) = {}
          /\ lastResult' = [lastResult EXCEPT ![p] = "peer_not_found"]
          /\ UNCHANGED pending
       \/ /\ \E a \in Matches(p, to) :
                pending' = [pending EXCEPT ![p] = [to |-> to, addr |-> a]]
          /\ UNCHANGED lastResult
    /\ UNCHANGED <<conns, received, lastEvent>>
    /\ UNCHANGED vars

\* The process, if any, listening at an address.
ListenerAt(a) == {q \in Running : AddrOf(q) = a}

\* TcpStream::connect, write_all of the JSON line and "\n", flush, then the
\* Sent event.  Nobody listening at the address: connect fails, the error
\* is logged and returned with `?`, and no event is emitted.
Connect(p) ==
    /\ up[p]
    /\ pending[p] # NoSend
    /\ LET target == pending[p] IN
       \/ \E q \in ListenerAt(target.addr) :
          /\ conns' = conns \cup {[dst |-> q, from |-> nickname[p], to |-> target.to]}
          /\ lastEvent' = [lastEvent EXCEPT ![p] = "sent"]
          /\ lastResult' = [lastResult EXCEPT ![p] = "ok"]
       \/ /\ ListenerAt(target.addr) = {}
          /\ lastResult' = [lastResult EXCEPT ![p] = "network"]
          /\ UNCHANGED <<conns, lastEvent>>
    /\ pending' = [pending EXCEPT ![p] = NoSend]
    /\ UNCHANGED <<vars, received>>

-----------------------------------------------------------------------------
(* The accept loop and handle_connection.                                  *)

\* The accept loop hands the connection to a spawned handle_connection,
\* which reads the line, decodes a TextMessage and sends Received(msg) to
\* the event channel; the peer then closes the stream and the task ends.
Deliver(q, c) ==
    /\ up[q]
    /\ c \in conns
    /\ c.dst = q
    /\ conns' = conns \ {c}
    /\ received' = [received EXCEPT ![q] = @ \cup {[from |-> c.from, to |-> c.to]}]
    /\ UNCHANGED <<vars, pending, lastEvent, lastResult>>

MsgNext ==
    \/ \E p \in Proc : \E port \in Ports, nick \in NickChoice[p] : MStart(p, port, nick)
    \/ \E p \in Proc : MStop(p)
    \/ DiscoveryStep
    \/ \E p \in Senders, to \in Nicks : Lookup(p, to)
    \/ \E p \in Proc : Connect(p)
    \/ \E q \in Proc, c \in conns : Deliver(q, c)

MsgSpec == MsgInit /\ [][MsgNext]_allVars

-----------------------------------------------------------------------------
(* Properties.                                                             *)

\* A message reaches the user it was sent to: every Received event of a
\* running process carries a message addressed to that process's nickname.
\* send_message connects to the address its (possibly stale) registry entry
\* holds, TextMessage carries no recipient, and handle_connection accepts
\* whatever arrives, so this is what the address lookup must guarantee.
DeliveredToAddressee ==
    \A p \in Running : \A m \in received[p] : m.to = nickname[p]

\* Spec 4.3: send_message "emits ... a 'send error' event (with the target
\* nickname and error detail) on failure".  Checked on the last send: if it
\* returned a network error, the event it emitted is SendError.
SendFailureReported ==
    \A p \in Running : lastResult[p] = "network" => lastEvent[p] = "send_error"

=============================================================================
