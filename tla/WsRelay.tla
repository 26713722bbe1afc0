------------------------------ MODULE WsRelay ------------------------------
(***************************************************************************)
(* One websocket through the t3 gateway: proxyWebsocket and copyWS in      *)
(* src/internal/t3/gateway.go, once the token for it has been issued (the  *)
(* token, its refresh and its retry are steps of Service).                 *)
(*                                                                         *)
(* The client's connection is upgraded, t3 is dialled, and two copiers     *)
(* move messages, one in each direction, each reading a message and        *)
(* writing it before it reads the next.  The handler waits for the first   *)
(* of them to end and then closes both connections, which ends the other   *)
(* one.  Sockets hold Buffer messages; a writer waits while one is full,   *)
(* and there are no deadlines.                                             *)
(*                                                                         *)
(* Messages are counted, by the peer that sent them: sent, read by the     *)
(* gateway, written to the other connection, received by the other peer.   *)
(***************************************************************************)
EXTENDS Naturals

CONSTANTS
  Buffer,   \* messages a socket holds
  MaxSent   \* bound on the messages of each peer

ASSUME WsAssumption == Buffer \in Nat \ {0} /\ MaxSent \in Nat

Peer == {"client", "t3"}
Other(p) == IF p = "client" THEN "t3" ELSE "client"

VARIABLES
  gw,        \* where proxyWebsocket is
  copier,    \* per peer, the copyWS that reads from it
  errc,      \* errors in the channel errc
  ended,     \* connections the gateway has closed
  closed,    \* peers that have sent a close frame, after their messages
  broken,    \* peers whose connection broke
  sent, read, written, received

relay == <<gw, copier, errc, ended>>
peers == <<closed, broken>>
vars  == <<gw, copier, errc, ended, closed, broken, sent, read, written, received>>

Copiers == {"off", "read", "write", "error", "done"}

TypeOK ==
  /\ gw \in {"upgrade", "dial", "relay", "closing", "done"}
  /\ copier \in [Peer -> Copiers]
  /\ errc \in Nat
  /\ ended \in SUBSET Peer
  /\ closed \in SUBSET Peer
  /\ broken \in SUBSET Peer
  /\ sent \in [Peer -> Nat]
  /\ read \in [Peer -> Nat]
  /\ written \in [Peer -> Nat]
  /\ received \in [Peer -> Nat]
  /\ \A p \in Peer :
       /\ gw \in {"upgrade", "dial"} => copier[p] = "off"
       /\ received[p] <= written[p] /\ written[p] <= received[p] + Buffer
       /\ read[p] \in {written[p], written[p] + 1}
       /\ read[p] <= sent[p] /\ sent[p] <= read[p] + Buffer
       /\ copier[p] = "write" => read[p] = written[p] + 1
       /\ copier[p] \in {"off", "read"} => read[p] = written[p]

Init ==
  /\ gw = "upgrade"
  /\ copier = [p \in Peer |-> "off"]
  /\ errc = 0
  /\ ended = {}
  /\ closed = {}
  /\ broken = {}
  /\ sent = [p \in Peer |-> 0]
  /\ read = [p \in Peer |-> 0]
  /\ written = [p \in Peer |-> 0]
  /\ received = [p \in Peer |-> 0]

(***************************************************************************)
(* The peers.                                                              *)
(***************************************************************************)
\* p has a connection on which it can still send.
Connected(p) ==
  /\ \/ gw = "relay"
     \/ gw = "dial" /\ p = "client"
  /\ p \notin ended \cup closed \cup broken

Sends(p) ==
  /\ Connected(p)
  /\ sent[p] < MaxSent
  /\ sent[p] - read[p] < Buffer
  /\ sent' = [sent EXCEPT ![p] = @ + 1]
  /\ UNCHANGED <<relay, peers, read, written, received>>

\* A peer takes what the other one sent, until its connection breaks; after
\* its own close frame it drops it.
Receives(p) ==
  /\ received[Other(p)] < written[Other(p)]
  /\ p \notin broken
  /\ received' = [received EXCEPT ![Other(p)] = @ + 1]
  /\ UNCHANGED <<relay, peers, sent, read, written>>

Closes(p) ==
  /\ Connected(p)
  /\ closed' = closed \cup {p}
  /\ UNCHANGED <<relay, broken, sent, read, written, received>>

\* The connection of p breaks, with any close frame and messages in it.
Breaks(p) ==
  /\ \/ gw = "relay"
     \/ gw = "dial" /\ p = "client"
  /\ p \notin ended \cup broken
  /\ broken' = broken \cup {p}
  /\ UNCHANGED <<relay, closed, sent, read, written, received>>

(***************************************************************************)
(* proxyWebsocket.                                                         *)
(***************************************************************************)
counts == <<sent, read, written, received>>

Upgrades ==
  /\ gw = "upgrade"
  /\ gw' \in {"dial", "done"}
  /\ UNCHANGED <<copier, errc, ended, peers, counts>>

Dials ==
  /\ gw = "dial"
  /\ gw' = "relay"
  /\ copier' = [p \in Peer |-> "read"]
  /\ UNCHANGED <<errc, ended, peers, counts>>

\* A close message is written to the client, and the deferred Close runs.
DialFails ==
  /\ gw = "dial"
  /\ gw' = "done"
  /\ ended' = {"client"}
  /\ UNCHANGED <<copier, errc, peers, counts>>

\* <-errc: one of the copiers has ended.
Wakes ==
  /\ gw = "relay"
  /\ errc > 0
  /\ errc' = errc - 1
  /\ gw' = "closing"
  /\ UNCHANGED <<copier, ended, peers, counts>>

\* The deferred Close of t3's connection, then of the client's.
Close ==
  /\ gw = "closing"
  /\ IF "t3" \notin ended
       THEN ended' = ended \cup {"t3"} /\ UNCHANGED gw
       ELSE ended' = ended \cup {"client"} /\ gw' = "done"
  /\ UNCHANGED <<copier, errc, peers, counts>>

(***************************************************************************)
(* copyWS, from p to the other peer.                                       *)
(***************************************************************************)
\* Mutant: a close frame overtakes the messages before it.
NothingToReadEarly(p) == p \in ended \cup broken \cup closed

\* ReadMessage on the connection of p fails: the gateway has closed it, it
\* broke, or the next frame is a close frame.  The default close handler
\* has answered that.
NothingToRead(p) ==
  \/ p \in ended \cup broken
  \/ p \in closed /\ read[p] = sent[p]

ReadFails(p) ==
  /\ copier[p] = "read"
  /\ NothingToRead(p)
  /\ copier' = [copier EXCEPT ![p] = "error"]
  /\ UNCHANGED <<gw, errc, ended, peers, counts>>

\* Mutant: the copier does not wait for its write.
ReadsAhead(p) ==
  /\ copier[p] = "read"
  /\ p \notin ended
  /\ read[p] < sent[p]
  /\ read' = [read EXCEPT ![p] = @ + 1]
  /\ UNCHANGED <<relay, peers, sent, written, received>>

\* What was sent before a connection broke may still be read.
Reads(p) ==
  /\ copier[p] = "read"
  /\ p \notin ended
  /\ read[p] < sent[p]
  /\ read' = [read EXCEPT ![p] = @ + 1]
  /\ copier' = [copier EXCEPT ![p] = "write"]
  /\ UNCHANGED <<gw, errc, ended, peers, sent, written, received>>

\* WriteMessage fails on a connection that is closed, broken, or on which
\* the close handler has sent a close frame.
WriteFails(p) ==
  /\ copier[p] = "write"
  /\ \/ Other(p) \in ended \cup broken
     \/ Other(p) \in closed /\ copier[Other(p)] \in {"error", "done"}
  /\ copier' = [copier EXCEPT ![p] = "error"]
  /\ UNCHANGED <<gw, errc, ended, peers, counts>>

\* The kernel may still take a message for a connection that broke.
Writes(p) ==
  /\ copier[p] = "write"
  /\ Other(p) \notin ended
  /\ written[p] - received[p] < Buffer
  /\ written' = [written EXCEPT ![p] = @ + 1]
  /\ copier' = [copier EXCEPT ![p] = "read"]
  /\ UNCHANGED <<gw, errc, ended, peers, sent, read, received>>

\* Mutant: errc has no buffer, a value goes to a waiting receiver only.
RoomUnbuffered == gw = "relay" /\ errc = 0

\* errc has a buffer of 2.
Room == errc < 2

\* Mutant: the copier does not return after its error.
ReportsAgain(p) ==
  /\ copier[p] = "error"
  /\ Room
  /\ errc' = errc + 1
  /\ copier' = [copier EXCEPT ![p] = "read"]
  /\ UNCHANGED <<gw, ended, peers, counts>>

\* errc <- err.
Reports(p) ==
  /\ copier[p] = "error"
  /\ Room
  /\ errc' = errc + 1
  /\ copier' = [copier EXCEPT ![p] = "done"]
  /\ UNCHANGED <<gw, ended, peers, counts>>

Copies(p) == ReadFails(p) \/ Reads(p) \/ WriteFails(p) \/ Writes(p) \/ Reports(p)

Next ==
  \/ Upgrades \/ Dials \/ DialFails \/ Wakes \/ Close
  \/ \E p \in Peer : Sends(p) \/ Receives(p) \/ Closes(p) \/ Breaks(p) \/ Copies(p)

\* The gateway's goroutines run, and peers go on receiving.  A dial ends:
\* DefaultDialer has a handshake timeout of 45 s.  A read on a broken
\* connection ends: Go turns TCP keep-alive on.
Fairness ==
  /\ WF_vars(Dials \/ DialFails)
  /\ WF_vars(Wakes)
  /\ WF_vars(Close)
  /\ \A p \in Peer : WF_vars(Copies(p)) /\ WF_vars(Receives(p))

Spec == Init /\ [][Next]_vars /\ Fairness

-----------------------------------------------------------------------------
(***************************************************************************)
(* Properties.                                                             *)
(***************************************************************************)
\* A relay ends for a reason and loses nothing on the way: if one peer has
\* neither closed nor broken, and the connection of the other did not break,
\* then that one has closed, and all it sent before was written to the first
\* one's connection, however the two copiers and the Close of the handler
\* are ordered.
LastWords ==
  \A p \in Peer :
    /\ gw = "done" /\ copier[p] # "off"
    /\ p \notin broken /\ Other(p) \notin broken \cup closed
    => p \in closed /\ written[p] = sent[p]

\* The handler has returned and nothing of the connection is left.
Released ==
  /\ gw = "done"
  /\ "client" \in ended
  /\ \A p \in Peer : copier[p] # "off" => copier[p] = "done" /\ p \in ended

\* When either peer closes or breaks, at any time from the upgrade on, both
\* connections are closed and both goroutines end, full sockets or not.
NoLeak == \A p \in Peer : p \in closed \cup broken ~> Released

\* The copier that reads from p, or the peer that it writes to, can go on.
CanGoOn(p) ==
  \/ copier[p] = "read" /\ (NothingToRead(p) \/ read[p] < sent[p])
  \/ copier[p] = "write" /\ (Other(p) \in ended \cup broken \/ written[p] - received[p] < Buffer)
  \/ copier[p] = "error" /\ Room
  \/ received[p] < written[p] /\ Other(p) \notin broken

\* Handler, copiers and peers never all wait for each other once a peer has
\* closed or broken: neither on the two full sockets, nor on errc, of which
\* the handler takes one error only.
NeverStuck ==
  closed \cup broken # {} /\ ~ Released =>
    \/ gw \in {"dial", "closing"}
    \/ gw = "relay" /\ errc > 0
    \/ \E p \in Peer : CanGoOn(p)

\* How far the relay is from its end at most.
Rest(p) ==
  (CASE copier[p] = "write" -> 4
     [] copier[p] = "read"  -> 2
     [] copier[p] = "error" -> 1
     [] OTHER               -> 0) + 3 * (sent[p] - read[p]) + (written[p] - received[p])

Left ==
  Rest("client") + Rest("t3")
    + IF gw = "done" THEN 0 ELSE IF "t3" \in ended THEN 1 ELSE 2

\* Once the handler has taken an error, every step of anybody brings the
\* relay nearer to its end: the copier that is left does not start again, the
\* peers send no more, and what is in the sockets is bounded.  With NeverStuck
\* this is why the relay is released.
NearsEnd == [][(gw = "closing" \/ gw = "done") => Left' < Left]_vars
=============================================================================
