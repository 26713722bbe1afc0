--------------------------- MODULE WsRelayProofs ---------------------------
(***************************************************************************)
(* Theorems about WsRelay, for every size of the sockets and any number of *)
(* messages.                                                               *)
(***************************************************************************)
EXTENDS WsRelay, TLAPS

\* The groups of variables that steps leave alone.
USE DEF relay, peers, counts

LEMMA OtherPeer == \A p \in Peer : Other(p) \in Peer /\ Other(p) # p /\ Other(Other(p)) = p
BY DEF Peer, Other

-----------------------------------------------------------------------------
(***************************************************************************)
(* Type correctness.                                                       *)
(***************************************************************************)
LEMMA CopyType ==
  ASSUME TypeOK, NEW p \in Peer, Copies(p)
  PROVE  TypeOK'
<1> USE WsAssumption DEF TypeOK, Copiers
<1>1. CASE ReadFails(p)
  BY <1>1 DEF ReadFails
<1>2. CASE Reads(p)
  BY <1>2 DEF Reads
<1>3. CASE WriteFails(p)
  BY <1>3 DEF WriteFails
<1>4. CASE Writes(p)
  BY <1>4 DEF Writes
<1>5. CASE Reports(p)
  BY <1>5 DEF Reports
<1>6. QED
  BY <1>1, <1>2, <1>3, <1>4, <1>5 DEF Copies

LEMMA PeerType ==
  ASSUME TypeOK, NEW p \in Peer, Sends(p) \/ Receives(p) \/ Closes(p) \/ Breaks(p)
  PROVE  TypeOK'
<1> USE WsAssumption, OtherPeer DEF TypeOK
<1>1. CASE Sends(p)
  BY <1>1 DEF Sends
<1>2. CASE Receives(p)
  <2>1. PICK q \in Peer : q = Other(p)
    OBVIOUS
  <2>2. QED
    BY <1>2, <2>1 DEF Receives
<1>3. CASE Closes(p) \/ Breaks(p)
  BY <1>3 DEF Closes, Breaks
<1>4. QED
  BY <1>1, <1>2, <1>3

LEMMA GatewayType ==
  ASSUME TypeOK, Upgrades \/ Dials \/ DialFails \/ Wakes \/ Close
  PROVE  TypeOK'
<1> USE DEF TypeOK, Copiers, Peer
<1>1. CASE Upgrades
  BY <1>1 DEF Upgrades
<1>2. CASE Dials
  BY <1>2 DEF Dials
<1>3. CASE DialFails
  BY <1>3 DEF DialFails
<1>4. CASE Wakes
  BY <1>4 DEF Wakes
<1>5. CASE Close
  BY <1>5 DEF Close
<1>6. QED
  BY <1>1, <1>2, <1>3, <1>4, <1>5

\* The connections, the copiers and the sockets keep their types and bounds.
THEOREM TypeCorrect == Spec => []TypeOK
<1>1. Init => TypeOK
  BY WsAssumption DEF Init, TypeOK, Copiers
<1>2. TypeOK /\ [Next]_vars => TypeOK'
  <2>1. ASSUME TypeOK, UNCHANGED vars PROVE TypeOK'
    BY <2>1 DEF vars, TypeOK
  <2>2. QED
    BY <2>1, CopyType, PeerType, GatewayType DEF Next
<1>3. QED
  BY <1>1, <1>2, PTL DEF Spec

-----------------------------------------------------------------------------
(***************************************************************************)
(* The last words of a peer.                                               *)
(***************************************************************************)
\* A copier that has ended.
Gone(p) == copier[p] \in {"error", "done"}

\* The relay is coming to its end.
Over == gw \in {"closing", "done"} \/ errc > 0 \/ \E q \in Peer : Gone(q)

Clean(p) == p \notin broken /\ Other(p) \notin broken \cup closed

\* In a relay where nothing broke and only p may close, the end begins with
\* the close of p, when nothing is left to read or to write.
EndInv ==
  /\ \A p, q \in Peer : copier[p] = "off" => copier[q] = "off"
  /\ \A p \in Peer : copier[p] = "off" => errc = 0 /\ gw # "closing"
  /\ gw \in {"upgrade", "dial", "relay"} => ended = {}
  /\ \A p \in Peer : copier[p] # "off" /\ Clean(p) /\ Over => p \in closed /\ written[p] = sent[p]

LEMMA EndGateway ==
  ASSUME TypeOK, EndInv, Upgrades \/ Dials \/ DialFails \/ Wakes \/ Close
  PROVE  EndInv'
<1> USE DEF EndInv
<1>1. CASE Upgrades \/ DialFails
  <2>1. /\ gw \in {"upgrade", "dial"} /\ gw' \in {"dial", "done"}
        /\ UNCHANGED <<copier, errc>> /\ (gw' = "dial" => UNCHANGED ended)
        /\ \A p \in Peer : copier[p] = "off"
    BY <1>1 DEF Upgrades, DialFails, TypeOK
  <2>2. QED
    BY <2>1
<1>2. CASE Dials
  <2>1. gw' = "relay" /\ UNCHANGED ended /\ gw = "dial"
    BY <1>2 DEF Dials
  <2>2. \A p \in Peer : copier'[p] = "read" /\ copier[p] = "off"
    BY <1>2 DEF Dials, TypeOK
  <2>3. errc' = 0
    BY <1>2, <2>2 DEF Dials, Peer
  <2>4. ~ Over'
    BY <2>1, <2>2, <2>3 DEF Over, Gone
  <2>5. QED
    BY <2>1, <2>2, <2>4
<1>3. CASE Wakes
  <2>1. Over /\ Over'
    BY <1>3 DEF Wakes, Over
  <2>2. \A p \in Peer : copier[p] # "off"
    BY <1>3 DEF Wakes, TypeOK
  <2>3. QED
    BY <1>3, <2>1, <2>2 DEF Wakes, Clean
<1>4. CASE Close
  <2>1. Over /\ Over' /\ gw = "closing" /\ gw' \in {"closing", "done"}
    BY <1>4 DEF Close, Over
  <2>2. QED
    BY <1>4, <2>1 DEF Close, Clean
<1>5. QED
  BY <1>1, <1>2, <1>3, <1>4

LEMMA EndPeer ==
  ASSUME TypeOK, EndInv, NEW p \in Peer, Sends(p) \/ Receives(p) \/ Closes(p) \/ Breaks(p)
  PROVE  EndInv'
<1>1. /\ UNCHANGED <<relay, written>>
      /\ closed \subseteq closed' /\ broken \subseteq broken'
      /\ \A q \in closed : sent'[q] = sent[q]
  BY DEF Sends, Receives, Closes, Breaks, Connected, TypeOK
<1>2. QED
  BY <1>1 DEF EndInv, Over, Gone, Clean

LEMMA EndCopier ==
  ASSUME TypeOK, EndInv, NEW c \in Peer, Copies(c)
  PROVE  EndInv'
<1>1. /\ UNCHANGED <<gw, ended, closed, broken, sent>>
      /\ copier[c] # "off" /\ copier'[c] # "off" /\ \A q \in Peer \ {c} : copier'[q] = copier[q]
  BY DEF Copies, ReadFails, Reads, WriteFails, Writes, Reports, TypeOK, Copiers
<1>2. copier["client"] # "off" /\ copier["t3"] # "off"
  BY <1>1 DEF EndInv, Peer
<1>3. ASSUME NEW p \in Peer, Clean(p), Over'
      PROVE  p \in closed /\ written'[p] = sent[p]
  <2>1. CASE Over
    <3>1. p \in closed /\ written[p] = sent[p]
      BY <1>2, <1>3, <2>1 DEF EndInv, Peer
    <3>2. copier[p] # "write"
      BY <3>1 DEF TypeOK
    <3>3. written'[p] = written[p]
      BY <3>2 DEF Copies, ReadFails, Reads, WriteFails, Writes, Reports, TypeOK
    <3>4. QED
      BY <3>1, <3>3
  <2>2. CASE ~ Over
    <3>1. ended = {}
      BY <2>2 DEF EndInv, Over, TypeOK
    <3>2. ReadFails(c) \/ WriteFails(c)
      BY <1>1, <1>3, <2>2 DEF Copies, Reads, Writes, Reports, Over, Gone, TypeOK
    <3>3. \A q \in Peer : copier[q] \notin {"error", "done"}
      BY <2>2 DEF Over, Gone
    <3>4. ~ WriteFails(c)
      BY <1>3, <3>1, <3>3, OtherPeer DEF WriteFails, Clean, Peer, Other
    <3>5. c = p /\ p \in closed /\ read[p] = sent[p] /\ copier[p] = "read"
      BY <1>3, <3>1, <3>2, <3>4 DEF ReadFails, NothingToRead, Clean, Peer, Other
    <3>6. QED
      BY <3>2, <3>4, <3>5 DEF ReadFails, TypeOK
  <2>3. QED
    BY <2>1, <2>2
<1>4. UNCHANGED errc \/ errc' = errc + 1
  BY DEF Copies, ReadFails, Reads, WriteFails, Writes, Reports
<1>5. QED
  BY <1>1, <1>2, <1>3 DEF EndInv, Clean, Peer

\* What a peer sent before it closed is written out before the relay ends.
THEOREM LastWordsKept == Spec => []LastWords
<1>1. Init => EndInv
  BY DEF Init, EndInv, Peer
<1>2. TypeOK /\ EndInv /\ [Next]_vars => EndInv'
  <2>1. ASSUME EndInv, UNCHANGED vars PROVE EndInv'
    BY <2>1 DEF vars, EndInv, Over, Gone, Clean
  <2>2. QED
    BY <2>1, EndGateway, EndPeer, EndCopier DEF Next
<1>3. EndInv => LastWords
  BY DEF EndInv, LastWords, Over, Clean
<1>4. QED
  BY <1>1, <1>2, <1>3, TypeCorrect, PTL DEF Spec

-----------------------------------------------------------------------------
(***************************************************************************)
(* The end of a relay.                                                     *)
(***************************************************************************)
Reported(p) == IF copier[p] = "done" THEN 1 ELSE 0
Taken == IF gw \in {"closing", "done"} /\ copier["client"] # "off" THEN 1 ELSE 0

\* An error in errc is that of a copier that has ended, and of two at most;
\* the handler has taken one by the time it closes the connections.
ErrcInv ==
  /\ errc + Taken = Reported("client") + Reported("t3")
  /\ gw = "upgrade" => closed \cup broken = {}
  /\ gw \in {"relay", "closing"} => \A p \in Peer : copier[p] # "off"
  /\ gw = "done" /\ copier["client"] = "off" /\ closed \cup broken # {} => "client" \in ended
  /\ gw = "done" /\ copier["client"] # "off" => ended = Peer

LEMMA ErrcGateway ==
  ASSUME TypeOK, EndInv, ErrcInv, Upgrades \/ Dials \/ DialFails \/ Wakes \/ Close
  PROVE  ErrcInv'
<1> USE DEF ErrcInv
<1>1. CASE Upgrades \/ DialFails
  <2>1. /\ gw \in {"upgrade", "dial"} /\ gw' \in {"dial", "done"}
        /\ copier' = copier /\ errc' = errc
        /\ \A p \in Peer : copier[p] = "off"
    BY <1>1 DEF Upgrades, DialFails, TypeOK
  <2>2. errc' + Taken' = Reported("client")' + Reported("t3")'
    BY <2>1 DEF Taken, Reported, Peer
  <2>3. gw' = "done" /\ closed' \cup broken' # {} => "client" \in ended'
    BY <1>1 DEF Upgrades, DialFails
  <2>4. QED
    BY <2>1, <2>2, <2>3 DEF Peer
<1>2. CASE Dials
  <2>1. gw = "dial" /\ gw' = "relay" /\ errc' = errc
    BY <1>2 DEF Dials
  <2>2. \A p \in Peer : copier'[p] = "read" /\ copier[p] = "off"
    BY <1>2 DEF Dials, TypeOK
  <2>3. errc' + Taken' = Reported("client")' + Reported("t3")'
    BY <2>1, <2>2 DEF Taken, Reported, Peer
  <2>4. QED
    BY <2>1, <2>2, <2>3
<1>3. CASE Wakes
  <2>1. /\ gw = "relay" /\ gw' = "closing" /\ errc \in Nat /\ errc > 0 /\ errc' = errc - 1
        /\ copier' = copier /\ copier["client"] # "off"
    BY <1>3 DEF Wakes, TypeOK, Peer
  <2>2. errc' + Taken' = Reported("client")' + Reported("t3")'
    BY <2>1 DEF Taken, Reported
  <2>3. QED
    BY <2>1, <2>2
<1>4. CASE Close
  <2>1. /\ gw = "closing" /\ gw' \in {"closing", "done"} /\ copier' = copier /\ errc' = errc
        /\ copier["client"] # "off"
        /\ gw' = "done" => ended' = Peer
    BY <1>4 DEF Close, Peer, TypeOK
  <2>2. errc' + Taken' = Reported("client")' + Reported("t3")'
    BY <2>1 DEF Taken, Reported
  <2>3. QED
    BY <2>1, <2>2
<1>5. QED
  BY <1>1, <1>2, <1>3, <1>4

LEMMA ErrcPeer ==
  ASSUME TypeOK, ErrcInv, NEW p \in Peer, Sends(p) \/ Receives(p) \/ Closes(p) \/ Breaks(p)
  PROVE  ErrcInv'
<1>1. UNCHANGED relay
  BY DEF Sends, Receives, Closes, Breaks
<1>2. Taken' = Taken /\ Reported("client")' = Reported("client") /\ Reported("t3")' = Reported("t3")
  BY <1>1 DEF Taken, Reported
<1>3. closed' \cup broken' # closed \cup broken => gw \in {"dial", "relay"}
  BY DEF Sends, Receives, Closes, Breaks, Connected
<1>4. QED
  BY <1>1, <1>2, <1>3 DEF ErrcInv

LEMMA ErrcCopier ==
  ASSUME TypeOK, EndInv, ErrcInv, NEW c \in Peer, Copies(c)
  PROVE  ErrcInv'
<1>1. /\ UNCHANGED <<gw, ended, closed, broken>>
      /\ \A q \in Peer \ {c} : copier'[q] = copier[q]
      /\ copier[c] # "off" /\ copier'[c] # "off"
  BY DEF Copies, ReadFails, Reads, WriteFails, Writes, Reports, TypeOK
<1>2. \A p \in Peer : copier[p] # "off" /\ copier'[p] # "off"
  BY <1>1 DEF EndInv
<1>3. errc' + Taken' = Reported("client")' + Reported("t3")'
  <2>1. Taken' = Taken
    BY <1>1, <1>2 DEF Taken, Peer
  <2>2. CASE Reports(c)
    <3>1. errc' = errc + 1 /\ copier[c] = "error" /\ copier'[c] = "done"
      BY <2>2 DEF Reports, TypeOK
    <3>2. errc \in Nat /\ Taken \in {0, 1}
      BY DEF TypeOK, Taken
    <3>3. CASE c = "client"
      <4>1. /\ Reported("client") = 0 /\ Reported("client")' = 1
            /\ Reported("t3")' = Reported("t3") /\ Reported("t3") \in {0, 1}
        BY <1>1, <3>1, <3>3 DEF Reported, Peer
      <4>2. QED
        BY <2>1, <3>1, <3>2, <4>1 DEF ErrcInv
    <3>4. CASE c = "t3"
      <4>1. /\ Reported("t3") = 0 /\ Reported("t3")' = 1
            /\ Reported("client")' = Reported("client") /\ Reported("client") \in {0, 1}
        BY <1>1, <3>1, <3>4 DEF Reported, Peer
      <4>2. QED
        BY <2>1, <3>1, <3>2, <4>1 DEF ErrcInv
    <3>5. QED
      BY <3>3, <3>4 DEF Peer
  <2>3. CASE ~ Reports(c)
    <3>1. errc' = errc /\ copier[c] # "done" /\ copier'[c] # "done"
      BY <2>3 DEF Copies, ReadFails, Reads, WriteFails, Writes, TypeOK
    <3>2. \A q \in Peer : Reported(q)' = Reported(q)
      BY <1>1, <3>1 DEF Reported
    <3>3. QED
      BY <2>1, <3>1, <3>2 DEF ErrcInv, Peer
  <2>4. QED
    BY <2>2, <2>3
<1>4. QED
  BY <1>1, <1>2, <1>3 DEF ErrcInv, Peer

\* When nobody can go on, no peer has closed or broken, or all is released.
LEMMA SomebodyGoesOn ==
  ASSUME TypeOK, EndInv, ErrcInv
  PROVE  NeverStuck
<1> SUFFICES ASSUME closed \cup broken # {}, ~ Released,
                    gw \notin {"dial", "closing"}, gw = "relay" => errc = 0,
                    \A p \in Peer : ~ CanGoOn(p)
             PROVE  FALSE
  BY DEF NeverStuck, TypeOK
<1>1. errc \in Nat /\ \A p \in Peer : Reported(p) \in {0, 1}
  BY DEF TypeOK, Reported
<1>2. CASE gw = "relay"
  <2>1. \A p \in Peer : copier[p] \in {"read", "write"}
    <3>1. Reported("client") = 0 /\ Reported("t3") = 0
      BY <1>1, <1>2 DEF ErrcInv, Taken, Peer
    <3>2. \A p \in Peer : copier[p] # "done"
      BY <3>1 DEF Reported, Peer
    <3>3. \A p \in Peer : copier[p] # "error"
      BY <1>2 DEF CanGoOn, Room
    <3>4. QED
      BY <1>2, <3>2, <3>3 DEF ErrcInv, TypeOK, Copiers
  <2>2. PICK p \in Peer : p \in closed \cup broken
    BY DEF TypeOK
  <2>3. copier[p] # "read"
    BY <2>2 DEF CanGoOn, NothingToRead, TypeOK
  <2>4. copier[p] = "write"
    BY <2>1, <2>3
  <2>5. Other(p) \notin broken /\ ~ (written[p] - received[p] < Buffer)
    BY <2>4 DEF CanGoOn
  <2>6. received[p] < written[p]
    BY <2>5, WsAssumption DEF TypeOK
  <2>7. QED
    BY <2>5, <2>6 DEF CanGoOn
<1>3. CASE gw = "done"
  <2>1. CASE copier["client"] = "off"
    <3>1. \A p \in Peer : copier[p] = "off"
      BY <2>1 DEF EndInv, Peer
    <3>2. QED
      BY <1>3, <2>1, <3>1 DEF ErrcInv, Released
  <2>2. CASE copier["client"] # "off"
    <3>1. ended = Peer /\ errc + 1 = Reported("client") + Reported("t3")
      BY <1>3, <2>2 DEF ErrcInv, Taken
    <3>2. PICK p \in Peer : copier[p] \notin {"off", "done"}
      BY <1>3, <3>1 DEF Released, Peer
    <3>3. copier[p] = "error"
      BY <3>1, <3>2, OtherPeer DEF CanGoOn, NothingToRead, TypeOK, Copiers
    <3>4. Reported(p) = 0
      BY <3>3 DEF Reported
    <3>5. errc = 0
      BY <1>1, <3>1, <3>4 DEF Peer
    <3>6. QED
      BY <3>3, <3>5 DEF CanGoOn, Room
  <2>3. QED
    BY <2>1, <2>2
<1>4. CASE gw = "upgrade"
  BY <1>4 DEF ErrcInv
<1>5. QED
  BY <1>2, <1>3, <1>4 DEF TypeOK

\* However full the sockets are, the buffer of errc and the Close of both
\* connections let everybody go on who has to.
THEOREM NobodyStuck == Spec => []NeverStuck
<1>1. Init => EndInv /\ ErrcInv
  <2>1. Init => EndInv
    BY DEF Init, EndInv, Peer
  <2>2. Init => ErrcInv
    BY DEF Init, ErrcInv, Taken, Reported, Peer
  <2>3. QED
    BY <2>1, <2>2
<1>2. TypeOK /\ EndInv /\ ErrcInv /\ [Next]_vars => EndInv' /\ ErrcInv'
  <2>1. ASSUME EndInv, ErrcInv, UNCHANGED vars PROVE EndInv' /\ ErrcInv'
    <3>1. EndInv'
      BY <2>1 DEF vars, EndInv, Over, Gone, Clean
    <3>2. ErrcInv'
      BY <2>1 DEF vars, ErrcInv, Taken, Reported
    <3>3. QED
      BY <3>1, <3>2
  <2>2. QED
    BY <2>1, EndGateway, EndPeer, EndCopier, ErrcGateway, ErrcPeer, ErrcCopier DEF Next
<1>3. TypeOK /\ EndInv /\ ErrcInv => NeverStuck
  BY SomebodyGoesOn
<1>4. QED
  BY <1>1, <1>2, <1>3, TypeCorrect, PTL DEF Spec

-----------------------------------------------------------------------------
\* Rest and Left are numbers.
LEMMA RestType == TypeOK => \A p \in Peer : Rest(p) \in Nat
<1> SUFFICES ASSUME TypeOK, NEW p \in Peer PROVE Rest(p) \in Nat
  OBVIOUS
<1> DEFINE value == CASE copier[p] = "write" -> 4
                      [] copier[p] = "read"  -> 2
                      [] copier[p] = "error" -> 1
                      [] OTHER               -> 0
<1>1. value \in Nat
  OBVIOUS
<1>2. sent[p] - read[p] \in Nat /\ written[p] - received[p] \in Nat
  BY DEF TypeOK
<1>3. Rest(p) = value + 3 * (sent[p] - read[p]) + (written[p] - received[p])
  BY DEF Rest
<1> HIDE DEF value
<1>4. QED
  BY <1>1, <1>2, <1>3

LEMMA RestTypeNext == TypeOK' => \A p \in Peer : Rest(p)' \in Nat
<1>1. (TypeOK => \A p \in Peer : Rest(p) \in Nat)'
  BY RestType, PTL
<1>2. QED
  BY <1>1

\* A step that changes what is left of one direction only.
LEMMA LeftBy ==
  ASSUME TypeOK, TypeOK', NEW c \in Peer, \A q \in Peer \ {c} : Rest(q)' = Rest(q),
         Rest(c)' < Rest(c), UNCHANGED <<gw, ended>>
  PROVE  Left' < Left
<1> DEFINE end == IF gw = "done" THEN 0 ELSE IF "t3" \in ended THEN 1 ELSE 2
<1>1. \A p \in Peer : Rest(p) \in Nat /\ Rest(p)' \in Nat
  BY RestType, RestTypeNext
<1>2. end' = end /\ end \in Nat
  OBVIOUS
<1>3. Left = Rest("client") + Rest("t3") + end
  BY DEF Left
<1>4. Left' = Rest("client")' + Rest("t3")' + end'
  BY DEF Left
<1> HIDE DEF end
<1>5. CASE c = "client"
  BY <1>1, <1>2, <1>3, <1>4, <1>5 DEF Peer
<1>6. CASE c = "t3"
  BY <1>1, <1>2, <1>3, <1>4, <1>6 DEF Peer
<1>7. QED
  BY <1>5, <1>6 DEF Peer

LEMMA CopierNears ==
  ASSUME TypeOK, TypeOK', NEW c \in Peer, Copies(c)
  PROVE  Left' < Left
<1> USE DEF TypeOK, Copiers
<1>1. /\ UNCHANGED <<gw, ended>>
      /\ \A q \in Peer \ {c} : /\ copier'[q] = copier[q] /\ sent'[q] = sent[q]
                               /\ read'[q] = read[q] /\ written'[q] = written[q]
                               /\ received'[q] = received[q]
  BY DEF Copies, ReadFails, Reads, WriteFails, Writes, Reports
<1>2. \A q \in Peer \ {c} : Rest(q)' = Rest(q)
  BY <1>1 DEF Rest
<1>3. Rest(c)' < Rest(c)
  <2>1. CASE ReadFails(c)
    BY <2>1 DEF ReadFails, Rest
  <2>2. CASE Reads(c)
    BY <2>2 DEF Reads, Rest
  <2>3. CASE WriteFails(c)
    BY <2>3 DEF WriteFails, Rest
  <2>4. CASE Writes(c)
    BY <2>4 DEF Writes, Rest
  <2>5. CASE Reports(c)
    BY <2>5 DEF Reports, Rest
  <2>6. QED
    BY <2>1, <2>2, <2>3, <2>4, <2>5 DEF Copies
<1>4. QED
  BY <1>1, <1>2, <1>3, LeftBy

\* After the handler has woken, the steps that are left are numbered: at most
\* Left of them take place.
THEOREM EndIsNear == Spec => NearsEnd
<1>1. ASSUME TypeOK, TypeOK', gw = "closing" \/ gw = "done", Next
      PROVE  Left' < Left
  <2>1. CASE Close
    <3>1. UNCHANGED <<copier, sent, read, written, received>>
      BY <2>1 DEF Close, peers, counts
    <3>2. \A p \in Peer : Rest(p)' = Rest(p)
      BY <3>1 DEF Rest
    <3>3. \A p \in Peer : Rest(p) \in Nat
      BY <1>1, RestType
    <3>4. QED
      BY <1>1, <2>1, <3>2, <3>3 DEF Close, Left, Peer, TypeOK
  <2>2. ASSUME NEW p \in Peer, Receives(p) PROVE Left' < Left
    <3>1. PICK q \in Peer : q = Other(p)
      BY OtherPeer
    <3>2. /\ UNCHANGED <<gw, ended, copier, sent, read, written>>
          /\ received' = [received EXCEPT ![q] = @ + 1]
      BY <2>2, <3>1 DEF Receives
    <3>3. \A s \in Peer \ {q} : Rest(s)' = Rest(s)
      BY <3>2 DEF Rest, TypeOK
    <3>4. Rest(q)' < Rest(q)
      BY <1>1, <3>2 DEF Rest, TypeOK
    <3>5. QED
      BY <1>1, <3>2, <3>3, <3>4, LeftBy
  <2>3. ASSUME NEW p \in Peer, Copies(p) PROVE Left' < Left
    BY <1>1, <2>3, CopierNears
  <2>4. ~ (Upgrades \/ Dials \/ DialFails \/ Wakes)
    BY <1>1 DEF Upgrades, Dials, DialFails, Wakes
  <2>5. \A p \in Peer : ~ (Sends(p) \/ Closes(p) \/ Breaks(p))
    BY <1>1 DEF Sends, Closes, Breaks, Connected
  <2>6. QED
    BY <1>1, <2>1, <2>2, <2>3, <2>4, <2>5 DEF Next
<1>2. TypeOK /\ TypeOK' /\ [Next]_vars =>
        [(gw = "closing" \/ gw = "done") => Left' < Left]_vars
  BY <1>1
<1>3. QED
  BY <1>2, TypeCorrect, PTL DEF Spec, NearsEnd
=============================================================================
