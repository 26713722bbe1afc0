-------------------------- MODULE DiscoveryProofs --------------------------
(***************************************************************************)
(* Theorems about Discovery, for every value of its constants.             *)
(***************************************************************************)
EXTENDS Discovery, NaturalsLemmas, TLAPS

\* The groups of variables that steps leave alone.
USE DEF docker, round, NoFault, Outside

-----------------------------------------------------------------------------
(***************************************************************************)
(* Facts about the operators.                                              *)
(***************************************************************************)
LEMMA LoopHolds == Loop \subseteq Holder /\ Table \in Holder /\ \A r \in Loop : r # Table
BY DiscoveryAssumption DEF Holder

\* Of a configuration, the name of a network that is given is one.
LEMMA NetOfConfig ==
  \A cf \in Config : /\ cf.by \in {"", "name", "id", "short"}
                     /\ cf.by # "" => cf.net \in Network \cap JoinedNets
<1>1. ASSUME NEW f \in File
      PROVE  /\ ApplyDefaults(f).by \in {"", "name", "id", "short"}
             /\ ApplyDefaults(f).by # "" => ApplyDefaults(f).net \in Network
  BY DiscoveryAssumption DEF ApplyDefaults
<1>2. \A cf \in Config : cf.by # "" => cf.net \in JoinedNets
  BY DEF JoinedNets
<1>3. QED
  BY <1>1, <1>2 DEF Config

LEMMA CurOfTodo == ASSUME NEW r, todo[r] # {} PROVE cur(r) \in todo[r]
BY DEF cur

LEMMA InspectType == ASSUME DockerType, NEW c \in Container PROVE Inspected(c) \in Snapshot
BY DEF DockerType, Inspected, Snapshot

LEMMA InspectedRunning == ASSUME NEW c PROVE Inspected(c).running <=> state[c] = "running"
<1>1. CASE state[c] = "running"
  <2>1. Inspected(c) = [running |-> TRUE, on |-> joined[c], ip |-> ip[c]]
    BY <1>1, Zenon DEF Inspected
  <2>2. QED
    BY <1>1, <2>1
<1>2. CASE state[c] # "running"
  <2>1. Inspected(c) = [running |-> FALSE, on |-> joined[c], ip |-> ip[c]]
    BY <1>2, Zenon DEF Inspected
  <2>2. QED
    BY <1>2, <2>1
<1>3. QED
  BY <1>1, <1>2

LEMMA Zero == 0 \in 0..MaxHost
<1>1. MaxHost \in Nat
  BY DiscoveryAssumption
<1>2. QED
  BY <1>1

LEMMA NoAddressType == NoAddress \in Addresses
BY Zero DEF NoAddress, Addresses, Place

LEMMA BlankType == Blank \in Snapshot /\ NoRow \in Row /\ Nothing \in [Container -> Row]
<1>1. [n \in Place |-> 0] \in [Place -> 0..MaxHost]
  BY Zero
<1>2. Blank \in Snapshot
  BY <1>1 DEF Blank, Snapshot
<1>3. NoRow \in Row
  BY NoAddressType DEF NoRow, Row
<1>4. QED
  BY <1>2, <1>3 DEF Nothing

\* containerIP gives an address that the inspect shows, the one on the
\* configured network if there is one and the network is given by its name or
\* ID, and none only if the inspect shows none anywhere.
LEMMA AddressChosen ==
  ASSUME NEW s \in Snapshot, NEW cf, NEW addr \in containerIP(s, cf)
  PROVE  /\ addr \in Addresses
         /\ addr.net \in s.on \cup {""} /\ addr.host = s.ip[addr.net]
         /\ cf.net \in s.on /\ s.ip[cf.net] # 0 /\ cf.by \in {"name", "id"} =>
              addr = Address(s, cf.net)
         /\ addr.host = 0 => \A n \in s.on \cup {""} : s.ip[n] = 0
<1> DEFINE any  == {n \in s.on : s.ip[n] # 0}
           nets == IF Preferred(s, cf) # {} THEN Preferred(s, cf) ELSE any
<1> s.on \subseteq Network /\ s.ip \in [Place -> 0..MaxHost]
  BY DEF Snapshot
<1>1. PICK n \in IF nets # {} THEN nets ELSE {""} : addr = Address(s, n)
  BY DEF containerIP
<1>2. n \in s.on \cup {""} /\ n \in Place
  BY DEF Preferred, Place
<1>3. addr.net = n /\ addr.host = s.ip[n] /\ addr \in Addresses
  BY <1>1, <1>2 DEF Address, Addresses
<1>4. CASE nets = {}
  <2>1. any = {} /\ Preferred(s, cf) = {}
    BY <1>4
  <2>2. n = ""
    BY <1>4
  <2>3. QED
    BY <1>2, <1>3, <2>1, <2>2
<1>5. CASE nets # {}
  <2>1. s.ip[n] # 0
    BY <1>5 DEF Preferred
  <2>2. cf.net \in s.on /\ s.ip[cf.net] # 0 /\ cf.by \in {"name", "id"} => n = cf.net
    BY <1>5 DEF Preferred
  <2>3. QED
    BY <1>1, <1>2, <1>3, <2>1, <2>2
<1>6. QED
  BY <1>4, <1>5

-----------------------------------------------------------------------------
(***************************************************************************)
(* Type correctness.                                                       *)
(***************************************************************************)
LEMMA FaultType == ASSUME budget \in Nat, Fault \/ NoFault PROVE budget' \in Nat
BY DEF Fault

LEMMA DisturbsType == ASSUME HolderType, NEW r \in Loop, Disturbs(r)
                      PROVE calm' \in [Holder -> [Container -> BOOLEAN]]
BY LoopHolds DEF HolderType, Disturbs

\* A record is complete.
LEMMA RecordType ==
  ASSUME TypeOK, NEW r \in Loop, at[r] \in Handling,
         NEW s \in Snapshot, NEW w \in BOOLEAN, Record(r, s, w)
  PROVE  RoundType' /\ rows' \in [Holder -> [Container -> Row]] /\ UNCHANGED used
<1> cur(r) \in Container /\ used[r] \in Config /\ found[r] \in BOOLEAN /\ seen[r] \in Snapshot
  BY CurOfTodo, LoopHolds DEF TypeOK, RoundType, HolderType
<1>1. PICK addr \in containerIP(s, used[r]) :
        rows' = [rows EXCEPT ![r][cur(r)] =
                  [there |-> TRUE, running |-> seen[r].running, warned |-> w,
                   who |-> Who[cur(r)][used[r]][found[r]], addr |-> addr]]
  BY DEF Record
<1>2. addr \in Addresses
  BY <1>1, AddressChosen
<1>3. Who[cur(r)][used[r]][found[r]] \in People
  BY DEF People
<1>4. seen[r].running \in BOOLEAN
  BY DEF Snapshot
<1>5. [there |-> TRUE, running |-> seen[r].running, warned |-> w,
       who |-> Who[cur(r)][used[r]][found[r]], addr |-> addr] \in Row
  BY <1>2, <1>3, <1>4 DEF Row
<1>6. rows' \in [Holder -> [Container -> Row]]
  BY <1>1, <1>5 DEF TypeOK, HolderType
<1>7. RoundType'
  BY BlankType DEF Record, TypeOK, RoundType, Handling
<1>8. QED
  BY <1>6, <1>7 DEF Record

\* The steps that complete a record.
Records(r) ==
  \/ NoNetwork(r) \/ NetworkMissing(r) \/ AlreadyConnected(r)
  \/ Refresh(r) \/ RefreshFails(r)
  \/ Verify(r) \/ VerifyRefuted(r) \/ VerifyFails(r)

LEMMA RecordSteps ==
  ASSUME TypeOK, NEW r \in Loop, Records(r)
  PROVE  /\ at[r] \in Handling
         /\ budget' \in Nat
         /\ UNCHANGED calm \/ Disturbs(r)
         /\ \E s \in Snapshot, w \in BOOLEAN : Record(r, s, w)
<1> cur(r) \in Container \/ at[r] \notin Handling
  BY CurOfTodo DEF TypeOK, RoundType
<1> seen[r] \in Snapshot /\ budget \in Nat
  BY DEF TypeOK, RoundType, DockerType
<1>1. CASE NoNetwork(r)
  BY <1>1 DEF NoNetwork, Handling
<1>2. CASE NetworkMissing(r)
  BY <1>2, FaultType DEF NetworkMissing, Handling, Failing
<1>3. CASE AlreadyConnected(r)
  BY <1>3 DEF AlreadyConnected, Handling
<1>4. CASE Refresh(r)
  BY <1>4, InspectType DEF Refresh, Handling, TypeOK
<1>5. CASE RefreshFails(r)
  BY <1>5, FaultType DEF RefreshFails, Handling, Failing
<1>6. CASE Verify(r)
  BY <1>6, InspectType DEF Verify, Handling, TypeOK
<1>7. CASE VerifyRefuted(r)
  BY <1>7 DEF VerifyRefuted, Handling
<1>8. CASE VerifyFails(r)
  BY <1>8, FaultType DEF VerifyFails, Handling, Failing
<1>9. QED
  BY <1>1, <1>2, <1>3, <1>4, <1>5, <1>6, <1>7, <1>8 DEF Records

\* Joining a network keeps the types of Docker.
LEMMA JoinType ==
  ASSUME DockerType, NEW c \in Container, NEW n \in Network, Joins(c, n)
  PROVE  /\ joined' \in [Container -> SUBSET Network]
         /\ ip' \in [Container -> [Place -> 0..MaxHost]]
         /\ UNCHANGED <<state, present, cfg>>
<1>1. PICK host \in 0..MaxHost : ip' = [ip EXCEPT ![c][n] = host]
  BY DEF Joins
<1>2. ip' \in [Container -> [Place -> 0..MaxHost]]
  BY <1>1 DEF DockerType, Place
<1>3. QED
  BY <1>2 DEF Joins, DockerType

\* The steps between the inspect and the record.
Advances(r) ==
  \/ LookUp(r) \/ LookUpFails(r) \/ LookUpSkipped(r) \/ NotConnected(r)
  \/ Connect(r) \/ ConnectLost(r) \/ ConnectRefused(r) \/ ConnectFails(r)

LEMMA AdvanceSteps ==
  ASSUME TypeOK, NEW r \in Loop, Advances(r)
  PROVE  /\ DockerType' /\ RoundType' /\ UNCHANGED <<rows, used, cfg>>
         /\ UNCHANGED calm \/ Disturbs(r)
<1> USE DEF TypeOK, Handling
<1> budget \in Nat /\ DockerType
  BY DEF DockerType
<1>1. CASE LookUp(r) \/ LookUpFails(r) \/ LookUpSkipped(r)
  <2>1. PICK looked \in BOOLEAN : LookedUp(r, looked)
    BY <1>1 DEF LookUp, LookUpFails, LookUpSkipped
  <2>2. budget' \in Nat
    BY <1>1, FaultType DEF LookUp, LookUpFails, LookUpSkipped, Failing
  <2>3. DockerType'
    BY <2>1, <2>2 DEF LookedUp, DockerType
  <2>4. RoundType'
    BY <2>1 DEF LookedUp, RoundType
  <2>5. QED
    BY <1>1, <2>1, <2>3, <2>4 DEF LookUp, LookUpFails, LookUpSkipped, LookedUp
<1>2. CASE NotConnected(r)
  <2>1. DockerType'
    BY <1>2 DEF NotConnected, DockerType
  <2>2. RoundType'
    BY <1>2 DEF NotConnected, RoundType, NetworkWanted
  <2>3. QED
    BY <1>2, <2>1, <2>2 DEF NotConnected
<1>3. CASE Connect(r) \/ ConnectLost(r)
  <2>1. at[r] = "connect" /\ Joins(cur(r), used[r].net) /\ budget' \in Nat
    BY <1>3, FaultType DEF Connect, ConnectLost
  <2>2. cur(r) \in Container /\ used[r] \in Config /\ used[r].by # ""
    BY <2>1, CurOfTodo, LoopHolds DEF RoundType, HolderType
  <2>3. DockerType'
    BY <2>1, <2>2, JoinType, NetOfConfig DEF DockerType
  <2>4. RoundType'
    BY <1>3 DEF Connect, ConnectLost, RoundType
  <2>5. QED
    BY <1>3, <2>3, <2>4 DEF Connect, ConnectLost, Joins
<1>4. CASE ConnectRefused(r) \/ ConnectFails(r)
  <2>1. budget' \in Nat
    BY <1>4, FaultType DEF ConnectRefused, ConnectFails
  <2>2. DockerType'
    BY <1>4, <2>1 DEF ConnectRefused, ConnectFails, DockerType
  <2>3. RoundType'
    BY <1>4 DEF ConnectRefused, ConnectFails, RoundType
  <2>4. QED
    BY <1>4, <2>2, <2>3 DEF ConnectRefused, ConnectFails
<1>5. QED
  BY <1>1, <1>2, <1>3, <1>4 DEF Advances

LEMMA HandleSteps == ASSUME NEW r, Handle(r) PROVE Records(r) \/ Advances(r)
BY DEF Handle, Records, Advances

LEMMA HandleType == ASSUME TypeOK, NEW r \in Loop, Handle(r) PROVE TypeOK'
<1>1. CASE Advances(r)
  BY <1>1, AdvanceSteps, DisturbsType DEF TypeOK, HolderType
<1>2. CASE Records(r)
  <2>1. PICK s \in Snapshot, w \in BOOLEAN : Record(r, s, w)
    BY <1>2, RecordSteps
  <2>2. RoundType' /\ rows' \in [Holder -> [Container -> Row]] /\ UNCHANGED used
    BY <1>2, <2>1, RecordSteps, RecordType
  <2>3. DockerType' /\ UNCHANGED cfg
    BY <1>2, <2>1, RecordSteps DEF Record, TypeOK, DockerType
  <2>4. calm' \in [Holder -> [Container -> BOOLEAN]]
    BY <1>2, RecordSteps, DisturbsType DEF TypeOK, HolderType
  <2>5. QED
    BY <2>2, <2>3, <2>4 DEF TypeOK, HolderType
<1>3. QED
  BY <1>1, <1>2, HandleSteps

\* The other steps of a round.
Turns(r) == List(r) \/ ListFails(r) \/ Publish(r) \/ InspectFails(r) \/ Ignore(r) \/ Inspect(r)

LEMMA TurnType == ASSUME TypeOK, NEW r \in Loop, Turns(r) PROVE TypeOK'
<1> USE LoopHolds DEF TypeOK, Handling
<1> budget \in Nat
  BY DEF DockerType
<1>1. CASE List(r) \/ ListFails(r)
  <2>1. DockerType'
    BY <1>1, FaultType DEF List, ListFails, DockerType
  <2>2. RoundType'
    <3>1. CASE List(r)
      <4>1. /\ \A q \in Loop \ {r} : at'[q] = at[q] /\ used'[q] = used[q] /\ todo'[q] = todo[q]
            /\ at'[r] = "next"
        BY <3>1 DEF List, RoundType, HolderType
      <4>2. QED
        BY <3>1, <4>1 DEF List, RoundType
    <3>2. CASE ListFails(r)
      BY <3>2 DEF ListFails, RoundType
    <3>3. QED
      BY <1>1, <3>1, <3>2
  <2>3. HolderType'
    BY <1>1 DEF List, ListFails, HolderType
  <2>4. QED
    BY <1>1, <2>1, <2>2, <2>3 DEF List, ListFails
<1>2. CASE Publish(r)
  <2>1. DockerType'
    BY <1>2 DEF Publish, DockerType
  <2>2. RoundType'
    BY <1>2 DEF Publish, RoundType, HolderType
  <2>3. HolderType'
    BY <1>2, BlankType DEF Publish, HolderType
  <2>4. QED
    BY <1>2, <2>1, <2>2, <2>3 DEF Publish
<1>3. CASE InspectFails(r) \/ Ignore(r)
  <2>1. DockerType'
    BY <1>3, FaultType DEF InspectFails, Ignore, Failing, DockerType
  <2>2. RoundType' /\ HolderType'
    BY <1>3 DEF InspectFails, Ignore, RoundType, HolderType
  <2>3. QED
    BY <1>3, <2>1, <2>2 DEF InspectFails, Ignore
<1>4. CASE Inspect(r)
  <2>1. Inspected(cur(r)) \in Snapshot /\ cur(r) \in Container
    BY <1>4, CurOfTodo, InspectType DEF Inspect, RoundType
  <2>2. DockerType'
    BY <1>4 DEF Inspect, DockerType
  <2>3. RoundType'
    BY <1>4, <2>1 DEF Inspect, RoundType
  <2>4. HolderType'
    BY <1>4, <2>1 DEF Inspect, HolderType
  <2>5. QED
    BY <1>4, <2>2, <2>3, <2>4 DEF Inspect
<1>5. QED
  BY <1>1, <1>2, <1>3, <1>4 DEF Turns

LEMMA HappensType ==
  ASSUME TypeOK, NEW c \in Container, Happens(c)
  PROVE  RoundType' /\ HolderType' /\ cfg' \in Config /\ budget' \in Nat
<1>1. budget' \in Nat
  BY FaultType DEF Happens, TypeOK, DockerType
<1>2. RoundType'
  BY DEF Happens, TypeOK, RoundType
<1>3. HolderType'
  BY DEF Happens, TypeOK, HolderType
<1>4. QED
  BY <1>1, <1>2, <1>3 DEF Happens, TypeOK

LEMMA EnvironmentType == ASSUME TypeOK, Environment PROVE TypeOK'
<1>1. Blank.ip \in [Place -> 0..MaxHost]
  BY Zero DEF Blank
<1>2. ASSUME NEW c \in Container, Start(c) \/ Stop(c) \/ Remove(c) PROVE TypeOK'
  <2>1. Happens(c)
    BY <1>2 DEF Start, Stop, Remove
  <2>2. state' \in [Container -> {"stopped", "running", "gone"}]
    BY <1>2 DEF Start, Stop, Remove, TypeOK, DockerType
  <2>3. ip' \in [Container -> [Place -> 0..MaxHost]]
    BY <1>1, <1>2 DEF Start, Stop, Remove, TypeOK, DockerType
  <2>4. joined' \in [Container -> SUBSET Network] /\ present' \in SUBSET Network
    BY <1>2 DEF Start, Stop, Remove, TypeOK, DockerType
  <2>5. QED
    BY <2>1, <2>2, <2>3, <2>4, HappensType DEF TypeOK, DockerType
<1>3. ASSUME NEW c \in Container, NEW n \in Network, Leave(c, n) PROVE TypeOK'
  <2>1. Happens(c)
    BY <1>3 DEF Leave
  <2>2. ip' \in [Container -> [Place -> 0..MaxHost]]
    <3>1. PICK top \in {ip[c][""], 0} : ip' = [ip EXCEPT ![c] = [@ EXCEPT ![n] = 0, ![""] = top]]
      BY <1>3 DEF Leave
    <3>2. ip[c] \in [Place -> 0..MaxHost] /\ "" \in Place
      BY DEF TypeOK, DockerType, Place
    <3>3. [ip[c] EXCEPT ![n] = 0, ![""] = top] \in [Place -> 0..MaxHost]
      <4>1. top \in 0..MaxHost
        BY <3>2, Zero
      <4>2. QED
        BY <3>2, <4>1, Zero
    <3>4. QED
      BY <3>1, <3>3 DEF TypeOK, DockerType
  <2>3. QED
    BY <1>3, <2>1, <2>2, HappensType DEF Leave, TypeOK, DockerType
<1>4. ASSUME NEW n \in Network, NetworkGoes(n) \/ NetworkComes(n) PROVE TypeOK'
  <2>1. budget' \in Nat
    BY <1>4, FaultType DEF NetworkGoes, NetworkComes, TypeOK, DockerType
  <2>2. DockerType'
    BY <1>4, <2>1 DEF NetworkGoes, NetworkComes, TypeOK, DockerType
  <2>3. RoundType'
    BY <1>4 DEF NetworkGoes, NetworkComes, TypeOK, RoundType
  <2>4. HolderType'
    <3>1. calm' \in [Holder -> [Container -> BOOLEAN]]
      <4>1. [h \in Holder |-> [c \in Container |-> FALSE]] \in [Holder -> [Container -> BOOLEAN]]
        OBVIOUS
      <4>2. calm' = [h \in Holder |-> [c \in Container |-> FALSE]] \/ calm' = calm
        BY <1>4 DEF NetworkGoes, NetworkComes
      <4>3. QED
        BY <4>1, <4>2 DEF TypeOK, HolderType
    <3>2. UNCHANGED <<rows, used>>
      BY <1>4 DEF NetworkGoes, NetworkComes
    <3>3. QED
      BY <3>1, <3>2 DEF TypeOK, HolderType
  <2>5. QED
    BY <1>4, <2>2, <2>3, <2>4 DEF NetworkGoes, NetworkComes, TypeOK
<1>5. ASSUME NEW f \in File, Reload(f) PROVE TypeOK'
  <2>1. budget' \in Nat
    BY <1>5, FaultType DEF Reload, TypeOK, DockerType
  <2>2. DockerType'
    BY <1>5, <2>1 DEF Reload, TypeOK, DockerType
  <2>3. RoundType'
    BY <1>5 DEF Reload, TypeOK, RoundType
  <2>4. HolderType'
    BY <1>5 DEF Reload, TypeOK, HolderType
  <2>5. cfg' \in Config
    BY <1>5 DEF Reload, Config
  <2>6. QED
    BY <2>2, <2>3, <2>4, <2>5 DEF TypeOK
<1>6. QED
  BY <1>2, <1>3, <1>4, <1>5 DEF Environment

LEMMA NextSteps ==
  ASSUME Next
  PROVE  \/ \E r \in Loop : Turns(r) \/ Handle(r)
         \/ Environment
BY DEF Next, Proceed, Turns

LEMMA StutterType == ASSUME TypeOK, UNCHANGED vars PROVE TypeOK'
BY DEF vars, TypeOK, DockerType, RoundType, HolderType

LEMMA InitType == ASSUME Init PROVE TypeOK
<1>1. DockerType
  <2>1. ip \in [Container -> [Place -> 0..MaxHost]]
    BY Zero, DiscoveryAssumption DEF Init
  <2>2. state \in [Container -> {"stopped", "running", "gone"}]
    BY DEF Init
  <2>3. QED
    BY <2>1, <2>2, DiscoveryAssumption DEF Init, DockerType
<1>2. RoundType
  BY BlankType DEF Init, RoundType, Handling
<1>3. HolderType
  BY BlankType DEF Init, HolderType
<1>4. QED
  BY <1>1, <1>2, <1>3 DEF Init, TypeOK

\* Docker, the rounds and the rows of every holder keep their types.
THEOREM TypeCorrect == Spec => []TypeOK
<1>1. Init => TypeOK
  BY InitType
<1>2. TypeOK /\ [Next]_vars => TypeOK'
  BY StutterType, NextSteps, TurnType, HandleType, EnvironmentType
<1>3. QED
  BY <1>1, <1>2, PTL DEF Spec

-----------------------------------------------------------------------------
(***************************************************************************)
(* Rows of a round that nothing disturbs.                                  *)
(***************************************************************************)
\* The addresses of a container are on its networks, and it runs.
World ==
  \A c \in Container, n \in Place : ip[c][n] # 0 => state[c] = "running" /\ n \in joined[c] \cup {""}

\* A loop has no record of a container before it has handled it.
Fresh == \A r \in Loop, c \in Container : at[r] = "idle" \/ c \in todo[r] => rows[r][c] = NoRow

RowGood(h, c) ==
  LET row == rows[h][c]
  IN  /\ row.warned => ~ calm[h][c]
      /\ row.there /\ calm[h][c] =>
           /\ row.running <=> state[c] = "running"
           /\ row.addr.net \in Place
           /\ Reached(row, c, used[h])

\* What an inspect saw is still so, except for networks that loops have joined
\* the container to since.
Current(s, c) ==
  /\ s.on \subseteq joined[c]
  /\ \A n \in s.on \cup {""} : ip[c][n] = s.ip[n]
  /\ \A n \in Network : ip[c][n] # 0 => n \in s.on \cup JoinedNets

\* What a loop knows of the container it handles.
SeenGood(r) ==
  at[r] \in Handling /\ calm[r][cur(r)] =>
    /\ seen[r].running <=> state[cur(r)] = "running"
    /\ Current(seen[r], cur(r))
    /\ at[r] = "connect" => used[r].net \in present
    /\ at[r] \in {"refresh", "verify"} => used[r].net \in joined[cur(r)]

CalmInv ==
  /\ World
  /\ Fresh
  /\ \A h \in Holder, c \in Container : RowGood(h, c)
  /\ \A r \in Loop : SeenGood(r)

\* In a step, a container keeps its state, its networks and addresses, and has
\* others at most on networks that loops join it to.
Grows(c) ==
  /\ state'[c] = state[c]
  /\ joined[c] \subseteq joined'[c]
  /\ \A n \in joined[c] \cup {""} : ip'[c][n] = ip[c][n]
  /\ \A n \in Network \ JoinedNets : ip'[c][n] = ip[c][n]

LEMMA RowStays ==
  ASSUME NEW h, NEW c, RowGood(h, c),
         rows'[h][c] = rows[h][c], used'[h] = used[h],
         c \in Container, World,
         calm'[h][c] => calm[h][c] /\ Grows(c)
  PROVE  RowGood(h, c)'
<1>1. SUFFICES ASSUME rows[h][c].there, calm'[h][c]
               PROVE  RowGood(h, c)'
  BY DEF RowGood
<1> DEFINE row == rows[h][c]
<1>2. /\ row.warned => ~ calm[h][c]
      /\ row.running <=> state[c] = "running"
      /\ row.addr.net \in Place
      /\ Reached(row, c, used[h])
      /\ calm[h][c] /\ Grows(c)
  BY <1>1 DEF RowGood
<1>3. row.addr.host # 0 => ip'[c][row.addr.net] = row.addr.host
  BY <1>2 DEF World, Grows, Reached
<1>4. row.running /\ used[h].by # "" =>
        used[h].net \in joined'[c] /\ ip'[c][used[h].net] = ip[c][used[h].net]
  BY <1>2 DEF Grows, Reached
<1>5. \A n \in Place \ JoinedNets : ip'[c][n] = ip[c][n]
  BY <1>2 DEF Grows, Place
<1>6. state'[c] = state[c]
  BY <1>2 DEF Grows
<1>7. JoinedNets' = JoinedNets
  BY DEF JoinedNets
<1>8. QED
  BY <1>1, <1>2, <1>3, <1>4, <1>5, <1>6, <1>7 DEF RowGood, Reached

LEMMA NoRowGood == ASSUME NEW h, NEW c, rows'[h][c] = NoRow PROVE RowGood(h, c)'
BY DEF RowGood, NoRow

LEMMA CurrentStays ==
  ASSUME NEW r, Current(seen[r], cur(r)), Grows(cur(r)), seen'[r] = seen[r], cur(r)' = cur(r)
  PROVE  Current(seen[r], cur(r))'
<1> DEFINE c == cur(r)
<1>1. /\ seen[r].on \subseteq joined[c]
      /\ \A n \in seen[r].on \cup {""} : ip[c][n] = seen[r].ip[n]
      /\ \A n \in Network : ip[c][n] # 0 => n \in seen[r].on \cup JoinedNets
  BY DEF Current
<1>2. /\ joined[c] \subseteq joined'[c]
      /\ \A n \in joined[c] \cup {""} : ip'[c][n] = ip[c][n]
      /\ \A n \in Network \ JoinedNets : ip'[c][n] = ip[c][n]
  BY DEF Grows
<1>3. JoinedNets' = JoinedNets
  BY DEF JoinedNets
<1>4. QED
  BY <1>1, <1>2, <1>3 DEF Current

LEMMA SeenStays ==
  ASSUME NEW r, SeenGood(r),
         at'[r] = at[r], todo'[r] = todo[r], seen'[r] = seen[r], used'[r] = used[r],
         calm'[r][cur(r)] => /\ calm[r][cur(r)] /\ Grows(cur(r))
                             /\ present \subseteq present'
  PROVE  SeenGood(r)'
<1>1. cur(r)' = cur(r)
  BY DEF cur
<1>2. ASSUME calm'[r][cur(r)], at[r] \in Handling PROVE Current(seen[r], cur(r))'
  BY <1>1, <1>2, CurrentStays DEF SeenGood
<1>3. QED
  BY <1>1, <1>2 DEF SeenGood, Grows

LEMMA SameGrows == ASSUME NEW c, UNCHANGED <<state, joined, ip>> PROVE Grows(c)
BY DEF Grows

LEMMA JoinGrows ==
  ASSUME DockerType, World, NEW c \in Container, NEW n \in Network \cap JoinedNets, Joins(c, n)
  PROVE  World' /\ n \in joined'[c] /\ \A d \in Container : Grows(d)
<1>1. PICK host \in 0..MaxHost :
        /\ host # 0 => state[c] = "running"
        /\ ip' = [ip EXCEPT ![c][n] = host]
  BY DEF Joins
<1>2. /\ state' = state /\ n \notin joined[c]
      /\ joined' = [joined EXCEPT ![c] = @ \cup {n}]
  BY DEF Joins
<1>3. /\ ip'[c][n] = host
      /\ \A d \in Container, m \in Place : ~ (d = c /\ m = n) => ip'[d][m] = ip[d][m]
  BY <1>1, <1>2 DEF DockerType, Place
<1>4. /\ joined'[c] = joined[c] \cup {n}
      /\ \A d \in Container : d # c => joined'[d] = joined[d]
  BY <1>2 DEF DockerType
<1>5. World'
  BY <1>1, <1>2, <1>3, <1>4 DEF World
<1>6. ASSUME NEW d \in Container PROVE Grows(d)
  <2>1. joined[d] \subseteq Place /\ "" # n
    BY DiscoveryAssumption DEF DockerType, Place
  <2>2. state'[d] = state[d] /\ joined[d] \subseteq joined'[d]
    BY <1>2, <1>4
  <2>3. ASSUME NEW m \in joined[d] \cup {""} PROVE ip'[d][m] = ip[d][m]
    BY <1>2, <1>3, <2>1 DEF Place
  <2>4. ASSUME NEW m \in Network \ JoinedNets PROVE ip'[d][m] = ip[d][m]
    BY <1>3 DEF Place
  <2>5. QED
    BY <2>2, <2>3, <2>4 DEF Grows
<1>7. QED
  BY <1>4, <1>5, <1>6

\* What becomes of the other loops and of all rows but the one at hand.
LEMMA OthersStay ==
  ASSUME TypeOK, CalmInv, NEW r \in Loop,
         \A c \in Container : Grows(c),
         UNCHANGED present,
         \A h \in Holder, c \in Container : calm'[h][c] => calm[h][c],
         \A q \in Loop \ {r} : /\ at'[q] = at[q] /\ todo'[q] = todo[q] /\ seen'[q] = seen[q]
                               /\ used'[q] = used[q]
  PROVE  /\ \A q \in Loop \ {r} : SeenGood(q)'
         /\ \A h \in Holder, c \in Container :
              rows'[h][c] = rows[h][c] /\ used'[h] = used[h] => RowGood(h, c)'
<1>1. ASSUME NEW q \in Loop \ {r} PROVE SeenGood(q)'
  <2>1. CASE at[q] \in Handling
    <3>1. cur(q) \in Container /\ q \in Holder
      BY <2>1, CurOfTodo, LoopHolds DEF TypeOK, RoundType
    <3>2. QED
      BY <3>1, SeenStays DEF CalmInv
  <2>2. CASE at[q] \notin Handling
    BY <2>2 DEF SeenGood
  <2>3. QED
    BY <2>1, <2>2
<1>2. ASSUME NEW h \in Holder, NEW c \in Container, rows'[h][c] = rows[h][c], used'[h] = used[h]
      PROVE  RowGood(h, c)'
  BY <1>2, RowStays DEF CalmInv
<1>3. QED
  BY <1>1, <1>2

LEMMA DisturbsCalms ==
  ASSUME TypeOK, NEW r \in Loop, at[r] \in Handling, UNCHANGED calm \/ Disturbs(r)
  PROVE  /\ \A h \in Holder, c \in Container : calm'[h][c] => calm[h][c]
         /\ Disturbs(r) => ~ calm'[r][cur(r)]
<1> cur(r) \in Container /\ r \in Holder
  BY CurOfTodo, LoopHolds DEF TypeOK, RoundType
<1> QED
  BY DEF Disturbs, TypeOK, HolderType

LEMMA InspectCurrent ==
  ASSUME World, NEW c \in Container, NEW s, s.on = joined[c], s.ip = ip[c]
  PROVE  Current(s, c)
BY DiscoveryAssumption DEF World, Current, Place

\* The record at hand, if nothing disturbed it.
LEMMA RecordGood ==
  ASSUME TypeOK, CalmInv, NEW r \in Loop, Records(r), NEW c \in Container, c = cur(r)
  PROVE  RowGood(r, c)' /\ (\A d \in Container \ {c} : rows'[r][d] = rows[r][d])
<1>1. at[r] \in Handling /\ r \in Holder
  BY RecordSteps, LoopHolds
<1>2. PICK s \in Snapshot, w \in BOOLEAN : Record(r, s, w)
  BY RecordSteps
<1>3. \A d \in Container \ {c} : rows'[r][d] = rows[r][d]
  BY <1>1, <1>2 DEF Record, TypeOK, HolderType
<1>4. UNCHANGED <<state, joined, ip, used>>
  BY <1>2 DEF Record
<1>5. ASSUME ~ calm'[r][c] PROVE RowGood(r, c)'
  BY <1>5 DEF RowGood
<1>6. ASSUME calm'[r][c], NEW t \in Snapshot, Record(r, t, FALSE),
             seen[r].running <=> state[c] = "running",
             Current(t, c),
             seen[r].running /\ used[r].by # "" => used[r].net \in t.on
      PROVE  RowGood(r, c)'
  <2>1. PICK addr \in containerIP(t, used[r]) :
          rows' = [rows EXCEPT ![r][c] =
                    [there |-> TRUE, running |-> seen[r].running, warned |-> FALSE,
                     who |-> Who[c][used[r]][found[r]], addr |-> addr]]
    BY <1>6 DEF Record
  <2>2. /\ rows'[r][c].there /\ ~ rows'[r][c].warned
        /\ rows'[r][c].running = seen[r].running /\ rows'[r][c].addr = addr
    BY <1>1, <2>1 DEF TypeOK, HolderType
  <2>3. t.on \subseteq Network
    BY DEF Snapshot
  <2> t \in Snapshot /\ addr \in containerIP(t, used[r])
    BY <2>1
  <2>4. addr.net \in Place /\ ip[c][addr.net] = addr.host
    BY <1>6, <2>3, AddressChosen DEF Current, Place
  <2>5. seen[r].running /\ used[r].by # "" => used[r].net \in joined[c]
    BY <1>6 DEF Current
  <2>6. seen[r].running /\ used[r].by \in {"name", "id"} /\ ip[c][used[r].net] # 0 =>
          addr = [net |-> used[r].net, host |-> ip[c][used[r].net]]
    <3>1. used[r].net \in t.on /\ t.ip[used[r].net] # 0 /\ used[r].by \in {"name", "id"} =>
            addr = Address(t, used[r].net)
      BY AddressChosen
    <3>2. seen[r].running /\ used[r].by \in {"name", "id"} =>
            used[r].net \in t.on /\ ip[c][used[r].net] = t.ip[used[r].net]
      BY <1>6 DEF Current
    <3>3. QED
      BY <3>1, <3>2 DEF Address
  <2>7. addr.host = 0 => \A n \in Place \ JoinedNets : ip[c][n] = 0
    <3>1. addr.host = 0 => \A n \in t.on \cup {""} : t.ip[n] = 0
      BY AddressChosen
    <3>2. QED
      BY <1>6, <3>1 DEF Current, Place
  <2>8. JoinedNets' = JoinedNets
    BY DEF JoinedNets
  <2>9. QED
    BY <1>4, <1>6, <2>2, <2>4, <2>5, <2>6, <2>7, <2>8 DEF RowGood, Reached
<1>7. ASSUME calm'[r][c] PROVE RowGood(r, c)'
  <2>1. calm[r][c] /\ ~ Disturbs(r)
    BY <1>1, <1>7, RecordSteps, DisturbsCalms
  <2>2. /\ seen[r].running <=> state[c] = "running"
        /\ Current(seen[r], c)
        /\ at[r] \in {"refresh", "verify"} => used[r].net \in joined[c]
    BY <1>1, <2>1 DEF CalmInv, SeenGood
  <2>3. CASE NoNetwork(r) \/ AlreadyConnected(r)
    <3>1. Record(r, seen[r], FALSE) /\ seen[r] \in Snapshot
      BY <2>3 DEF NoNetwork, AlreadyConnected, TypeOK, RoundType
    <3>2. seen[r].running /\ used[r].by # "" => used[r].net \in seen[r].on
      BY <2>2, <2>3 DEF NoNetwork, AlreadyConnected, NetworkWanted, Connected
    <3>3. QED
      BY <1>6, <1>7, <2>2, <3>1, <3>2
  <2>4. CASE Refresh(r) \/ Verify(r)
    <3>1. Record(r, Inspected(c), FALSE) /\ Inspected(c) \in Snapshot /\ at[r] \in {"refresh", "verify"}
      BY <1>1, <2>4, InspectType DEF Refresh, Verify, TypeOK
    <3>2. Inspected(c).on = joined[c] /\ Inspected(c).ip = ip[c]
      BY DEF Inspected
    <3>3. Current(Inspected(c), c)
      BY <3>2, InspectCurrent DEF CalmInv
    <3>4. QED
      BY <1>6, <1>7, <2>2, <3>1, <3>2, <3>3
  <2>5. CASE VerifyRefuted(r)
    BY <2>2, <2>5 DEF VerifyRefuted, Connected, Inspected
  <2>6. QED
    BY <2>1, <2>3, <2>4, <2>5 DEF Records, NetworkMissing, RefreshFails, VerifyFails
<1>8. QED
  BY <1>3, <1>5, <1>7

LEMMA RecordsInv == ASSUME TypeOK, CalmInv, NEW r \in Loop, Records(r) PROVE CalmInv'
<1>1. at[r] \in Handling /\ r \in Holder /\ cur(r) \in todo[r]
  BY RecordSteps, CurOfTodo, LoopHolds DEF TypeOK, RoundType
<1>2. PICK s \in Snapshot, w \in BOOLEAN : Record(r, s, w)
  BY RecordSteps
<1>3. /\ UNCHANGED <<docker, used>>
      /\ at'[r] = "next" /\ todo'[r] = todo[r] \ {cur(r)}
      /\ \A q \in Loop \ {r} : at'[q] = at[q] /\ todo'[q] = todo[q] /\ seen'[q] = seen[q]
      /\ \A h \in Holder \ {r} : rows'[h] = rows[h]
  BY <1>1, <1>2 DEF Record, TypeOK, RoundType, HolderType
<1>4. \A c \in Container : Grows(c)
  BY <1>3, SameGrows
<1>5. \A h \in Holder, c \in Container : calm'[h][c] => calm[h][c]
  BY <1>1, RecordSteps, DisturbsCalms
<1>6. /\ \A q \in Loop \ {r} : SeenGood(q)'
      /\ \A h \in Holder, c \in Container : rows'[h][c] = rows[h][c] => RowGood(h, c)'
  BY <1>3, <1>4, <1>5, OthersStay
<1>7. PICK c \in Container : c = cur(r)
  BY <1>1 DEF TypeOK, RoundType
<1>8. RowGood(r, c)' /\ (\A d \in Container \ {c} : rows'[r][d] = rows[r][d])
  BY <1>7, RecordGood
<1>9. \A h \in Holder, d \in Container : RowGood(h, d)'
  <2>1. ASSUME NEW h \in Holder, NEW d \in Container, ~ (h = r /\ d = c) PROVE RowGood(h, d)'
    BY <1>3, <1>6, <1>8, <2>1
  <2>2. QED
    BY <1>8, <2>1
<1>10. SeenGood(r)'
  BY <1>3 DEF SeenGood, Handling
<1>11. Fresh'
  BY <1>1, <1>3, <1>7, <1>8, LoopHolds DEF CalmInv, Fresh, Handling
<1>12. World'
  BY <1>3 DEF CalmInv, World
<1>13. QED
  BY <1>6, <1>9, <1>10, <1>11, <1>12 DEF CalmInv

LEMMA AdvancesInv == ASSUME TypeOK, CalmInv, NEW r \in Loop, Advances(r) PROVE CalmInv'
<1>1. at[r] \in Handling /\ r \in Holder /\ cur(r) \in todo[r]
  BY CurOfTodo, LoopHolds DEF Advances, LookUp, LookUpFails, LookUpSkipped, LookedUp, NotConnected,
       Connect, ConnectLost, ConnectRefused, ConnectFails, Handling, TypeOK, RoundType
<1>2. PICK c \in Container : c = cur(r)
  BY <1>1 DEF TypeOK, RoundType
<1>3. /\ UNCHANGED <<state, present, todo, seen, rows, used>>
      /\ \A q \in Loop \ {r} : at'[q] = at[q]
      /\ at'[r] \in Handling
  BY DEF Advances, LookUp, LookUpFails, LookUpSkipped, LookedUp, NotConnected,
       Connect, ConnectLost, ConnectRefused, ConnectFails, Joins, Handling, TypeOK, RoundType
<1>4. \A h \in Holder, d \in Container : calm'[h][d] => calm[h][d]
  BY <1>1, AdvanceSteps, DisturbsCalms
<1>5. World' /\ \A d \in Container : Grows(d)
  <2>1. CASE Connect(r) \/ ConnectLost(r)
    <3>1. Joins(c, used[r].net) /\ used[r].net \in Network \cap JoinedNets
      BY <1>1, <1>2, <2>1, NetOfConfig DEF Connect, ConnectLost, TypeOK, RoundType, HolderType
    <3>2. QED
      BY <3>1, JoinGrows DEF CalmInv, TypeOK
  <2>2. CASE ~ (Connect(r) \/ ConnectLost(r))
    <3>1. UNCHANGED <<state, joined, ip>>
      BY <2>2 DEF Advances, LookUp, LookUpFails, LookUpSkipped, LookedUp, NotConnected,
           ConnectRefused, ConnectFails
    <3>2. QED
      BY <3>1, SameGrows DEF CalmInv, World
  <2>3. QED
    BY <2>1, <2>2
<1>6. /\ \A q \in Loop \ {r} : SeenGood(q)'
      /\ \A h \in Holder, d \in Container : RowGood(h, d)'
  BY <1>3, <1>4, <1>5, OthersStay
<1>7. SeenGood(r)'
  <2>1. SUFFICES ASSUME calm'[r][c]
                 PROVE  SeenGood(r)'
    BY <1>2, <1>3 DEF SeenGood, cur
  <2>2. calm[r][c] /\ ~ Disturbs(r)
    BY <1>1, <1>2, <1>4, <2>1, AdvanceSteps, DisturbsCalms
  <2>3. /\ seen[r].running <=> state[c] = "running"
        /\ Current(seen[r], cur(r))
        /\ at[r] = "connect" => used[r].net \in present
    BY <1>1, <1>2, <2>2 DEF CalmInv, SeenGood
  <2>4. cur(r)' = cur(r) /\ Current(seen[r], cur(r))'
    <3>1. cur(r)' = cur(r)
      BY <1>3 DEF cur
    <3>2. Grows(cur(r)) /\ seen'[r] = seen[r]
      BY <1>2, <1>3, <1>5
    <3>3. QED
      BY <2>3, <3>1, <3>2, CurrentStays
  <2>5. at'[r] = "connect" => used[r].net \in present
    BY DEF Advances, LookUp, LookUpFails, LookUpSkipped, LookedUp, NotConnected,
         Connect, ConnectLost, ConnectRefused, ConnectFails, TypeOK, RoundType
  <2>6. ASSUME at'[r] \in {"refresh", "verify"} PROVE used[r].net \in joined'[c]
    <3>1. Connect(r) \/ ConnectLost(r) \/ ConnectRefused(r)
      BY <2>2, <2>6 DEF Advances, LookUp, LookUpFails, LookUpSkipped, LookedUp, NotConnected,
           ConnectFails, TypeOK, RoundType
    <3>2. at[r] = "connect" /\ used[r].net \in Network \cap JoinedNets
      BY <1>1, <3>1, NetOfConfig DEF Connect, ConnectLost, ConnectRefused, TypeOK, RoundType, HolderType
    <3>3. CASE Connect(r) \/ ConnectLost(r)
      <4>1. Joins(c, used[r].net)
        BY <1>2, <3>3 DEF Connect, ConnectLost
      <4>2. QED
        BY <3>2, <4>1, JoinGrows DEF CalmInv, TypeOK
    <3>4. CASE ConnectRefused(r)
      <4>1. seen[r].running
        BY <3>2 DEF TypeOK, RoundType
      <4>2. used[r].net \in joined[c] /\ UNCHANGED joined
        BY <1>2, <2>3, <3>2, <3>4, <4>1 DEF ConnectRefused, Joinable
      <4>3. QED
        BY <4>2
    <3>5. QED
      BY <3>1, <3>3, <3>4
  <2>7. cur(r)' = c
    BY <1>2, <1>3 DEF cur
  <2>8. QED
    BY <1>3, <2>3, <2>4, <2>5, <2>6, <2>7 DEF SeenGood
<1>8. Fresh'
  BY <1>3, <1>1 DEF CalmInv, Fresh, Handling
<1>9. QED
  BY <1>5, <1>6, <1>7, <1>8 DEF CalmInv

LEMMA TurnsInv == ASSUME TypeOK, CalmInv, NEW r \in Loop, Turns(r) PROVE CalmInv'
<1>1. r \in Holder /\ Table \in Holder /\ r # Table
  BY LoopHolds
<1>2. UNCHANGED docker
  BY DEF Turns, List, ListFails, Publish, InspectFails, Ignore, Inspect
<1>3. World' /\ \A c \in Container : Grows(c)
  BY <1>2, SameGrows DEF CalmInv, World
<1>4. \A q \in Loop \ {r} : /\ at'[q] = at[q] /\ todo'[q] = todo[q] /\ seen'[q] = seen[q]
                            /\ used'[q] = used[q] /\ rows'[q] = rows[q] /\ calm'[q] = calm[q]
  BY <1>1, LoopHolds DEF Turns, List, ListFails, Publish, InspectFails, Ignore, Inspect,
       TypeOK, RoundType, HolderType
<1>5. \A q \in Loop \ {r} : SeenGood(q)'
  <2>1. ASSUME NEW q \in Loop \ {r}, at[q] \in Handling PROVE SeenGood(q)'
    <3>1. cur(q) \in Container
      BY <2>1, CurOfTodo DEF TypeOK, RoundType
    <3>2. QED
      BY <1>2, <1>3, <1>4, <3>1, SeenStays DEF CalmInv
  <2>2. ASSUME NEW q \in Loop \ {r}, at[q] \notin Handling PROVE SeenGood(q)'
    BY <1>4, <2>2 DEF SeenGood
  <2>3. QED
    BY <2>1, <2>2
<1>6. CASE List(r)
  <2>1. /\ at'[r] = "next" /\ rows[r] = Nothing
        /\ UNCHANGED <<rows, calm>> /\ \A h \in Holder \ {r} : used'[h] = used[h]
    BY <1>1, <1>6, LoopHolds DEF List, TypeOK, RoundType, HolderType, CalmInv, Fresh, Nothing
  <2>2. \A c \in Container : rows'[r][c] = NoRow
    BY <2>1 DEF Nothing
  <2>3. \A h \in Holder, c \in Container : RowGood(h, c)'
    BY <1>3, <2>1, <2>2, NoRowGood, RowStays DEF CalmInv
  <2>4. QED
    BY <1>3, <1>4, <1>5, <2>1, <2>2, <2>3 DEF CalmInv, SeenGood, Handling, Fresh
<1>7. CASE ListFails(r)
  <2>1. at[r] = "idle" /\ UNCHANGED <<at, todo, rows, used, calm>>
    BY <1>7 DEF ListFails
  <2>2. QED
    BY <1>3, <1>5, <2>1, RowStays DEF CalmInv, SeenGood, Handling, Fresh
<1>8. CASE InspectFails(r) \/ Ignore(r)
  <2>1. /\ at[r] = "next" /\ UNCHANGED <<at, rows, used, calm>>
        /\ todo'[r] \subseteq todo[r]
    BY <1>8 DEF InspectFails, Ignore, TypeOK, RoundType
  <2>2. QED
    BY <1>3, <1>4, <1>5, <2>1, RowStays DEF CalmInv, SeenGood, Handling, Fresh
<1>9. CASE Publish(r)
  <2>1. /\ at'[r] = "idle" /\ used'[r] = used[r] /\ used'[Table] = used[r]
        /\ rows'[Table] = rows[r] /\ calm'[Table] = calm[r] /\ rows'[r] = Nothing
    BY <1>1, <1>9 DEF Publish, TypeOK, RoundType, HolderType
  <2>2. \A c \in Container : rows'[r][c] = NoRow
    BY <2>1 DEF Nothing
  <2>3. \A c \in Container : RowGood(Table, c)'
    BY <1>1, <1>2, <2>1 DEF CalmInv, RowGood, Reached, JoinedNets
  <2>4. \A q \in Loop \ {r}, c \in Container : RowGood(q, c)'
    BY <1>1, <1>3, <1>4, LoopHolds, RowStays DEF CalmInv
  <2>5. \A h \in Holder, c \in Container : RowGood(h, c)'
    BY <2>2, <2>3, <2>4, NoRowGood DEF Holder
  <2>6. QED
    BY <1>3, <1>4, <1>5, <2>1, <2>2, <2>5 DEF CalmInv, SeenGood, Handling, Fresh
<1>10. CASE Inspect(r)
  <2>1. PICK c \in Container : c = cur(r) /\ c \in todo[r]
    BY <1>10, CurOfTodo DEF Inspect, TypeOK, RoundType
  <2>2. /\ at'[r] = "home" /\ at[r] = "next" /\ UNCHANGED <<todo, rows, used>>
        /\ seen'[r] = Inspected(c)
        /\ calm' = [calm EXCEPT ![r][c] = TRUE]
    BY <1>10, <2>1 DEF Inspect, TypeOK, RoundType
  <2>3. rows[r][c] = NoRow
    BY <2>1 DEF CalmInv, Fresh
  <2>4. \A h \in Holder, d \in Container : ~ (h = r /\ d = c) => calm'[h][d] = calm[h][d]
    BY <1>1, <2>2 DEF TypeOK, HolderType
  <2>5. \A h \in Holder, d \in Container : RowGood(h, d)'
    BY <1>3, <2>2, <2>3, <2>4, NoRowGood, RowStays DEF CalmInv
  <2>6. cur(r)' = c
    BY <2>1, <2>2 DEF cur
  <2>7. SeenGood(r)'
    <3>1. seen'[r].running <=> state[c] = "running"
      BY <2>2, InspectedRunning
    <3>2. seen'[r].ip = ip[c] /\ seen'[r].on = joined[c]
      BY <2>2 DEF Inspected
    <3>3. UNCHANGED <<joined, ip>> /\ JoinedNets' = JoinedNets
      BY <1>2 DEF JoinedNets
    <3>4. Current(seen[r], cur(r))'
      BY <2>6, <3>2, <3>3, DiscoveryAssumption DEF CalmInv, World, Current, Place
    <3>5. QED
      BY <1>2, <2>2, <2>6, <3>1, <3>4 DEF SeenGood
  <2>8. Fresh'
    BY <1>4, <2>2 DEF CalmInv, Fresh
  <2>9. QED
    BY <1>3, <1>5, <2>5, <2>7, <2>8 DEF CalmInv
<1>11. QED
  BY <1>6, <1>7, <1>8, <1>9, <1>10 DEF Turns

LEMMA EnvironmentInv == ASSUME TypeOK, CalmInv, Environment PROVE CalmInv'
<1>1. ASSUME World', UNCHANGED <<round, rows>>,
             \A h \in Holder, c \in Container :
               calm'[h][c] => calm[h][c] /\ Grows(c) /\ present \subseteq present'
      PROVE  CalmInv'
  <2>1. \A h \in Holder, c \in Container : RowGood(h, c)'
    BY <1>1, RowStays DEF CalmInv
  <2>2. ASSUME NEW q \in Loop PROVE SeenGood(q)'
    <3>1. CASE at[q] \in Handling
      <4>1. cur(q) \in Container /\ q \in Holder
        BY <3>1, CurOfTodo, LoopHolds DEF TypeOK, RoundType
      <4>2. QED
        BY <1>1, <4>1, SeenStays DEF CalmInv
    <3>2. CASE at[q] \notin Handling
      BY <1>1, <3>2 DEF SeenGood
    <3>3. QED
      BY <3>1, <3>2
  <2>3. Fresh'
    BY <1>1 DEF CalmInv, Fresh
  <2>4. QED
    BY <1>1, <2>1, <2>2, <2>3 DEF CalmInv
<1>2. ASSUME NEW c \in Container, Happens(c), World', UNCHANGED present,
             \A d \in Container : d # c =>
               state'[d] = state[d] /\ joined'[d] = joined[d] /\ ip'[d] = ip[d]
      PROVE  CalmInv'
  <2>1. \A h \in Holder, d \in Container : calm'[h][d] => d # c /\ calm[h][d]
    BY <1>2 DEF Happens, TypeOK, HolderType
  <2>2. \A d \in Container : d # c => Grows(d)
    BY <1>2 DEF Grows
  <2>3. QED
    BY <1>1, <1>2, <2>1, <2>2 DEF Happens
<1>3. ASSUME NEW c \in Container, Start(c) PROVE CalmInv'
  <2>1. PICK hosts \in [Place -> 0..MaxHost] :
          /\ \A n \in Network : hosts[n] # 0 => n \in joined[c]
          /\ ip' = [ip EXCEPT ![c] = hosts]
    BY <1>3 DEF Start
  <2>2. /\ state' = [state EXCEPT ![c] = "running"]
        /\ UNCHANGED <<joined, present>> /\ Happens(c)
    BY <1>3 DEF Start
  <2>3. World'
    BY <2>1, <2>2 DEF CalmInv, World, TypeOK, DockerType, Place
  <2>4. QED
    BY <1>2, <2>1, <2>2, <2>3 DEF TypeOK, DockerType
<1>4. ASSUME NEW c \in Container, Stop(c) \/ Remove(c) PROVE CalmInv'
  <2>1. /\ state'[c] # "running" /\ \A n \in Place : ip'[c][n] = 0
        /\ Happens(c) /\ UNCHANGED present
        /\ \A d \in Container : d # c =>
             state'[d] = state[d] /\ joined'[d] = joined[d] /\ ip'[d] = ip[d]
    <3>1. CASE Stop(c)
      BY <3>1 DEF Stop, Blank, TypeOK, DockerType
    <3>2. CASE Remove(c)
      <4>1. state[c] # "running" /\ \A n \in Place : ip[c][n] = 0
        BY <3>2 DEF Remove, CalmInv, World
      <4>2. QED
        BY <3>2, <4>1 DEF Remove, TypeOK, DockerType
    <3>3. QED
      BY <1>4, <3>1, <3>2
  <2>2. World'
    BY <2>1 DEF CalmInv, World
  <2>3. QED
    BY <1>2, <2>1, <2>2
<1>5. ASSUME NEW c \in Container, NEW n \in Network, Leave(c, n) PROVE CalmInv'
  <2>1. /\ joined'[c] = joined[c] \ {n} /\ ip'[c][n] = 0
        /\ \A m \in Place : m # n => ip'[c][m] \in {ip[c][m], 0}
        /\ Happens(c) /\ UNCHANGED <<state, present>>
        /\ \A d \in Container : d # c => joined'[d] = joined[d] /\ ip'[d] = ip[d]
    <3>1. PICK top \in {ip[c][""], 0} : ip' = [ip EXCEPT ![c] = [@ EXCEPT ![n] = 0, ![""] = top]]
      BY <1>5 DEF Leave
    <3>2. n \in Place /\ "" \in Place /\ n # "" /\ DOMAIN ip[c] = Place /\ c \in DOMAIN ip
      BY DiscoveryAssumption DEF TypeOK, DockerType, Place
    <3>3. ip'[c] = [ip[c] EXCEPT ![n] = 0, ![""] = top]
      BY <3>1, <3>2
    <3>4. ip'[c][n] = 0 /\ \A m \in Place : m # n => ip'[c][m] \in {ip[c][m], 0}
      BY <3>1, <3>2, <3>3
    <3>5. \A d \in Container : d # c => ip'[d] = ip[d]
      BY <3>1 DEF TypeOK, DockerType
    <3>6. QED
      BY <1>5, <3>4, <3>5 DEF Leave, TypeOK, DockerType
  <2>2. World'
    <3>1. SUFFICES ASSUME NEW d \in Container, NEW m \in Place, ip'[d][m] # 0
                   PROVE  state'[d] = "running" /\ m \in joined'[d] \cup {""}
      BY DEF World
    <3>2. ip[d][m] # 0 /\ (d = c => m # n)
      BY <2>1, <3>1
    <3>3. state[d] = "running" /\ m \in joined[d] \cup {""}
      BY <3>2 DEF CalmInv, World
    <3>4. QED
      BY <2>1, <3>2, <3>3
  <2>3. QED
    BY <1>2, <2>1, <2>2
<1>6. ASSUME NEW n \in Network, NetworkGoes(n) PROVE CalmInv'
  <2>1. /\ UNCHANGED <<state, joined, ip, round, rows>>
        /\ \A h \in Holder, c \in Container : ~ calm'[h][c]
    BY <1>6 DEF NetworkGoes
  <2>2. QED
    BY <1>1, <2>1 DEF CalmInv, World
<1>7. ASSUME NEW n \in Network, NetworkComes(n) PROVE CalmInv'
  <2>1. UNCHANGED <<state, joined, ip, round, rows, calm>> /\ present \subseteq present'
    BY <1>7 DEF NetworkComes
  <2>2. QED
    BY <1>1, <2>1, SameGrows DEF CalmInv, World
<1>8. ASSUME NEW f \in File, Reload(f) PROVE CalmInv'
  <2>1. UNCHANGED <<docker, round, rows, calm>>
    BY <1>8 DEF Reload
  <2>2. QED
    BY <1>1, <2>1, SameGrows DEF CalmInv, World
<1>9. QED
  BY <1>3, <1>4, <1>5, <1>6, <1>7, <1>8 DEF Environment

LEMMA StutterInv == ASSUME TypeOK, CalmInv, UNCHANGED vars PROVE CalmInv'
<1>1. UNCHANGED <<docker, round, rows, calm>>
  BY DEF vars
<1>2. World' /\ Fresh' /\ \A c \in Container : Grows(c)
  BY <1>1, SameGrows DEF CalmInv, World, Fresh
<1>3. \A h \in Holder, c \in Container : RowGood(h, c)'
  BY <1>1, <1>2, RowStays DEF CalmInv
<1>4. ASSUME NEW q \in Loop PROVE SeenGood(q)'
  <2>1. JoinedNets' = JoinedNets
    BY DEF JoinedNets
  <2>2. Current(seen[q], cur(q)) => Current(seen[q], cur(q))'
    BY <1>1, <2>1 DEF Current, cur
  <2>3. QED
    BY <1>1, <2>2 DEF CalmInv, SeenGood, cur
<1>5. QED
  BY <1>2, <1>3, <1>4 DEF CalmInv

\* The invariant that the next two theorems rest on.
LEMMA CalmInvariant == Spec => []CalmInv
<1>1. Init => CalmInv
  <2>1. SUFFICES ASSUME Init PROVE CalmInv
    OBVIOUS
  <2>2. World
    <3>1. SUFFICES ASSUME NEW c \in Container, NEW n \in Place
                   PROVE  ip[c][n] # 0 => state[c] = "running" /\ n \in joined[c] \cup {""}
      BY DEF World
    <3>2. /\ joined[c] = {"bridge"}
          /\ state[c] = IF FirstHost[c] = 0 THEN "stopped" ELSE "running"
          /\ ip[c][n] = IF n \in {"bridge", ""} THEN FirstHost[c] ELSE 0
      BY <2>1 DEF Init
    <3>3. QED
      BY <3>2
  <2>3. \A h \in Holder, c \in Container : rows[h][c] = NoRow /\ ~ calm[h][c]
    <3>1. rows = [h \in Holder |-> Nothing] /\ calm = [h \in Holder |-> [c \in Container |-> FALSE]]
      BY <2>1 DEF Init
    <3>2. QED
      BY <3>1 DEF Nothing
  <2>4. \A q \in Loop : at[q] = "idle" /\ todo[q] = {}
    BY <2>1 DEF Init
  <2>5. \A h \in Holder, c \in Container : RowGood(h, c)
    BY <2>3, NoRowGood DEF RowGood, NoRow
  <2>6. \A q \in Loop : SeenGood(q)
    BY <2>4 DEF SeenGood, Handling
  <2>7. Fresh
    BY <2>3, <2>4, LoopHolds DEF Fresh
  <2>8. QED
    BY <2>2, <2>5, <2>6, <2>7 DEF CalmInv
<1>2. TypeOK /\ CalmInv /\ [Next]_vars => CalmInv'
  BY StutterInv, NextSteps, HandleSteps, TurnsInv, RecordsInv, AdvancesInv, EnvironmentInv
<1>3. QED
  BY <1>1, <1>2, TypeCorrect, PTL DEF Spec

\* Whoever joins a container, and however often: a warning has a cause.
THEOREM AlarmsTrue == Spec => []NoFalseAlarm
<1>1. CalmInv => NoFalseAlarm
  BY DEF CalmInv, RowGood, NoFalseAlarm
<1>2. Spec => []CalmInv
  BY CalmInvariant
<1>3. QED
  BY <1>1, <1>2, PTL

\* A row that nothing disturbed leads to its container, on the configured
\* network where it has an address there.
THEOREM RowsReach == Spec => []CalmRowsReach
<1>1. CalmInv => CalmRowsReach
  BY DEF CalmInv, RowGood, CalmRowsReach
<1>2. Spec => []CalmInv
  BY CalmInvariant
<1>3. QED
  BY <1>1, <1>2, PTL

-----------------------------------------------------------------------------
(***************************************************************************)
(* The user of a container.                                                *)
(***************************************************************************)
\* A row names who the container's user is in the configuration the holder
\* used, with a home that was looked up or not.
Named(h, c) == \E looked \in BOOLEAN : rows[h][c].who = Who[c][used[h]][looked]

NamedInv == \A h \in Holder, c \in Container : rows[h][c].there => Named(h, c)

\* Looking up the home does not change the user.
LEMMA OneUser ==
  ASSUME NEW c \in Container, NEW cf \in Config, NEW a \in BOOLEAN, NEW b \in BOOLEAN
  PROVE  /\ Who[c][cf][a].user = Who[c][cf][b].user
         /\ Who[c][cf][a].source = Who[c][cf][b].source
<1>1. \A looked \in BOOLEAN : Who[c][cf][looked] = ResolveUser(c, cf, looked)
  BY DEF Who
<1>2. \A looked \in BOOLEAN :
        /\ ResolveUser(c, cf, looked).user = Offer(c, cf).user
        /\ ResolveUser(c, cf, looked).source = Offer(c, cf).source
  BY DEF ResolveUser
<1>3. QED
  BY <1>1, <1>2

LEMMA NamedStays ==
  ASSUME NEW h, NEW c, NEW g, rows'[h][c] = rows[g][c], used'[h] = used[g],
         rows[g][c].there => Named(g, c)
  PROVE  rows'[h][c].there => Named(h, c)'
BY DEF Named

LEMMA HandleNamed == ASSUME TypeOK, NamedInv, NEW r \in Loop, Handle(r) PROVE NamedInv'
<1>1. CASE Advances(r)
  <2>1. UNCHANGED <<rows, used>>
    BY <1>1, AdvanceSteps
  <2>2. QED
    BY <2>1, NamedStays DEF NamedInv
<1>2. CASE Records(r)
  <2>1. PICK s \in Snapshot, w \in BOOLEAN : Record(r, s, w)
    BY <1>2, RecordSteps
  <2>2. PICK c \in Container : c = cur(r)
    BY <1>2, RecordSteps, CurOfTodo DEF TypeOK, RoundType
  <2>3. /\ UNCHANGED used
        /\ \A h \in Holder, d \in Container :
             ~ (h = r /\ d = c) => rows'[h][d] = rows[h][d]
        /\ rows'[r][c].who = Who[c][used[r]][found[r]]
    BY <2>1, <2>2, LoopHolds DEF Record, TypeOK, HolderType
  <2>4. found[r] \in BOOLEAN
    BY DEF TypeOK, RoundType
  <2>5. Named(r, c)'
    BY <2>3, <2>4 DEF Named
  <2>6. QED
    BY <2>3, <2>5, NamedStays DEF NamedInv
<1>3. QED
  BY <1>1, <1>2, HandleSteps

LEMMA TurnsNamed == ASSUME TypeOK, CalmInv, NamedInv, NEW r \in Loop, Turns(r) PROVE NamedInv'
<1>1. r \in Holder /\ Table \in Holder /\ r # Table
  BY LoopHolds
<1>2. CASE List(r)
  <2>1. \A c \in Container : rows'[r][c] = NoRow
    BY <1>2 DEF List, CalmInv, Fresh
  <2>2. \A h \in Holder : h # r => used'[h] = used[h] /\ rows'[h] = rows[h]
    BY <1>2 DEF List, TypeOK, HolderType
  <2>3. QED
    BY <2>1, <2>2, NamedStays DEF NamedInv, NoRow
<1>3. CASE Publish(r)
  <2>1. /\ rows'[Table] = rows[r] /\ used'[Table] = used[r]
        /\ rows'[r] = Nothing
        /\ \A h \in Loop : h # r => rows'[h] = rows[h] /\ used'[h] = used[h]
    BY <1>1, <1>3, LoopHolds DEF Publish, TypeOK, HolderType
  <2>2. \A c \in Container : ~ rows'[r][c].there
    BY <2>1 DEF Nothing, NoRow
  <2>3. QED
    BY <1>1, <2>1, <2>2, NamedStays DEF NamedInv, Holder
<1>4. CASE ListFails(r) \/ InspectFails(r) \/ Ignore(r) \/ Inspect(r)
  <2>1. UNCHANGED <<rows, used>>
    BY <1>4 DEF ListFails, InspectFails, Ignore, Inspect
  <2>2. QED
    BY <2>1, NamedStays DEF NamedInv
<1>5. QED
  BY <1>2, <1>3, <1>4 DEF Turns

LEMMA OthersNamed ==
  ASSUME NamedInv, Environment \/ UNCHANGED vars
  PROVE  NamedInv'
<1>1. UNCHANGED <<rows, used>>
  BY DEF Environment, Start, Stop, Remove, Leave, Happens, NetworkGoes, NetworkComes, Reload, vars
<1>2. QED
  BY <1>1, NamedStays DEF NamedInv

\* The rows keep naming the users of their configurations.
LEMMA NamedInvariant == Spec => []NamedInv
<1>1. Init => NamedInv
  <2>1. SUFFICES ASSUME Init PROVE NamedInv
    OBVIOUS
  <2>2. rows = [h \in Holder |-> Nothing]
    BY <2>1 DEF Init
  <2>3. QED
    BY <2>2 DEF NamedInv, Nothing, NoRow
<1>2. TypeOK /\ CalmInv /\ NamedInv /\ [Next]_vars => NamedInv'
  BY NextSteps, HandleNamed, TurnsNamed, OthersNamed
<1>3. Spec => []TypeOK /\ []CalmInv
  BY TypeCorrect, CalmInvariant, PTL
<1>4. QED
  BY <1>1, <1>2, <1>3, PTL DEF Spec

\* Whatever fails, and whoever lists, a container has one user for a
\* configuration.
THEOREM OneUserEach == Spec => []UsersAgree
<1>1. TypeOK /\ NamedInv => UsersAgree
  <2>1. SUFFICES ASSUME TypeOK, NamedInv, NEW g \in Holder, NEW h \in Holder, NEW c \in Container,
                        rows[g][c].there, rows[h][c].there, used[g] = used[h]
                 PROVE  /\ rows[g][c].who.user = rows[h][c].who.user
                        /\ rows[g][c].who.source = rows[h][c].who.source
    BY DEF UsersAgree
  <2>2. PICK a \in BOOLEAN : rows[g][c].who = Who[c][used[g]][a]
    BY <2>1 DEF NamedInv, Named
  <2>3. PICK b \in BOOLEAN : rows[h][c].who = Who[c][used[g]][b]
    BY <2>1 DEF NamedInv, Named
  <2>4. used[g] \in Config
    BY <2>1 DEF TypeOK, HolderType
  <2>5. QED
    BY <2>2, <2>3, <2>4, OneUser
<1>2. QED
  BY <1>1, TypeCorrect, NamedInvariant, PTL

-----------------------------------------------------------------------------
(***************************************************************************)
(* Every container has a user and a home.                                  *)
(***************************************************************************)
\* First is the least of a set of numbers.
LEMMA FirstIsLeast ==
  ASSUME NEW n \in Nat, NEW set \in SUBSET (1..n), set # {}
  PROVE  First(set) \in set /\ \A j \in 1..First(set) - 1 : j \in (1..n) \ set
<1>1. set \in SUBSET Nat
  OBVIOUS
<1>2. \E i \in set : \A j \in set : i <= j
  BY <1>1, LeastNumber
<1>3. First(set) \in set /\ \A j \in set : First(set) <= j
  BY <1>2, Zenon DEF First
<1>4. First(set) \in 1..n
  BY <1>3
<1>5. ASSUME NEW j \in 1..First(set) - 1 PROVE j \in (1..n) \ set
  <2>1. j \in 1..n /\ ~ (First(set) <= j)
    BY <1>4
  <2>2. QED
    BY <1>3, <2>1, Zenon
<1>6. QED
  BY <1>3, <1>5

\* firstNonEmpty gives the first of its texts that is not empty.
LEMMA FirstText ==
  ASSUME NEW n \in Nat, NEW texts, DOMAIN texts = 1..n
  PROVE  \/ firstNonEmpty(texts) = "" /\ \A i \in 1..n : texts[i] = ""
         \/ \E i \in 1..n : /\ firstNonEmpty(texts) = texts[i]
                            /\ texts[i] # ""
                            /\ \A j \in 1..i - 1 : texts[j] = ""
<1> DEFINE some == {i \in 1..n : texts[i] # ""}
<1>1. CASE some = {}
  <2>1. firstNonEmpty(texts) = ""
    BY <1>1, Zenon DEF firstNonEmpty
  <2>2. \A i \in 1..n : texts[i] = ""
    BY <1>1, Zenon
  <2>3. QED
    BY <2>1, <2>2
<1>2. CASE some # {}
  <2>1. firstNonEmpty(texts) = texts[First(some)]
    BY <1>2, Zenon DEF firstNonEmpty
  <2>2. some \in SUBSET (1..n)
    BY Zenon
  <2>3. \A i \in 1..n : i \in some <=> texts[i] # ""
    BY Zenon
  <2> HIDE DEF some
  <2>4. First(some) \in some /\ \A j \in 1..First(some) - 1 : j \in (1..n) \ some
    BY <1>2, <2>2, FirstIsLeast
  <2>5. First(some) \in 1..n /\ texts[First(some)] # ""
    BY <2>2, <2>3, <2>4, Zenon
  <2>6. \A j \in 1..First(some) - 1 : texts[j] = ""
    BY <2>3, <2>4, Zenon
  <2>7. QED
    BY <2>1, <2>5, <2>6, Zenon
<1>3. QED
  BY <1>1, <1>2

LEMMA FirstOfTwo ==
  ASSUME NEW a, NEW b
  PROVE  firstNonEmpty(<<a, b>>) = IF a # "" THEN a ELSE b
<1> DEFINE texts == <<a, b>>
           text  == firstNonEmpty(texts)
<1>1. DOMAIN texts = 1..2 /\ texts[1] = a /\ texts[2] = b
  OBVIOUS
<1> HIDE DEF texts
<1>2. \/ text = "" /\ \A i \in 1..2 : texts[i] = ""
      \/ \E i \in 1..2 : text = texts[i] /\ texts[i] # "" /\ \A j \in 1..i - 1 : texts[j] = ""
  BY <1>1, FirstText
<1> HIDE DEF text
<1>3. /\ 1..2 = {1, 2}
      /\ 1 \in 1..2 - 1
  OBVIOUS
<1>4. \/ text = "" /\ a = "" /\ b = ""
      \/ text = a /\ a # ""
      \/ text = b /\ b # "" /\ a = ""
  BY <1>1, <1>2, <1>3, Zenon
<1>5. text = IF a # "" THEN a ELSE b
  BY <1>4, Zenon
<1>6. QED
  BY <1>5, Zenon DEF text, texts

LEMMA FirstOfThree ==
  ASSUME NEW a, NEW b, NEW c
  PROVE  firstNonEmpty(<<a, b, c>>) = IF a # "" THEN a ELSE IF b # "" THEN b ELSE c
<1> DEFINE texts == <<a, b, c>>
           text  == firstNonEmpty(texts)
<1>1. DOMAIN texts = 1..3 /\ texts[1] = a /\ texts[2] = b /\ texts[3] = c
  OBVIOUS
<1> HIDE DEF texts
<1>2. \/ text = "" /\ \A i \in 1..3 : texts[i] = ""
      \/ \E i \in 1..3 : text = texts[i] /\ texts[i] # "" /\ \A j \in 1..i - 1 : texts[j] = ""
  BY <1>1, FirstText
<1> HIDE DEF text
<1>3. /\ 1..3 = {1, 2, 3}
      /\ 1 \in 1..2 - 1
      /\ 1 \in 1..3 - 1
      /\ 2 \in 1..3 - 1
  OBVIOUS
<1>4. \/ text = "" /\ a = "" /\ b = "" /\ c = ""
      \/ text = a /\ a # ""
      \/ text = b /\ b # "" /\ a = ""
      \/ text = c /\ c # "" /\ a = "" /\ b = ""
  BY <1>1, <1>2, <1>3, Zenon
<1>5. text = IF a # "" THEN a ELSE IF b # "" THEN b ELSE c
  BY <1>4, Zenon
<1>6. QED
  BY <1>5, Zenon DEF text, texts

\* ApplyDefaults leaves neither the default user nor the default home empty.
LEMMA DefaultsGiven == \A cf \in Config : cf.user # "" /\ cf.home # ""
<1> SUFFICES ASSUME NEW f \in File
             PROVE  ApplyDefaults(f).user # "" /\ ApplyDefaults(f).home # ""
  BY DEF Config
<1>1. ApplyDefaults(f).user = firstNonEmpty(<<f.user, "vscode">>)
  BY DEF ApplyDefaults
<1>2. ApplyDefaults(f).home = firstNonEmpty(<<f.home, "/home/vscode">>)
  BY DEF ApplyDefaults
<1>3. "vscode" # "" /\ "/home/vscode" # ""
  OBVIOUS
<1>4. firstNonEmpty(<<f.user, "vscode">>) = IF f.user # "" THEN f.user ELSE "vscode"
  BY FirstOfTwo, Zenon
<1>5. firstNonEmpty(<<f.home, "/home/vscode">>) = IF f.home # "" THEN f.home ELSE "/home/vscode"
  BY FirstOfTwo, Zenon
<1>6. QED
  BY <1>1, <1>2, <1>3, <1>4, <1>5, Zenon

\* The offer taken is the first that has a user; there is one, since the
\* last has.
LEMMA OfferTaken ==
  ASSUME NEW c \in Container, NEW cf \in Config
  PROVE  \E i \in 1..5 : /\ Offer(c, cf) = Offers(c, cf)[i]
                         /\ Offers(c, cf)[i].user # ""
                         /\ \A j \in 1..i - 1 : Offers(c, cf)[j].user = ""
<1> DEFINE full == {i \in 1..5 : Offers(c, cf)[i].user # ""}
<1>1. Offers(c, cf)[5].user = firstNonEmpty(<<cf.user, "vscode">>)
  BY DEF Offers
<1>2. firstNonEmpty(<<cf.user, "vscode">>) = IF cf.user # "" THEN cf.user ELSE "vscode"
  BY FirstOfTwo, Zenon
<1>3. 5 \in 1..5 /\ 5 \in Nat
  OBVIOUS
<1>4. 5 \in full
  BY <1>1, <1>2, <1>3, DefaultsGiven, Zenon
<1>5. full \in SUBSET (1..5)
  BY Zenon
<1>6. \A i \in 1..5 : i \in full <=> Offers(c, cf)[i].user # ""
  BY Zenon
<1>7. Offer(c, cf) = Offers(c, cf)[First(full)]
  BY Zenon DEF Offer
<1> HIDE DEF full
<1>8. First(full) \in full /\ \A j \in 1..First(full) - 1 : j \in (1..5) \ full
  BY <1>3, <1>4, <1>5, FirstIsLeast
<1>9. \A j \in 1..First(full) - 1 : Offers(c, cf)[j].user = ""
  BY <1>6, <1>8, Zenon
<1>10. First(full) \in 1..5 /\ Offers(c, cf)[First(full)].user # ""
  BY <1>5, <1>6, <1>8, Zenon
<1>11. QED
  BY <1>7, <1>9, <1>10, Zenon

\* The user and the home of a container, as ResolveUser promises them: a rule
\* that gives either decides both the source and what it gives, a metadata
\* user goes before the image's, and nothing is left empty.
Resolved(who, c, cf) ==
  LET rule == MatchRule(c, cf)
  IN  /\ who.user # "" /\ who.home # ""
      /\ rule.user # "" => who.user = rule.user
      /\ rule.home # "" => who.home = rule.home
      /\ who.source = "rule" <=> rule.user # "" \/ rule.home # ""
      /\ \E i \in 1..5 : /\ who.source = Offers(c, cf)[i].source
                         /\ who.user = Offers(c, cf)[i].user
                         /\ \A j \in 1..i - 1 : Offers(c, cf)[j].user = ""

LEMMA ResolvedFirst ==
  ASSUME NEW c \in Container, NEW cf \in Config, NEW looked \in BOOLEAN
  PROVE  Resolved(ResolveUser(c, cf, looked), c, cf)
<1> DEFINE rule   == MatchRule(c, cf)
           offers == Offers(c, cf)
           who    == ResolveUser(c, cf, looked)
           home   == IF looked THEN HomeOf[c][Offer(c, cf).user] ELSE ""
<1>1. cf.user # "" /\ cf.home # ""
  BY DefaultsGiven
<1>2. PICK i \in 1..5 : /\ Offer(c, cf) = offers[i]
                        /\ offers[i].user # ""
                        /\ \A j \in 1..i - 1 : offers[j].user = ""
  BY OfferTaken
<1>3. who.user = offers[i].user /\ who.source = offers[i].source
  BY <1>2 DEF ResolveUser
<1>4. who.home = firstNonEmpty(<<rule.home, home, cf.home>>)
  BY DEF ResolveUser
<1>5. /\ offers[1].source = "rule"
      /\ \A j \in 2..5 : offers[j].source # "rule"
  <2>1. /\ offers[1].source = "rule"
        /\ offers[2].source = "metadata.remoteUser"
        /\ offers[3].source = "metadata.containerUser"
        /\ offers[4].source = "container.Config.User"
        /\ offers[5].source = "default"
    BY Zenon DEF Offers
  <2>2. 2..5 = {2, 3, 4, 5}
    OBVIOUS
  <2>3. QED
    BY <2>1, <2>2, Zenon
<1>6. offers[1].user = IF rule.home = "" THEN rule.user
                       ELSE firstNonEmpty(<<rule.user, cf.user, "vscode">>)
  BY DEF Offers
<1>7. i = 1 <=> offers[1].user # ""
  <2>1. i # 1 => 1 \in 1..i - 1
    OBVIOUS
  <2>2. QED
    BY <1>2, <2>1, Zenon
<1>8. i # 1 => i \in 2..5
  OBVIOUS
<1> HIDE DEF rule, offers, who, home
<1>9. firstNonEmpty(<<rule.user, cf.user, "vscode">>) = IF rule.user # "" THEN rule.user ELSE cf.user
  <2>1. firstNonEmpty(<<rule.user, cf.user, "vscode">>)
          = IF rule.user # "" THEN rule.user ELSE IF cf.user # "" THEN cf.user ELSE "vscode"
    BY FirstOfThree, Zenon
  <2>2. QED
    BY <1>1, <2>1, Zenon
<1>10. who.home = IF rule.home # "" THEN rule.home ELSE IF home # "" THEN home ELSE cf.home
  <2>1. firstNonEmpty(<<rule.home, home, cf.home>>)
          = IF rule.home # "" THEN rule.home ELSE IF home # "" THEN home ELSE cf.home
    BY FirstOfThree, Zenon
  <2>2. QED
    BY <1>4, <2>1, Zenon
<1>11. offers[1].user # "" <=> rule.user # "" \/ rule.home # ""
  BY <1>1, <1>6, <1>9, Zenon
<1>12. who.user # "" /\ who.home # ""
  BY <1>1, <1>2, <1>3, <1>10, Zenon
<1>13. rule.home # "" => who.home = rule.home
  BY <1>10, Zenon
<1>14. rule.user # "" => who.user = rule.user
  BY <1>3, <1>6, <1>7, <1>9, <1>11, Zenon
<1>15. who.source = "rule" <=> rule.user # "" \/ rule.home # ""
  BY <1>3, <1>5, <1>7, <1>8, <1>11, Zenon
<1>16. QED
  BY <1>2, <1>3, <1>12, <1>13, <1>14, <1>15, Zenon DEF Resolved, rule, offers, who

\* Every row that the service shows or a loop has made names a user and a home
\* in the order of ResolveUser, although lookups fail and files come and go:
\* sync and spawn-stage never get an empty one.
THEOREM UsersResolved ==
  Spec => [](\A h \in Holder, c \in Container :
               rows[h][c].there => Resolved(rows[h][c].who, c, used[h]))
<1>1. TypeOK /\ NamedInv =>
        \A h \in Holder, c \in Container :
          rows[h][c].there => Resolved(rows[h][c].who, c, used[h])
  <2>1. SUFFICES ASSUME TypeOK, NamedInv, NEW h \in Holder, NEW c \in Container, rows[h][c].there
                 PROVE  Resolved(rows[h][c].who, c, used[h])
    OBVIOUS
  <2>2. used[h] \in Config
    BY <2>1 DEF TypeOK, HolderType
  <2>3. PICK looked \in BOOLEAN : rows[h][c].who = Who[c][used[h]][looked]
    BY <2>1 DEF NamedInv, Named
  <2>4. rows[h][c].who = ResolveUser(c, used[h], looked)
    BY <2>2, <2>3 DEF Who
  <2>5. QED
    BY <2>2, <2>4, ResolvedFirst
<1>2. QED
  BY <1>1, TypeCorrect, NamedInvariant, PTL
=============================================================================
