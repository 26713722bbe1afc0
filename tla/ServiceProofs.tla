--------------------------- MODULE ServiceProofs ---------------------------
(***************************************************************************)
(* Theorems about Service, for every value of its constants.               *)
(***************************************************************************)
EXTENDS Service, TLAPS

\* The published map and the history variable that goes with it; where the
\* containers are.
USE DEF table, places

-----------------------------------------------------------------------------
(***************************************************************************)
(* Rows and tables.                                                        *)
(***************************************************************************)
LEMMA BlankRowType ==
  ASSUME NEW b \in BOOLEAN, NEW a \in Ip \cup {NoIp}
  PROVE  BlankRow(b, a) \in Row
BY DEF BlankRow, Row, Status

LEMMA WithTokenType ==
  ASSUME NEW row \in Row, NEW t \in Token \cup {NoToken}
  PROVE  WithToken(row, t) \in Row
BY DEF WithToken, Row

LEMMA WithStatusType ==
  ASSUME NEW row \in Row, NEW s \in Status, NEW b \in BOOLEAN
  PROVE  WithStatus(row, s, b) \in Row
BY DEF WithStatus, Row

LEMMA ReadyRowType ==
  ASSUME NEW row \in Row, NEW e \in Env, NEW f \in Config, NEW s \in Status,
         NEW t \in Token \cup {NoToken}
  PROVE  ReadyRow(row, e, f, s, t) \in Row
<1>1. publicBaseURL(f.listen) \in Base
  BY DEF Base, Config
<1>2. QED
  BY <1>1 DEF ReadyRow, Row

LEMMA EnvFromType ==
  ASSUME NEW d \in Container, NEW c \in Container
  PROVE  EnvFrom(d, c) \in Env
BY ServiceAssumption DEF EnvFrom

LEMMA EmptyTableType == IsTable(EmptyTable)
BY DEF IsTable, EmptyTable

LEMMA PutType ==
  ASSUME NEW m, IsTable(m), NEW c \in Container, NEW row \in Row
  PROVE  IsTable(Put(m, c, row))
BY DEF IsTable, Put

LEMMA RowOfTable ==
  ASSUME NEW m, IsTable(m), NEW c \in DOMAIN m
  PROVE  /\ c \in Container
         /\ m[c] \in Row
         /\ m[c].token \in Token \cup {NoToken}
         /\ m[c].running \in BOOLEAN
         /\ m[c].ip \in Ip \cup {NoIp}
BY DEF IsTable, Row

-----------------------------------------------------------------------------
(***************************************************************************)
(* Type correctness.                                                       *)
(***************************************************************************)
LEMMA InitType == Init => TypeOK
<1> SUFFICES ASSUME Init PROVE TypeOK
  OBVIOUS
<1>1. file \in Config /\ file \in Configs \cup {Broken}
  BY ServiceAssumption DEF Init
<1>2. cfg \in Config
  <2>1. Override # {} => (CHOOSE a \in Override : TRUE) \in Addr
    BY ServiceAssumption
  <2>2. QED
    BY <1>1, <2>1 DEF Init, WithListen, Config
<1>3. using \in [Loop -> Config]
  BY <1>2 DEF Init
<1>4. IsTable(containers) /\ DOMAIN rows = Loop /\ \A r \in Loop : IsTable(rows[r])
  BY EmptyTableType DEF Init
<1>5. /\ docker \in [Container -> Life]
      /\ ip \in [Container -> Ip \cup {NoIp}]
      /\ lost \in SUBSET (Container \X Ip)
      /\ gen \in [Container -> Nat]
      /\ budget \in Nat
      /\ serving \in BOOLEAN
      /\ bound \in SUBSET Addr
      /\ stream \in BOOLEAN
      /\ events \in Nat
      /\ dirty \in BOOLEAN
      /\ timer \in BOOLEAN
      /\ overtaken \in SUBSET Loop
  BY ServiceAssumption DEF Init
<1>6. /\ phase \in [Loop -> Phases]
      /\ todo \in [Loop -> SUBSET Container]
      /\ \A r \in Loop : phase[r] = "t3" => todo[r] \subseteq DOMAIN rows[r]
  BY DEF Init, Phases
<1>7. /\ pc \in [Proc -> PCs]
      /\ req \in [Proc -> Request \cup {NoRequest}]
      /\ \A q \in Proc : /\ pc[q] # "idle" => req[q] \in Request
                         /\ pc[q] \notin {"idle", "lookup"} => req[q].cid \in Container
  BY DEF Init, PCs
<1>8. QED
  BY <1>1, <1>2, <1>3, <1>4, <1>5, <1>6, <1>7 DEF TypeOK

\* TypeOK in three parts: the shared state, the loops, the requests.
SharedOK ==
  /\ docker \in [Container -> Life]
  /\ ip \in [Container -> Ip \cup {NoIp}]
  /\ lost \in SUBSET (Container \X Ip)
  /\ gen \in [Container -> Nat]
  /\ file \in Configs \cup {Broken}
  /\ budget \in Nat
  /\ cfg \in Config
  /\ serving \in BOOLEAN
  /\ bound \in SUBSET Addr
  /\ IsTable(containers)
  /\ stream \in BOOLEAN
  /\ events \in Nat
  /\ dirty \in BOOLEAN
  /\ timer \in BOOLEAN
  /\ overtaken \in SUBSET Loop

LoopsOK ==
  /\ phase \in [Loop -> Phases]
  /\ using \in [Loop -> Config]
  /\ todo \in [Loop -> SUBSET Container]
  /\ DOMAIN rows = Loop
  /\ \A r \in Loop : IsTable(rows[r])
  /\ \A r \in Loop : phase[r] = "t3" => todo[r] \subseteq DOMAIN rows[r]

RequestsOK ==
  /\ pc \in [Proc -> PCs]
  /\ req \in [Proc -> Request \cup {NoRequest}]
  /\ \A q \in Proc : /\ pc[q] # "idle" => req[q] \in Request
                     /\ pc[q] \notin {"idle", "lookup"} => req[q].cid \in Container

LEMMA TypeParts == TypeOK <=> SharedOK /\ LoopsOK /\ RequestsOK
BY DEF TypeOK, SharedOK, LoopsOK, RequestsOK

LEMMA LoopsFrame == LoopsOK /\ UNCHANGED work => LoopsOK'
BY DEF LoopsOK, work

LEMMA RequestsFrame == RequestsOK /\ UNCHANGED <<pc, req>> => RequestsOK'
BY DEF RequestsOK

LEMMA SpendType == budget \in Nat /\ (Spend \/ UNCHANGED budget) => budget' \in Nat
BY DEF Spend

LEMMA BeginType ==
  ASSUME LoopsOK, NEW r \in Loop, NEW f \in Config, Begin(r, f)
  PROVE  LoopsOK'
BY DEF LoopsOK, Begin, Phases

LEMMA StopType ==
  ASSUME LoopsOK, NEW r \in Loop, Stop(r)
  PROVE  LoopsOK'
BY EmptyTableType DEF LoopsOK, Stop, Phases

LEMMA MoveType ==
  ASSUME RequestsOK, NEW q \in Proc, NEW label \in PCs, NEW m \in Request \cup {NoRequest},
         Move(q, label, m),
         label # "idle" => m \in Request,
         label \notin {"idle", "lookup"} => m.cid \in Container
  PROVE  RequestsOK'
BY DEF RequestsOK, Move

LEMMA MoveFrame ==
  ASSUME LoopsOK, NEW q \in Proc, NEW label, NEW m, Move(q, label, m)
  PROVE  LoopsOK'
BY LoopsFrame DEF Move

LEMMA T3DoneType ==
  ASSUME LoopsOK, NEW r \in Loop, NEW c \in Container, NEW row \in Row,
         AtT3(r, c), T3Done(r, c, row)
  PROVE  LoopsOK'
<1>1. IsTable(Put(rows[r], c, row)) /\ DOMAIN Put(rows[r], c, row) = DOMAIN rows[r] \cup {c}
  BY PutType DEF LoopsOK, Put
<1>2. /\ DOMAIN rows' = Loop
      /\ \A s \in Loop : IsTable(rows'[s])
  BY <1>1 DEF LoopsOK, T3Done
<1>3. /\ phase' \in [Loop -> Phases]
      /\ using' \in [Loop -> Config]
      /\ todo' \in [Loop -> SUBSET Container]
  BY DEF LoopsOK, T3Done
<1>4. ASSUME NEW s \in Loop, phase'[s] = "t3" PROVE todo'[s] \subseteq DOMAIN rows'[s]
  BY <1>1, <1>4 DEF LoopsOK, T3Done
<1>5. QED
  BY <1>2, <1>3, <1>4 DEF LoopsOK

\* One step of a reconcile keeps the types.
LEMMA ReconcileType ==
  ASSUME SharedOK, LoopsOK, RequestsOK, NEW r \in Loop, ReconcileStep(r)
  PROVE  SharedOK' /\ LoopsOK' /\ RequestsOK'
<1>1. CASE List(r)
  <2>1. SharedOK' /\ RequestsOK'
    BY <1>1 DEF List, SharedOK, RequestsOK, signals, world
  <2>2. LoopsOK'
    BY <1>1 DEF List, LoopsOK, Phases
  <2>3. QED
    BY <2>1, <2>2
<1>2. CASE ListFails(r)
  <2>1. LoopsOK'
    BY <1>2, StopType DEF ListFails
  <2>2. SharedOK' /\ RequestsOK'
    BY <1>2, SpendType DEF ListFails, SharedOK, RequestsOK, signals
  <2>3. QED
    BY <2>1, <2>2
<1>3. CASE CopyTokens(r)
  <2> DEFINE new == [c \in DOMAIN rows[r] |->
                       IF c \in DOMAIN containers
                         THEN WithToken(rows[r][c], containers[c].token)
                         ELSE rows[r][c]]
  <2>1. IsTable(new)
    <3>1. ASSUME NEW c \in DOMAIN rows[r] PROVE new[c] \in Row
      BY RowOfTable, WithTokenType DEF SharedOK, LoopsOK
    <3>2. QED
      BY <3>1 DEF IsTable, LoopsOK
  <2>2. LoopsOK'
    <3>1. /\ DOMAIN rows' = Loop
          /\ rows'[r] = new
          /\ \A s \in Loop \ {r} : rows'[s] = rows[s]
      BY <1>3 DEF CopyTokens, LoopsOK
    <3>2. /\ phase' \in [Loop -> Phases]
          /\ using' \in [Loop -> Config]
          /\ todo' \in [Loop -> SUBSET Container]
      BY <1>3 DEF CopyTokens, LoopsOK, Phases, IsTable
    <3>3. ASSUME NEW s \in Loop, phase'[s] = "t3" PROVE todo'[s] \subseteq DOMAIN rows'[s]
      BY <1>3, <3>1, <3>3 DEF CopyTokens, LoopsOK
    <3>4. QED
      BY <2>1, <3>1, <3>2, <3>3 DEF LoopsOK
  <2>3. SharedOK' /\ RequestsOK'
    BY <1>3 DEF CopyTokens, SharedOK, RequestsOK, signals, world
  <2>4. QED
    BY <2>2, <2>3
<1>4. CASE Publish(r)
  <2>1. LoopsOK'
    BY <1>4, StopType DEF Publish
  <2>2. IsTable(containers') /\ overtaken' \in SUBSET Loop
    BY <1>4 DEF Publish, AtTokens, SharedOK, LoopsOK
  <2>3. SharedOK' /\ RequestsOK'
    BY <1>4, <2>2 DEF Publish, SharedOK, RequestsOK, signals, world
  <2>4. QED
    BY <2>1, <2>3
<1>5. ASSUME NEW c \in Container, Inspect(r, c)
      PROVE  SharedOK' /\ LoopsOK' /\ RequestsOK'
  <2>1. IsTable(Put(rows[r], c, BlankRow(Running(c), ip[c])))
    <3>1. Running(c) \in BOOLEAN
      BY DEF Running
    <3>2. BlankRow(Running(c), ip[c]) \in Row
      BY <3>1, BlankRowType DEF SharedOK
    <3>3. QED
      BY <3>2, PutType DEF LoopsOK
  <2>2. LoopsOK'
    BY <1>5, <2>1 DEF Inspect, LoopsOK
  <2>3. SharedOK' /\ RequestsOK'
    BY <1>5 DEF Inspect, SharedOK, RequestsOK, signals, world
  <2>4. QED
    BY <2>2, <2>3
<1>6. ASSUME NEW c \in Container, InspectFails(r, c)
      PROVE  SharedOK' /\ LoopsOK' /\ RequestsOK'
  <2>1. LoopsOK'
    BY <1>6 DEF InspectFails, LoopsOK
  <2>2. SharedOK' /\ RequestsOK'
    BY <1>6, SpendType DEF InspectFails, SharedOK, RequestsOK, signals
  <2>3. QED
    BY <2>1, <2>2
<1>7. ASSUME NEW c \in Container, NEW row \in Row, AtT3(r, c), T3Done(r, c, row),
             Spend \/ UNCHANGED budget
      PROVE  SharedOK' /\ LoopsOK' /\ RequestsOK'
  <2>1. LoopsOK'
    BY <1>7, T3DoneType
  <2>2. SharedOK' /\ RequestsOK'
    BY <1>7, SpendType DEF T3Done, SharedOK, RequestsOK, signals
  <2>3. QED
    BY <2>1, <2>2
<1>8. ASSUME NEW c \in Container,
             \/ T3Skipped(r, c) \/ T3NotReady(r, c) \/ T3Ready(r, c)
             \/ T3Issues(r, c) \/ T3IssueFails(r, c) \/ T3IssuesEmpty(r, c)
      PROVE  \E row \in Row : AtT3(r, c) /\ T3Done(r, c, row) /\ (Spend \/ UNCHANGED budget)
  <2>1. AtT3(r, c)
    BY <1>8 DEF T3Skipped, T3NotReady, T3Ready, T3Issues, T3IssueFails, T3IssuesEmpty
  <2>2. rows[r][c] \in Row /\ rows[r][c].token \in Token \cup {NoToken}
    BY <2>1, RowOfTable DEF AtT3, LoopsOK
  <2>3. using[r] \in Config /\ Issued(c) \in Token
    BY DEF LoopsOK, SharedOK, Issued, Token
  <2>4. {"disabled", "stopped", "unreachable", "not-ready", "ready-no-token", "ready"}
          \subseteq Status
    BY DEF Status
  <2>5. CASE T3Skipped(r, c)
    BY <2>1, <2>2, <2>4, <2>5, WithStatusType DEF T3Skipped
  <2>6. CASE T3NotReady(r, c)
    BY <2>1, <2>2, <2>4, <2>6, WithStatusType DEF T3NotReady
  <2>7. ASSUME NEW d \in Container, NEW st \in Status, NEW t \in Token \cup {NoToken}
        PROVE  ReadyRow(rows[r][c], EnvFrom(d, c), using[r], st, t) \in Row
    BY <2>2, <2>3, EnvFromType, ReadyRowType
  <2>8. Answering(rows[r][c].ip) \subseteq Container
    BY DEF Answering
  <2>9. CASE T3Ready(r, c)
    BY <2>1, <2>2, <2>4, <2>7, <2>8, <2>9 DEF T3Ready
  <2>10. CASE T3Issues(r, c)
    BY <2>1, <2>3, <2>4, <2>7, <2>8, <2>10 DEF T3Issues
  <2>11. CASE T3IssueFails(r, c)
    BY <2>1, <2>4, <2>7, <2>8, <2>11 DEF T3IssueFails
  <2>12. CASE T3IssuesEmpty(r, c)
    BY <2>1, <2>4, <2>7, <2>8, <2>12 DEF T3IssuesEmpty
  <2>13. QED
    BY <1>8, <2>5, <2>6, <2>9, <2>10, <2>11, <2>12
<1>9. QED
  BY <1>1, <1>2, <1>3, <1>4, <1>5, <1>6, <1>7, <1>8 DEF ReconcileStep

\* One step of a request keeps the types.
LEMMA RequestType ==
  ASSUME SharedOK, LoopsOK, RequestsOK, NEW q \in Proc,
         RequestStep(q) \/ \E e \in Env : Arrive(q, e)
  PROVE  SharedOK' /\ LoopsOK' /\ RequestsOK'
<1> DEFINE Quiet(label, m) ==
      Move(q, label, m) /\ UNCHANGED table /\ (Spend \/ UNCHANGED budget)
<1>1. ASSUME NEW label \in PCs, NEW m \in Request \cup {NoRequest}, Quiet(label, m),
             label # "idle" => m \in Request,
             label \notin {"idle", "lookup"} => m.cid \in Container
      PROVE  SharedOK' /\ LoopsOK' /\ RequestsOK'
  <2>1. LoopsOK' /\ RequestsOK'
    BY <1>1, MoveFrame, MoveType
  <2>2. SharedOK'
    BY <1>1, SpendType DEF Move, SharedOK, signals
  <2>3. QED
    BY <2>1, <2>2
<1>2. CASE \/ RouteFails(q) \/ FirstEnds(q) \/ RefreshFails(q) \/ Retry(q)
  <2>1. Quiet("idle", NoRequest)
    BY <1>2 DEF RouteFails, FirstEnds, RefreshFails, Retry, Answer
  <2>2. QED
    BY <1>1, <2>1 DEF PCs
<1>3. ASSUME NEW e \in Env, Arrive(q, e)
      PROVE  SharedOK' /\ LoopsOK' /\ RequestsOK'
  <2> DEFINE m == [env |-> e, cid |-> "", addr |-> NoIp, token |-> NoToken]
  <2>1. Quiet("lookup", m) /\ m \in Request /\ "lookup" \in PCs
    BY <1>3 DEF Arrive, Request, PCs
  <2>2. QED
    BY <1>1, <2>1
<1>4. CASE Route(q)
  <2>1. PICK c \in Serves(req[q].env) :
          Move(q, "first", [env |-> req[q].env, cid |-> c, addr |-> containers[c].ip,
                            token |-> containers[c].token])
    BY <1>4 DEF Route
  <2> DEFINE m == [env |-> req[q].env, cid |-> c, addr |-> containers[c].ip,
                   token |-> containers[c].token]
  <2>2. c \in DOMAIN containers
    BY DEF Serves
  <2>3. /\ c \in Container
        /\ containers[c].token \in Token \cup {NoToken}
        /\ containers[c].ip \in Ip \cup {NoIp}
    BY <2>2, RowOfTable DEF SharedOK
  <2>4. req[q] \in Request
    BY <1>4 DEF Route, RequestsOK
  <2>5. m \in Request /\ m.cid \in Container /\ "first" \in PCs
    BY <2>3, <2>4 DEF Request, PCs
  <2>6. Quiet("first", m)
    BY <1>4, <2>1 DEF Route
  <2>7. QED
    BY <1>1, <2>5, <2>6
<1>5. CASE FirstRefused(q)
  <2>1. Quiet("refresh", req[q])
    BY <1>5 DEF FirstRefused
  <2>2. req[q] \in Request /\ req[q].cid \in Container /\ "refresh" \in PCs
    BY <1>5 DEF FirstRefused, RequestsOK, PCs
  <2>3. QED
    BY <1>1, <2>1, <2>2
<1>6. CASE Refresh(q) \/ RefreshEmpty(q)
  <2>1. req[q] \in Request /\ req[q].cid \in Container
    BY <1>6 DEF Refresh, RefreshEmpty, RequestsOK
  <2>2. Issued(req[q].cid) \in Token \cup {NoToken}
    BY <2>1 DEF Issued, Token, SharedOK
  <2>3. PICK t \in Token \cup {NoToken} :
          Quiet("save", [req[q] EXCEPT !.token = t])
    <3>1. CASE Refresh(q)
      BY <2>2, <3>1 DEF Refresh
    <3>2. CASE RefreshEmpty(q)
      BY <3>2 DEF RefreshEmpty
    <3>3. QED
      BY <1>6, <3>1, <3>2
  <2> DEFINE m == [req[q] EXCEPT !.token = t]
  <2>4. m \in Request /\ m.cid \in Container /\ "save" \in PCs
    BY <2>1 DEF Request, PCs
  <2>5. QED
    BY <1>1, <2>3, <2>4
<1>7. CASE Save(q)
  <2>1. req[q] \in Request /\ req[q].cid \in Container /\ "retry" \in PCs
    BY <1>7 DEF Save, RequestsOK, PCs
  <2>2. Move(q, "retry", req[q])
    BY <1>7 DEF Save
  <2>3. LoopsOK' /\ RequestsOK'
    BY <2>1, <2>2, MoveFrame, MoveType
  <2>4. IsTable(containers')
    <3> DEFINE c   == req[q].cid
               row == IF c \in DOMAIN containers THEN containers[c] ELSE BlankRow(FALSE, NoIp)
    <3>1. row \in Row
      BY RowOfTable, BlankRowType DEF SharedOK
    <3>2. req[q].token \in Token \cup {NoToken}
      BY <2>1 DEF Request
    <3>3. WithToken(row, req[q].token) \in Row
      BY <3>1, <3>2, WithTokenType
    <3>4. containers' = Put(containers, c, WithToken(row, req[q].token))
      BY <1>7 DEF Save
    <3>5. QED
      BY <2>1, <3>3, <3>4, PutType DEF SharedOK
  <2>5. SharedOK'
    BY <1>7, <2>2, <2>4 DEF Save, Move, AtTokens, SharedOK, signals
  <2>6. QED
    BY <2>3, <2>5
<1>8. QED
  BY <1>2, <1>3, <1>4, <1>5, <1>6, <1>7 DEF RequestStep

LEMMA ReaddressType ==
  ASSUME SharedOK, NEW c \in Container, NEW to \in Life, Readdress(c, to)
  PROVE  /\ ip' \in [Container -> Ip \cup {NoIp}]
         /\ lost' \in SUBSET (Container \X Ip)
<1>1. CASE docker[c] = "stopped" /\ to = "running"
  BY <1>1 DEF Readdress, Free, SharedOK
<1>2. CASE to = "stopped" /\ ip[c] # NoIp
  <2>1. <<c, ip[c]>> \in Container \X Ip
    BY <1>2 DEF SharedOK
  <2>2. QED
    BY <1>2, <2>1 DEF Readdress, SharedOK
<1>3. CASE UNCHANGED <<ip, lost>>
  BY <1>3 DEF SharedOK
<1>4. QED
  BY <1>1, <1>2, <1>3 DEF Readdress

LEMMA TypeStep == TypeOK /\ [Next]_vars => TypeOK'
<1> SUFFICES ASSUME SharedOK, LoopsOK, RequestsOK, [Next]_vars
             PROVE  SharedOK' /\ LoopsOK' /\ RequestsOK'
  BY TypeParts, PTL
<1>1. CASE Serve
  BY <1>1, LoopsFrame, RequestsFrame DEF Serve, SharedOK, world, Config
<1>2. CASE DockerEvent
  <2>1. LoopsOK' /\ RequestsOK'
    BY <1>2, BeginType, RequestsFrame DEF DockerEvent, SharedOK
  <2>2. SharedOK'
    <3>1. events' \in Nat
      <4>1. events \in Nat
        BY DEF SharedOK
      <4>2. events > 0 /\ events' = events - 1
        BY <1>2 DEF DockerEvent
      <4>3. QED
        BY <4>1, <4>2
    <3>2. QED
      BY <1>2, <3>1 DEF DockerEvent, SharedOK, world
  <2>3. QED
    BY <2>1, <2>2
<1>3. CASE DockerResubscribe \/ ConfigEvent \/ ConfigRejected
  BY <1>3, LoopsFrame, RequestsFrame
     DEF DockerResubscribe, ConfigEvent, ConfigRejected, SharedOK, world
<1>4. CASE ConfigLoaded
  <2>1. file \in Config
    BY <1>4, ServiceAssumption DEF ConfigLoaded, SharedOK
  <2>2. LoopsOK' /\ RequestsOK'
    BY <1>4, <2>1, BeginType, RequestsFrame DEF ConfigLoaded
  <2>3. SharedOK'
    BY <1>4, <2>1 DEF ConfigLoaded, SharedOK, world
  <2>4. QED
    BY <2>2, <2>3
<1>5. CASE Tick
  <2>1. LoopsOK' /\ RequestsOK'
    BY <1>5, BeginType, RequestsFrame DEF Tick, SharedOK
  <2>2. SharedOK'
    BY <1>5 DEF Tick, SharedOK, world, signals
  <2>3. QED
    BY <2>1, <2>2
<1>6. CASE \E r \in Loop : ReconcileStep(r)
  BY <1>6, ReconcileType
<1>7. CASE \E q \in Proc : RequestStep(q) \/ \E e \in Env : Arrive(q, e)
  BY <1>7, RequestType
<1>8. CASE Environment
  <2>1. CASE StreamBreaks
    BY <1>8, <2>1, LoopsFrame, RequestsFrame, SpendType DEF StreamBreaks, SharedOK
  <2>2. ASSUME NEW c \in Container, ContainerChanges(c)
        PROVE  SharedOK' /\ LoopsOK' /\ RequestsOK'
    <3>1. events' \in Nat
      <4>1. events \in Nat
        BY DEF SharedOK
      <4>2. events' = events \/ events' = events + 1
        BY <2>2 DEF ContainerChanges
      <4>3. QED
        BY <4>1, <4>2
    <3>2. docker' \in [Container -> Life]
      BY <2>2 DEF ContainerChanges, SharedOK
    <3>3. /\ ip' \in [Container -> Ip \cup {NoIp}]
          /\ lost' \in SUBSET (Container \X Ip)
      BY <2>2, ReaddressType DEF ContainerChanges
    <3>4. budget' \in Nat
      BY <2>2, SpendType DEF ContainerChanges, SharedOK
    <3>5. SharedOK'
      BY <2>2, <3>1, <3>2, <3>3, <3>4 DEF ContainerChanges, SharedOK
    <3>6. QED
      BY <2>2, <3>5, LoopsFrame, RequestsFrame DEF ContainerChanges
  <2>3. ASSUME NEW c \in Container, Revoke(c)
        PROVE  SharedOK' /\ LoopsOK' /\ RequestsOK'
    <3>1. gen' \in [Container -> Nat]
      <4>1. gen \in [Container -> Nat]
        BY DEF SharedOK
      <4>2. gen' = [gen EXCEPT ![c] = gen[c] + 1]
        BY <2>3 DEF Revoke
      <4>3. QED
        BY <4>1, <4>2
    <3>2. budget' \in Nat
      BY <2>3, SpendType DEF Revoke, SharedOK
    <3>3. SharedOK'
      BY <2>3, <3>1, <3>2 DEF Revoke, SharedOK, signals
    <3>4. QED
      BY <2>3, <3>3, LoopsFrame, RequestsFrame DEF Revoke
  <2>4. ASSUME NEW f \in Configs \cup {Broken}, EditFile(f)
        PROVE  SharedOK' /\ LoopsOK' /\ RequestsOK'
    BY <2>4, LoopsFrame, RequestsFrame, SpendType DEF EditFile, SharedOK
  <2>5. QED
    BY <1>8, <2>1, <2>2, <2>3, <2>4 DEF Environment
<1>9. CASE UNCHANGED vars
  BY <1>9, LoopsFrame, RequestsFrame DEF vars, work, SharedOK
<1>10. QED
  BY <1>1, <1>2, <1>3, <1>4, <1>5, <1>6, <1>7, <1>8, <1>9 DEF Next

\* Whatever the loops, the requests and the environment do, the shared map
\* and the private copies of it hold whole rows, a request that was routed
\* names a container, and a reconcile at its t3 stage has a row for every
\* container it still has to ask.
THEOREM TypeCorrect == Spec => []TypeOK
  BY InitType, TypeStep, PTL DEF Spec

-----------------------------------------------------------------------------
(***************************************************************************)
(* Where the containers are.                                               *)
(***************************************************************************)
\* Docker gives an address to running containers only, and to one at a time.
PlacesInv ==
  /\ \A c \in Container : ip[c] # NoIp => Running(c)
  /\ \A c, d \in Container : ip[c] = ip[d] => c = d \/ ip[c] = NoIp

\* Container c has the address a, or had it until it stopped.
Had(c, a) == ip[c] = a \/ <<c, a>> \in lost

LEMMA PlacesStep ==
  ASSUME SharedOK, PlacesInv, NEW c \in Container, NEW to \in Life,
         docker' = [docker EXCEPT ![c] = to], Readdress(c, to),
         <<docker[c], to>> \in QuietChange \cup ReportedChange
  PROVE  PlacesInv'
<1>1. \A d \in Container : docker'[d] = IF d = c THEN to ELSE docker[d]
  BY DEF SharedOK
<1>2. CASE docker[c] = "stopped" /\ to = "running"
  <2>1. PICK a \in Free \cup {NoIp} : ip' = [ip EXCEPT ![c] = a]
    BY <1>2 DEF Readdress
  <2>2. \A d \in Container : ip'[d] = IF d = c THEN a ELSE ip[d]
    BY <2>1 DEF SharedOK
  <2>3. a = NoIp \/ \A d \in Container : ip[d] # a
    BY DEF Free
  <2>4. QED
    BY <1>1, <1>2, <2>2, <2>3 DEF PlacesInv, Running
<1>3. CASE to = "stopped"
  <2>1. \A d \in Container : ip'[d] = IF d = c THEN NoIp ELSE ip[d]
    BY <1>3 DEF Readdress, SharedOK
  <2>2. QED
    BY <1>1, <2>1 DEF PlacesInv, Running
<1>4. CASE ~ (docker[c] = "stopped" /\ to = "running") /\ to # "stopped"
  <2>1. ip' = ip
    BY <1>4 DEF Readdress
  <2>2. Running(c) => to \in {"running", "serving"}
    BY <1>4 DEF QuietChange, ReportedChange, Running
  <2>3. QED
    BY <1>1, <2>1, <2>2 DEF PlacesInv, Running
<1>5. QED
  BY <1>2, <1>3, <1>4

\* What a container had it keeps, or has given up.
LEMMA HadStep ==
  ASSUME SharedOK, PlacesInv, NEW c \in Container, NEW to \in Life, Readdress(c, to)
  PROVE  /\ lost \subseteq lost'
         /\ \A d \in Container : \A a \in Ip :
              Had(d, a) => ip'[d] = a \/ <<d, a>> \in lost'
<1>1. CASE docker[c] = "stopped" /\ to = "running"
  <2>1. lost' = lost /\ \A d \in Container \ {c} : ip'[d] = ip[d]
    BY <1>1 DEF Readdress, SharedOK
  <2>2. ip[c] = NoIp
    BY <1>1 DEF PlacesInv, Running
  <2>3. QED
    BY <2>1, <2>2, ServiceAssumption DEF Had, NoIp
<1>2. CASE to = "stopped" /\ ip[c] # NoIp
  <2>1. lost' = lost \cup {<<c, ip[c]>>} /\ \A d \in Container \ {c} : ip'[d] = ip[d]
    BY <1>2 DEF Readdress, SharedOK
  <2>2. QED
    BY <2>1 DEF Had
<1>3. CASE UNCHANGED <<ip, lost>>
  BY <1>3 DEF Had
<1>4. QED
  BY <1>1, <1>2, <1>3 DEF Readdress

\* Only starts and stops move a container.
LEMMA ReconcileStays ==
  ASSUME NEW r \in Loop, ReconcileStep(r) PROVE UNCHANGED places
BY DEF ReconcileStep, List, ListFails, Inspect, InspectFails, CopyTokens, Publish,
       T3Skipped, T3NotReady, T3Ready, T3Issues, T3IssueFails, T3IssuesEmpty, T3Done, world

LEMMA RequestStays ==
  ASSUME NEW q \in Proc, RequestStep(q) \/ \E e \in Env : Arrive(q, e)
  PROVE  UNCHANGED places
BY DEF RequestStep, Route, RouteFails, FirstEnds, FirstRefused, Refresh, RefreshEmpty,
       RefreshFails, Save, Retry, Arrive, Answer, Move

LEMMA OnlyEnvironmentMoves ==
  ASSUME [Next]_vars
  PROVE  UNCHANGED places \/ \E c \in Container : ContainerChanges(c)
BY ReconcileStays, RequestStays
   DEF Next, vars, world, Serve, DockerEvent, DockerResubscribe, ConfigEvent, ConfigLoaded,
       ConfigRejected, Tick, Environment, StreamBreaks, Revoke, EditFile

LEMMA PlacesInvariant == Spec => []PlacesInv
<1>1. Init => PlacesInv
  BY DEF Init, PlacesInv
<1>2. SharedOK /\ PlacesInv /\ [Next]_vars => PlacesInv'
  <2> SUFFICES ASSUME SharedOK, PlacesInv, [Next]_vars PROVE PlacesInv'
    OBVIOUS
  <2>1. ASSUME NEW c \in Container, ContainerChanges(c) PROVE PlacesInv'
    <3>1. PICK to \in Life :
            /\ docker' = [docker EXCEPT ![c] = to]
            /\ Readdress(c, to)
            /\ <<docker[c], to>> \in QuietChange \cup ReportedChange
      BY <2>1 DEF ContainerChanges
    <3>2. QED
      BY <3>1, PlacesStep
  <2>2. CASE UNCHANGED places
    BY <2>2 DEF PlacesInv, Running
  <2>3. QED
    BY <2>1, <2>2, OnlyEnvironmentMoves
<1>3. QED
  BY <1>1, <1>2, TypeCorrect, TypeParts, PTL DEF Spec

-----------------------------------------------------------------------------
(***************************************************************************)
(* Whose tokens the rows hold, where requests take them, and which rows    *)
(* can be routed to.                                                       *)
(***************************************************************************)
Good(c, row) ==
  /\ Owned(c, row.token)
  /\ Routable(c, row)
  /\ row.ip # NoIp => Had(c, row.ip)

GoodTable(m) == \A c \in DOMAIN m : Good(c, m[c])

\* A request at one of its steps: its token is that of the container it was
\* routed to, and so is, or was, its address.
Aimed(m, label) ==
  /\ Owned(m.cid, m.token)
  /\ label \notin {"idle", "lookup"} => m.addr # NoIp /\ Had(m.cid, m.addr)

AllGood(published, private, requests, labels) ==
  /\ GoodTable(published)
  /\ \A r \in Loop : GoodTable(private[r])
  /\ \A q \in Proc : Aimed(requests[q], labels[q])

\* The inductive invariant.
RowsInv == AllGood(containers, rows, req, pc)

\* What a step of the service makes of the rows and the requests is good as
\* long as the containers stay where they are.
RowsNext == AllGood(containers', rows', req', pc')

LEMMA RowsInvRoutable == RowsInv => RoutableRows
BY DEF RowsInv, AllGood, GoodTable, Good, RoutableRows

LEMMA RowsInvOwner == TypeOK /\ PlacesInv /\ RowsInv => TokenOwner
<1> SUFFICES ASSUME TypeOK, PlacesInv, RowsInv PROVE TokenOwner
  OBVIOUS
<1>1. /\ \A c \in DOMAIN containers : Owned(c, containers[c].token)
      /\ \A r \in Loop : \A c \in DOMAIN rows[r] : Owned(c, rows[r][c].token)
      /\ \A q \in Proc : Owned(req[q].cid, req[q].token)
  BY DEF RowsInv, AllGood, GoodTable, Good, Aimed
<1>2. ASSUME NEW q \in Proc, NEW d \in Container,
             pc[q] \in {"first", "retry"}, req[q].token # NoToken, ip[d] = req[q].addr
      PROVE  d = req[q].token.cid \/ <<req[q].token.cid, req[q].addr>> \in lost
  <2>1. req[q].addr # NoIp /\ Had(req[q].cid, req[q].addr)
    BY <1>2 DEF RowsInv, AllGood, Aimed
  <2>2. req[q].token.cid = req[q].cid
    BY <1>1, <1>2 DEF Owned
  <2>3. req[q].cid \in Container
    BY <1>2 DEF TypeOK
  <2>4. CASE ip[req[q].cid] = req[q].addr
    BY <1>2, <2>1, <2>2, <2>3, <2>4 DEF PlacesInv
  <2>5. QED
    BY <2>1, <2>2, <2>4 DEF Had
<1>3. QED
  BY <1>1, <1>2 DEF TokenOwner

LEMMA GoodBlank ==
  ASSUME NEW c, NEW b, NEW a, a # NoIp => Had(c, a)
  PROVE  Good(c, BlankRow(b, a))
BY DEF Good, Owned, Routable, BlankRow

LEMMA GoodEmpty == GoodTable(EmptyTable)
BY DEF GoodTable, EmptyTable

LEMMA GoodWithToken ==
  ASSUME NEW c, NEW row, NEW t, Good(c, row), Owned(c, t)
  PROVE  Good(c, WithToken(row, t))
BY DEF Good, Routable, WithToken

LEMMA GoodWithStatus ==
  ASSUME NEW c, NEW row, NEW s, NEW b, Good(c, row)
  PROVE  Good(c, WithStatus(row, s, b))
BY DEF Good, Owned, Routable, WithStatus

\* A row completed after t3 in d answered at its address: d is the container
\* of the row, or that has given the address up.
LEMMA GoodReady ==
  ASSUME PlacesInv, NEW c \in Container, NEW row, Good(c, row), row.running,
         row.ip # NoIp, NEW d \in Answering(row.ip), NEW f, NEW s, NEW t, Owned(c, t)
  PROVE  Good(c, ReadyRow(row, EnvFrom(d, c), f, s, t))
<1>1. publicBaseURL(f.listen).host # NoBase.host
  BY DEF publicBaseURL, NoBase
<1>2. Had(c, row.ip)
  BY DEF Good
<1>3. d = c \/ <<c, row.ip>> \in lost
  BY <1>2 DEF Had, Answering, PlacesInv
<1>4. QED
  BY <1>1, <1>2, <1>3 DEF Good, Routable, ReadyRow

LEMMA GoodPut ==
  ASSUME NEW m, NEW c, NEW row, GoodTable(m), Good(c, row)
  PROVE  GoodTable(Put(m, c, row))
BY DEF GoodTable, Put

LEMMA GoodStop ==
  ASSUME LoopsOK, RowsInv, NEW r \in Loop, Stop(r)
  PROVE  \A s \in Loop : GoodTable(rows'[s])
BY GoodEmpty DEF Stop, LoopsOK, RowsInv, AllGood

LEMMA GoodMove ==
  ASSUME RequestsOK, RowsInv, NEW q \in Proc, NEW label, NEW m, Move(q, label, m),
         Aimed(m, label)
  PROVE  \A p \in Proc : Aimed(req'[p], pc'[p])
BY DEF Move, RequestsOK, RowsInv, AllGood

\* A step of a reconcile.
LEMMA ReconcileRows ==
  ASSUME SharedOK, LoopsOK, RequestsOK, PlacesInv, RowsInv, NEW r \in Loop, ReconcileStep(r)
  PROVE  RowsNext
<1>1. CASE List(r) \/ (\E c \in Container : InspectFails(r, c))
  BY <1>1 DEF List, InspectFails, RowsInv, RowsNext, AllGood
<1>2. CASE ListFails(r)
  BY <1>2, GoodStop DEF ListFails, RowsInv, RowsNext, AllGood
<1>3. CASE CopyTokens(r)
  <2>1. ASSUME NEW c \in DOMAIN rows[r]
        PROVE  Good(c, IF c \in DOMAIN containers
                         THEN WithToken(rows[r][c], containers[c].token)
                         ELSE rows[r][c])
    <3>1. Good(c, rows[r][c])
      BY DEF RowsInv, AllGood, GoodTable
    <3>2. c \in DOMAIN containers => Owned(c, containers[c].token)
      BY DEF RowsInv, AllGood, GoodTable, Good
    <3>3. QED
      BY <3>1, <3>2, GoodWithToken
  <2>2. /\ DOMAIN rows' = Loop
        /\ rows'[r] = [c \in DOMAIN rows[r] |->
                         IF c \in DOMAIN containers
                           THEN WithToken(rows[r][c], containers[c].token)
                           ELSE rows[r][c]]
        /\ \A s \in Loop \ {r} : rows'[s] = rows[s]
    BY <1>3 DEF CopyTokens, LoopsOK
  <2>3. \A s \in Loop : GoodTable(rows'[s])
    BY <2>1, <2>2 DEF RowsInv, AllGood, GoodTable
  <2>4. QED
    BY <1>3, <2>3 DEF CopyTokens, RowsInv, RowsNext, AllGood
<1>4. CASE Publish(r)
  BY <1>4, GoodStop DEF Publish, RowsInv, RowsNext, AllGood
<1>5. ASSUME NEW c \in Container, Inspect(r, c)
      PROVE  RowsNext
  <2>1. GoodTable(Put(rows[r], c, BlankRow(Running(c), ip[c])))
    BY GoodBlank, GoodPut DEF RowsInv, AllGood, Had
  <2>2. \A s \in Loop : GoodTable(rows'[s])
    BY <1>5, <2>1 DEF Inspect, LoopsOK, RowsInv, AllGood
  <2>3. QED
    BY <1>5, <2>2 DEF Inspect, RowsInv, RowsNext, AllGood
<1>6. ASSUME NEW c \in Container, NEW row, Good(c, row), T3Done(r, c, row)
      PROVE  RowsNext
  <2>1. GoodTable(Put(rows[r], c, row))
    BY <1>6, GoodPut DEF RowsInv, AllGood
  <2>2. \A s \in Loop : GoodTable(rows'[s])
    BY <1>6, <2>1 DEF T3Done, LoopsOK, RowsInv, AllGood
  <2>3. QED
    BY <1>6, <2>2 DEF T3Done, RowsInv, RowsNext, AllGood
<1>7. ASSUME NEW c \in Container,
             \/ T3Skipped(r, c) \/ T3NotReady(r, c) \/ T3Ready(r, c)
             \/ T3Issues(r, c) \/ T3IssueFails(r, c) \/ T3IssuesEmpty(r, c)
      PROVE  RowsNext
  <2>1. c \in DOMAIN rows[r]
    BY <1>7 DEF T3Skipped, T3NotReady, T3Ready, T3Issues, T3IssueFails, T3IssuesEmpty,
                AtT3, LoopsOK
  <2>2. Good(c, rows[r][c])
    BY <2>1 DEF RowsInv, AllGood, GoodTable
  <2>3. Owned(c, rows[r][c].token) /\ Owned(c, Issued(c)) /\ Owned(c, NoToken)
    BY <2>2 DEF Good, Owned, Issued
  <2>4. CASE T3Skipped(r, c)
    BY <1>6, <2>2, <2>4, GoodWithStatus DEF T3Skipped
  <2>5. CASE T3NotReady(r, c)
    BY <1>6, <2>2, <2>5, GoodWithStatus DEF T3NotReady
  <2>6. ASSUME Probed(r, c), NEW d \in Answering(rows[r][c].ip), NEW s, NEW t, Owned(c, t),
               T3Done(r, c, ReadyRow(rows[r][c], EnvFrom(d, c), using[r], s, t))
        PROVE  RowsNext
    <3>1. Good(c, ReadyRow(rows[r][c], EnvFrom(d, c), using[r], s, t))
      BY <2>2, <2>6, GoodReady DEF Probed
    <3>2. QED
      BY <1>6, <2>6, <3>1
  <2>7. CASE T3Ready(r, c)
    BY <2>3, <2>6, <2>7 DEF T3Ready
  <2>8. CASE T3Issues(r, c)
    BY <2>3, <2>6, <2>8 DEF T3Issues
  <2>9. CASE T3IssueFails(r, c)
    BY <2>3, <2>6, <2>9 DEF T3IssueFails
  <2>10. CASE T3IssuesEmpty(r, c)
    BY <2>3, <2>6, <2>10 DEF T3IssuesEmpty
  <2>11. QED
    BY <1>7, <2>4, <2>5, <2>7, <2>8, <2>9, <2>10
<1>8. QED
  BY <1>1, <1>2, <1>3, <1>4, <1>5, <1>7 DEF ReconcileStep

\* A step of a request.
LEMMA RequestRows ==
  ASSUME SharedOK, LoopsOK, RequestsOK, RowsInv, NEW q \in Proc,
         RequestStep(q) \/ \E e \in Env : Arrive(q, e)
  PROVE  RowsNext
<1>1. ASSUME NEW label, NEW m, Move(q, label, m), Aimed(m, label), GoodTable(containers')
      PROVE  RowsNext
  BY <1>1, GoodMove DEF Move, work, RowsInv, RowsNext, AllGood
<1>2. Aimed(req[q], pc[q]) /\ Aimed(NoRequest, "idle")
  BY DEF NoRequest, Owned, RowsInv, AllGood, Aimed
<1>3. GoodTable(containers) /\ (UNCHANGED containers => GoodTable(containers'))
  BY DEF RowsInv, AllGood
<1>4. CASE RouteFails(q) \/ FirstEnds(q) \/ RefreshFails(q) \/ Retry(q)
  BY <1>1, <1>2, <1>3, <1>4 DEF RouteFails, FirstEnds, RefreshFails, Retry, Answer
<1>5. ASSUME NEW e \in Env, Arrive(q, e)
      PROVE  RowsNext
  <2> DEFINE m == [env |-> e, cid |-> "", addr |-> NoIp, token |-> NoToken]
  <2>1. Aimed(m, "lookup")
    BY DEF Aimed, Owned
  <2>2. QED
    BY <1>1, <1>3, <1>5, <2>1 DEF Arrive
<1>6. CASE Route(q)
  <2>1. PICK c \in Serves(req[q].env) :
          Move(q, "first", [env |-> req[q].env, cid |-> c, addr |-> containers[c].ip,
                            token |-> containers[c].token])
    BY <1>6 DEF Route
  <2> DEFINE m == [env |-> req[q].env, cid |-> c, addr |-> containers[c].ip,
                   token |-> containers[c].token]
  <2>2. Good(c, containers[c]) /\ containers[c].env = req[q].env
    BY DEF Serves, RowsInv, AllGood, GoodTable
  <2>3. req[q].env # NoEnv
    BY <1>6, ServiceAssumption DEF Route, RequestsOK, Request, NoEnv
  <2>4. Aimed(m, "first")
    BY <2>2, <2>3 DEF Good, Routable, Aimed
  <2>5. QED
    BY <1>1, <1>3, <1>6, <2>1, <2>4 DEF Route
<1>7. CASE FirstRefused(q)
  <2>1. Aimed(req[q], "refresh")
    BY <1>2, <1>7 DEF FirstRefused, Aimed
  <2>2. QED
    BY <1>1, <1>3, <1>7, <2>1 DEF FirstRefused
<1>8. ASSUME NEW t, pc[q] = "refresh", Move(q, "save", [req[q] EXCEPT !.token = t]),
             Owned(req[q].cid, t), UNCHANGED containers
      PROVE  RowsNext
  <2> DEFINE m == [req[q] EXCEPT !.token = t]
  <2>1. req[q] \in Request
    BY <1>8 DEF RequestsOK
  <2>2. m.cid = req[q].cid /\ m.addr = req[q].addr /\ m.token = t
    BY <2>1 DEF Request
  <2>3. Aimed(m, "save")
    BY <1>2, <1>8, <2>2 DEF Aimed
  <2>4. QED
    BY <1>1, <1>3, <1>8, <2>3
<1>9. CASE Refresh(q) \/ RefreshEmpty(q)
  <2>1. Owned(req[q].cid, Issued(req[q].cid)) /\ Owned(req[q].cid, NoToken)
    BY DEF Owned, Issued
  <2>2. QED
    BY <1>8, <1>9, <2>1 DEF Refresh, RefreshEmpty
<1>10. CASE Save(q)
  <2> DEFINE c   == req[q].cid
             row == IF c \in DOMAIN containers THEN containers[c] ELSE BlankRow(FALSE, NoIp)
  <2>1. Good(c, row)
    BY GoodBlank DEF RowsInv, AllGood, GoodTable
  <2>2. Aimed(req[q], "retry") /\ Owned(c, req[q].token)
    BY <1>2, <1>10 DEF Save, Aimed
  <2>3. Good(c, WithToken(row, req[q].token))
    BY <2>1, <2>2, GoodWithToken
  <2>4. containers' = Put(containers, c, WithToken(row, req[q].token))
    BY <1>10 DEF Save
  <2>5. GoodTable(containers')
    BY <1>3, <2>3, <2>4, GoodPut
  <2>6. QED
    BY <1>1, <1>10, <2>2, <2>5 DEF Save
<1>11. QED
  BY <1>4, <1>5, <1>6, <1>7, <1>9, <1>10 DEF RequestStep

\* A container that starts or stops: what was an address of a row or of a
\* request is one still, or one that was given up.
LEMMA GoodMonotone ==
  ASSUME lost \subseteq lost',
         \A d \in Container : \A a \in Ip : Had(d, a) => ip'[d] = a \/ <<d, a>> \in lost',
         NEW d \in Container, NEW row, row.ip \in Ip \cup {NoIp}, Good(d, row)
  PROVE  /\ Owned(d, row.token)
         /\ row.env # NoEnv => /\ row.running
                               /\ row.backend /\ row.ip # NoIp
                               /\ row.base # NoBase
                               /\ row.env = EnvFrom(d, d) \/ <<d, row.ip>> \in lost'
         /\ row.ip # NoIp => ip'[d] = row.ip \/ <<d, row.ip>> \in lost'
BY DEF Good, Routable

LEMMA MoveRows ==
  ASSUME SharedOK, LoopsOK, RequestsOK, PlacesInv, RowsInv,
         NEW c \in Container, ContainerChanges(c)
  PROVE  RowsInv'
<1>1. PICK to \in Life : Readdress(c, to)
  BY DEF ContainerChanges
<1>2. /\ lost \subseteq lost'
      /\ \A d \in Container : \A a \in Ip : Had(d, a) => ip'[d] = a \/ <<d, a>> \in lost'
  BY <1>1, HadStep
<1>3. ASSUME NEW m, IsTable(m), GoodTable(m), NEW d \in DOMAIN m
      PROVE  /\ Owned(d, m[d].token)
             /\ m[d].env # NoEnv => /\ m[d].running
                                    /\ m[d].backend /\ m[d].ip # NoIp
                                    /\ m[d].base # NoBase
                                    /\ m[d].env = EnvFrom(d, d) \/ <<d, m[d].ip>> \in lost'
             /\ m[d].ip # NoIp => ip'[d] = m[d].ip \/ <<d, m[d].ip>> \in lost'
  BY <1>2, <1>3, RowOfTable, GoodMonotone DEF GoodTable
<1>4. UNCHANGED <<containers, rows, req, pc>>
  BY DEF ContainerChanges, work
<1>5. GoodTable(containers)'
  BY <1>3, <1>4 DEF SharedOK, RowsInv, AllGood, GoodTable, Good, Routable, Had
<1>6. ASSUME NEW r \in Loop PROVE GoodTable(rows[r])'
  BY <1>3, <1>4 DEF LoopsOK, RowsInv, AllGood, GoodTable, Good, Routable, Had
<1>7. ASSUME NEW q \in Proc PROVE Aimed(req[q], pc[q])'
  <2>1. Aimed(req[q], pc[q])
    BY DEF RowsInv, AllGood
  <2>2. pc[q] \notin {"idle", "lookup"} =>
          req[q].cid \in Container /\ req[q].addr \in Ip \cup {NoIp}
    BY DEF RequestsOK, Request
  <2>3. QED
    BY <1>2, <1>4, <2>1, <2>2 DEF Aimed, Had
<1>8. QED
  BY <1>5, <1>6, <1>7 DEF RowsInv, AllGood

LEMMA RowsInvariant == Spec => []RowsInv
<1>1. Init => RowsInv
  <2> SUFFICES ASSUME Init PROVE RowsInv
    OBVIOUS
  <2>1. Aimed(NoRequest, "idle")
    BY DEF NoRequest, Owned, Aimed
  <2>2. QED
    BY <2>1, GoodEmpty DEF Init, RowsInv, AllGood
<1>2. TypeOK /\ PlacesInv /\ RowsInv /\ [Next]_vars => RowsInv'
  <2> SUFFICES ASSUME TypeOK, PlacesInv, RowsInv, [Next]_vars PROVE RowsInv'
    OBVIOUS
  <2> USE TypeParts
  <2>1. ASSUME RowsNext, UNCHANGED places PROVE RowsInv'
    BY <2>1 DEF RowsInv, RowsNext, AllGood, GoodTable, Good, Routable, Aimed, Had
  <2>2. CASE \E r \in Loop : ReconcileStep(r)
    BY <2>1, <2>2, ReconcileRows, ReconcileStays
  <2>3. CASE \E q \in Proc : RequestStep(q) \/ \E e \in Env : Arrive(q, e)
    BY <2>1, <2>3, RequestRows, RequestStays
  <2>4. CASE UNCHANGED <<containers, rows, req, pc, places>>
    BY <2>1, <2>4 DEF RowsInv, RowsNext
  <2>5. CASE \E c \in Container : ContainerChanges(c)
    BY <2>5, MoveRows
  <2>6. QED
    BY <2>2, <2>3, <2>4, <2>5
       DEF Next, vars, work, world, Serve, DockerEvent, DockerResubscribe, ConfigEvent,
           ConfigLoaded, ConfigRejected, Tick, Begin, Environment, StreamBreaks,
           Revoke, EditFile
<1>3. QED
  BY <1>1, <1>2, TypeCorrect, PlacesInvariant, PTL DEF Spec

\* Backend tokens never cross from one container to another inside the
\* service, and never leave it for an address that their container did not
\* have, whatever loops and requests interleave, whatever environment ids
\* containers share and however Docker reuses addresses.
THEOREM TokensOwned == Spec => []TokenOwner
  BY RowsInvariant, RowsInvOwner, TypeCorrect, PlacesInvariant, PTL

\* handleEnvProxy only ever routes to rows that reconcile completed.
THEOREM RoutedRowsWhole == Spec => []RoutableRows
  BY RowsInvariant, RowsInvRoutable, PTL

-----------------------------------------------------------------------------
(***************************************************************************)
(* Reconciles that nothing overtakes keep the tokens.                      *)
(***************************************************************************)
\* Past CopyTokens a reconcile that was not overtaken has every token that
\* the map has.
Carries(r) ==
  phase[r] = "t3" /\ r \notin overtaken =>
    \A c \in DOMAIN rows[r] \cap DOMAIN containers :
      containers[c].token # NoToken => rows[r][c].token = containers[c].token

KeepInv == \A r \in Loop : Carries(r)

\* The row that ReconcileContainer gives back has the token it was given.
Keeps(r, c, row) == rows[r][c].token # NoToken => row.token = rows[r][c].token

LEMMA T3Keeps ==
  ASSUME NEW r, NEW c,
         \/ T3Skipped(r, c) \/ T3NotReady(r, c) \/ T3Ready(r, c)
         \/ T3Issues(r, c) \/ T3IssueFails(r, c) \/ T3IssuesEmpty(r, c)
  PROVE  \E row : AtT3(r, c) /\ T3Done(r, c, row) /\ Keeps(r, c, row)
<1>1. ASSUME NEW s, NEW b PROVE Keeps(r, c, WithStatus(rows[r][c], s, b))
  BY DEF Keeps, WithStatus
<1>2. ASSUME NEW e, NEW f, NEW s
      PROVE  Keeps(r, c, ReadyRow(rows[r][c], e, f, s, rows[r][c].token))
  BY DEF Keeps, ReadyRow
<1>3. ASSUME NEW e, NEW f, NEW s, NEW t, Wanted(r, c)
      PROVE  Keeps(r, c, ReadyRow(rows[r][c], e, f, s, t))
  BY <1>3 DEF Keeps, Wanted
<1>4. CASE T3Skipped(r, c)
  BY <1>1, <1>4 DEF T3Skipped
<1>5. CASE T3NotReady(r, c)
  BY <1>1, <1>5 DEF T3NotReady
<1>6. CASE T3Ready(r, c)
  BY <1>2, <1>6 DEF T3Ready
<1>7. CASE T3Issues(r, c)
  BY <1>3, <1>7 DEF T3Issues
<1>8. CASE T3IssueFails(r, c)
  BY <1>3, <1>8 DEF T3IssueFails
<1>9. CASE T3IssuesEmpty(r, c)
  BY <1>3, <1>9 DEF T3IssuesEmpty
<1>10. QED
  BY <1>4, <1>5, <1>6, <1>7, <1>8, <1>9

\* A step that leaves the map and a loop alone leaves Carries of the loop.
LEMMA CarriesFrame ==
  ASSUME NEW s, Carries(s), phase'[s] = phase[s], rows'[s] = rows[s],
         containers' = containers, s \in overtaken => s \in overtaken'
  PROVE  Carries(s)'
BY DEF Carries

\* A step that replaces the map, by a refresh or by a loop r that publishes:
\* every loop past CopyTokens is marked.
LEMMA CarriesMarked ==
  ASSUME NEW s \in Loop, phase'[s] = "t3" => phase[s] = "t3" /\ s \in overtaken'
  PROVE  Carries(s)'
BY DEF Carries

LEMMA LoopKeeps ==
  ASSUME LoopsOK, KeepInv, NEW r \in Loop, ReconcileStep(r)
  PROVE  KeepInv'
<1>1. CASE Publish(r)
  <2>1. ASSUME NEW s \in Loop PROVE phase'[s] = "t3" => phase[s] = "t3" /\ s \in overtaken'
    BY <1>1 DEF Publish, Stop, AtTokens, LoopsOK
  <2>2. QED
    BY <2>1, CarriesMarked DEF KeepInv
<1>2. CASE ~ Publish(r)
  <2>1. \A s \in Loop \ {r} : phase'[s] = phase[s] /\ rows'[s] = rows[s]
    BY <1>2 DEF ReconcileStep, List, ListFails, Stop, Inspect, InspectFails, CopyTokens,
                T3Skipped, T3NotReady, T3Ready, T3Issues, T3IssueFails, T3IssuesEmpty, T3Done, LoopsOK
  <2>2. containers' = containers /\ \A s \in Loop \ {r} : s \in overtaken => s \in overtaken'
    BY <1>2 DEF ReconcileStep, List, ListFails, Inspect, InspectFails, CopyTokens,
                T3Skipped, T3NotReady, T3Ready, T3Issues, T3IssueFails, T3IssuesEmpty, T3Done
  <2>3. \A s \in Loop \ {r} : Carries(s)'
    BY <2>1, <2>2, CarriesFrame DEF KeepInv
  <2>4. Carries(r)'
    <3>1. CASE \/ List(r) \/ ListFails(r)
               \/ \E c \in Container : Inspect(r, c) \/ InspectFails(r, c)
      BY <3>1 DEF List, ListFails, Stop, Inspect, InspectFails, LoopsOK, Carries
    <3>2. CASE CopyTokens(r)
      BY <3>2 DEF CopyTokens, WithToken, LoopsOK, Carries
    <3>3. ASSUME NEW c \in Container, NEW row, AtT3(r, c), T3Done(r, c, row),
                 Keeps(r, c, row)
          PROVE  Carries(r)'
      <4>1. c \in DOMAIN rows[r] /\ phase[r] = "t3"
        BY <3>3 DEF AtT3, LoopsOK
      <4>2. /\ rows'[r] = Put(rows[r], c, row)
            /\ containers' = containers
            /\ overtaken' = overtaken
        BY <3>3 DEF T3Done, LoopsOK
      <4>3. QED
        BY <3>3, <4>1, <4>2 DEF KeepInv, Carries, Keeps, Put
    <3>4. QED
      BY <1>2, <3>1, <3>2, <3>3, T3Keeps DEF ReconcileStep
  <2>5. QED
    BY <2>3, <2>4 DEF KeepInv
<1>3. QED
  BY <1>1, <1>2

LEMMA RequestKeeps ==
  ASSUME LoopsOK, KeepInv, NEW q \in Proc, RequestStep(q) \/ \E e \in Env : Arrive(q, e)
  PROVE  KeepInv'
<1>1. CASE Save(q)
  <2>1. ASSUME NEW s \in Loop PROVE phase'[s] = "t3" => phase[s] = "t3" /\ s \in overtaken'
    BY <1>1 DEF Save, Move, work, AtTokens
  <2>2. QED
    BY <2>1, CarriesMarked DEF KeepInv
<1>2. CASE ~ Save(q)
  <2>1. UNCHANGED <<table, work>>
    BY <1>2 DEF RequestStep, Route, RouteFails, FirstEnds, FirstRefused, Refresh,
                RefreshEmpty, RefreshFails, Retry, Arrive, Answer, Move
  <2>2. QED
    BY <2>1 DEF work, KeepInv, Carries
<1>3. QED
  BY <1>1, <1>2

LEMMA KeepInvariant == Spec => []KeepInv
<1>1. Init => KeepInv
  BY DEF Init, KeepInv, Carries
<1>2. LoopsOK /\ KeepInv /\ [Next]_vars => KeepInv'
  <2> SUFFICES ASSUME LoopsOK, KeepInv, [Next]_vars PROVE KeepInv'
    OBVIOUS
  <2>1. ASSUME NEW r \in Loop, NEW f, Begin(r, f), UNCHANGED table
        PROVE  KeepInv'
    BY <2>1 DEF Begin, LoopsOK, KeepInv, Carries
  <2>2. CASE DockerEvent \/ ConfigLoaded \/ Tick
    BY <2>1, <2>2 DEF DockerEvent, ConfigLoaded, Tick
  <2>3. CASE UNCHANGED <<table, work>>
    BY <2>3 DEF work, KeepInv, Carries
  <2>4. QED
    BY <2>2, <2>3, LoopKeeps, RequestKeeps
       DEF Next, vars, work, Serve, DockerResubscribe, ConfigEvent, ConfigRejected,
           Environment, StreamBreaks, ContainerChanges, Revoke, EditFile
<1>3. QED
  BY <1>1, <1>2, TypeCorrect, TypeParts, PTL DEF Spec

\* For any number of loops and requests, a container that stays listed loses
\* its token only to a refresh of its own or to a reconcile that copied the
\* tokens before something else changed the map.
THEOREM TokensKept == Spec => TokenKept
<1> DEFINE Kept(c) ==
      \/ containers'[c].token = containers[c].token
      \/ \E q \in Proc : pc[q] = "save" /\ pc'[q] = "retry" /\ req[q].cid = c
      \/ \E r \in overtaken : phase[r] = "t3" /\ phase'[r] = "idle"
<1>1. TypeOK /\ KeepInv /\ [Next]_vars =>
        [\A c \in DOMAIN containers \cap DOMAIN containers' :
           containers[c].token # NoToken => Kept(c)]_vars
  <2> SUFFICES ASSUME TypeOK, KeepInv, Next,
                      NEW c \in DOMAIN containers \cap DOMAIN containers',
                      containers[c].token # NoToken
               PROVE  Kept(c)
    OBVIOUS
  <2>0. SharedOK /\ LoopsOK /\ RequestsOK
    BY TypeParts
  <2>1. CASE containers' = containers
    BY <2>1
  <2>2. ASSUME NEW r \in Loop, Publish(r)
        PROVE  Kept(c)
    <3>1. phase[r] = "t3" /\ phase'[r] = "idle" /\ containers' = rows[r]
      BY <2>0, <2>2 DEF Publish, Stop, LoopsOK
    <3>2. CASE r \in overtaken
      BY <3>1, <3>2
    <3>3. CASE r \notin overtaken
      BY <3>1, <3>3 DEF KeepInv, Carries
    <3>4. QED
      BY <3>2, <3>3
  <2>3. ASSUME NEW q \in Proc, Save(q)
        PROVE  Kept(c)
    <3>1. pc[q] = "save" /\ pc'[q] = "retry"
      BY <2>0, <2>3 DEF Save, Move, RequestsOK
    <3>2. c # req[q].cid => containers'[c].token = containers[c].token
      BY <2>3 DEF Save, Put
    <3>3. QED
      BY <3>1, <3>2
  <2>4. ASSUME NEW r \in Loop, ReconcileStep(r)
        PROVE  containers' = containers \/ Publish(r)
    BY <2>4 DEF ReconcileStep, List, ListFails, Inspect, InspectFails, CopyTokens,
                T3Skipped, T3NotReady, T3Ready, T3Issues, T3IssueFails, T3IssuesEmpty, T3Done
  <2>5. ASSUME NEW q \in Proc, RequestStep(q) \/ \E e \in Env : Arrive(q, e)
        PROVE  containers' = containers \/ Save(q)
    BY <2>5 DEF RequestStep, Route, RouteFails, FirstEnds, FirstRefused, Refresh,
                RefreshEmpty, RefreshFails, Retry, Arrive
  <2>6. ASSUME Environment PROVE containers' = containers
    BY <2>6 DEF Environment, StreamBreaks, ContainerChanges, Revoke, EditFile
  <2>7. ASSUME \/ Serve \/ DockerEvent \/ DockerResubscribe \/ ConfigEvent
               \/ ConfigLoaded \/ ConfigRejected \/ Tick
        PROVE  containers' = containers
    BY <2>7 DEF Serve, DockerEvent, DockerResubscribe, ConfigEvent, ConfigLoaded,
                ConfigRejected, Tick
  <2>8. QED
    BY <2>1, <2>2, <2>3, <2>4, <2>5, <2>6, <2>7 DEF Next
<1>2. QED
  BY <1>1, KeepInvariant, TypeCorrect, PTL DEF Spec, TokenKept
=============================================================================
