-------------------------- MODULE SpawnStageProofs --------------------------
(***************************************************************************)
(* Theorems about SpawnStage, for every value of its constants.            *)
(***************************************************************************)
EXTENDS SpawnStage, TLAPS

\* The groups of variables that steps leave alone.
USE DEF handler, files, t3, history, Outside

-----------------------------------------------------------------------------
(***************************************************************************)
(* Type correctness.                                                       *)
(***************************************************************************)
LEMMA FaultType == ASSUME faults \in Nat, Fault PROVE faults' \in Nat
BY DEF Fault

LEMMA WsType == ASSUME NEW r \in Req PROVE Ws(r) \in Workspace /\ Body[r].path \in Path
BY SpawnAssumption DEF Ws

LEMMA InitType == Init => TypeOK
<1> SUFFICES ASSUME Init PROVE TypeOK
  OBVIOUS
<1>1. HandlerType
  BY DEF Init, HandlerType, Places, Open, Calls, Command
<1>2. FileType
  <2>1. content \in [Req -> [1..MaxSize -> Inode]]
    BY DEF Init, Blank, Inode
  <2>2. shell \in [Req -> Shells] /\ \A r \in Req : shell[r] # "cat" /\ pos[r] = 0
    BY DEF Init, Shells
  <2>3. /\ pos \in [Req -> 0..MaxSize]
        /\ input \in [Req -> 0..MaxSize]
        /\ \A r \in Req : input[r] <= Size[r]
    BY SpawnAssumption DEF Init
  <2>4. fd \in [Req -> Inode] /\ tmp \in [Workspace -> Inode] /\ target \in [Workspace -> Inode]
    BY DEF Init, Inode
  <2>5. QED
    BY <2>1, <2>2, <2>3, <2>4 DEF FileType
<1>3. T3Type
  <2>1. \A p \in projects : p.path \in Path /\ p.id # Nothing
    BY SpawnAssumption DEF Init
  <2>2. QED
    BY <2>1 DEF Init, T3Type
<1>4. HistoryType
  BY DEF Init, HistoryType
<1>5. gen \in Nat /\ faults \in Nat
  BY SpawnAssumption DEF Init
<1>6. QED
  BY <1>1, <1>2, <1>3, <1>4, <1>5 DEF TypeOK

\* The type of the handlers when only at and try of one request change.
LEMMA MoveType ==
  ASSUME HandlerType, NEW r \in Req, NEW p \in Places,
         at' = [at EXCEPT ![r] = p],
         p \in Command \cup {"ok"} => proj[r] # Nothing,
         try' = try \/ try' = [try EXCEPT ![r] = "first"],
         UNCHANGED <<tok, fresh, proj, sel, row>>
  PROVE  HandlerType'
BY DEF HandlerType

\* Carrying out a command keeps the types of t3.
LEMMA CarryType ==
  ASSUME T3Type, NEW r \in Req, NEW c \in Command, CarryOut(r, c)
  PROVE  /\ carried' \in [Req -> [Command -> Nat]]
         /\ \A p \in projects' : p.path \in Path /\ p.id # Nothing
<1>1. carried' \in [Req -> [Command -> Nat]]
  BY DEF CarryOut, T3Type
<1>2. Body[r].path \in Path /\ r # Nothing
  BY WsType, SpawnAssumption
<1>3. \A p \in projects' : p \in projects \/ p = Project(r, Body[r].path, sel[r])
  BY DEF CarryOut
<1>4. QED
  BY <1>1, <1>2, <1>3 DEF Project, T3Type

LEMMA HandlerStepType ==
  ASSUME TypeOK, NEW r \in Req, Handler(r) \/ Arrive(r)
  PROVE  TypeOK'
<1> USE DEF TypeOK
<1>1. CASE Arrive(r)
  <2>1. HandlerType'
    BY <1>1 DEF Arrive, HandlerType, Places, Open, Calls, Command
  <2>2. HistoryType'
    BY <1>1 DEF Arrive, HistoryType, Rivals
  <2>3. QED
    BY <1>1, <2>1, <2>2 DEF Arrive, FileType, T3Type
<1>2. CASE ExecStarts(r)
  <2>1. PICK n \in 0..Size[r] : input' = [input EXCEPT ![r] = n]
    BY <1>2 DEF ExecStarts
  <2>2. Size[r] \in 1..MaxSize /\ MaxSize \in Nat
    BY SpawnAssumption
  <2>3. input' \in [Req -> 0..MaxSize] /\ \A s \in Req : input'[s] <= Size[s]
    BY <2>1, <2>2 DEF FileType
  <2>4. shell' \in [Req -> Shells]
    BY <1>2 DEF ExecStarts, FileType, Shells
  <2>5. \A s \in Req :
          /\ shell'[s] \in {"off", "open"} => pos'[s] = 0
          /\ shell'[s] = "cat" => fd'[s] \in Req /\ pos'[s] <= input'[s]
    BY <1>2, <2>1 DEF ExecStarts, FileType
  <2>6. FileType'
    BY <1>2, <2>3, <2>4, <2>5 DEF ExecStarts, FileType
  <2>7. faults' \in Nat /\ HistoryType'
    BY <1>2, FaultType DEF ExecStarts, HistoryType
  <2>8. QED
    BY <1>2, <2>6, <2>7 DEF ExecStarts, HandlerType, T3Type
<1>3. CASE ExecEnds(r)
  <2>1. PICK p \in {"snapshot", "failed"} : at' = [at EXCEPT ![r] = p]
    BY <1>3 DEF ExecEnds
  <2>2. HandlerType'
    BY <1>3, <2>1, MoveType DEF ExecEnds, Places, Open, Calls, Command
  <2>3. QED
    BY <1>3, <2>2 DEF ExecEnds, FileType, T3Type, HistoryType
<1>4. CASE ExecLost(r)
  <2>1. HandlerType'
    BY <1>4, MoveType DEF ExecLost, Places, Open, Calls, Command
  <2>2. QED
    BY <1>4, <2>1, FaultType DEF ExecLost, FileType, T3Type, HistoryType
<1>5. CASE ExecFails(r)
  <2>1. HandlerType'
    BY <1>5, MoveType DEF ExecFails, Places, Open, Calls, Command
  <2>2. QED
    BY <1>5, <2>1, FaultType DEF ExecFails, FileType, T3Type, HistoryType
<1>6. CASE SnapshotRead(r)
  <2>1. PICK p \in {"thread", "project"} : GoOn(r, p)
    BY <1>6 DEF SnapshotRead
  <2>2. PICK x : x # Nothing /\ proj' = [proj EXCEPT ![r] = x]
    BY <1>6, SpawnAssumption DEF SnapshotRead, projectForWorkspace, T3Type
  <2>3. DOMAIN sel' = Req
    BY <1>6 DEF SnapshotRead, HandlerType
  <2>4. at' \in [Req -> Places] /\ try' \in [Req -> {"first", "refresh", "second"}]
    BY <2>1 DEF GoOn, HandlerType, Places, Open, Calls, Command
  <2>5. \A s \in Req : at'[s] \in Command \cup {"ok"} => proj'[s] # Nothing
    BY <2>1, <2>2 DEF GoOn, HandlerType
  <2>6. HandlerType'
    BY <2>1, <2>2, <2>3, <2>4, <2>5 DEF GoOn, HandlerType
  <2>7. QED
    BY <1>6, <2>1, <2>6 DEF SnapshotRead, GoOn, FileType, T3Type, HistoryType
<1>7. CASE Dispatched(r)
  <2>1. at[r] \in Command /\ CarryOut(r, at[r]) /\ GoOn(r, Next1[at[r]])
    BY <1>7 DEF Dispatched
  <2>2. Next1[at[r]] \in Places
    BY <2>1 DEF Next1, Command, Places, Open, Calls
  <2>3. HandlerType'
    BY <1>7, <2>1, <2>2, MoveType DEF Dispatched, GoOn, HandlerType
  <2>4. T3Type'
    BY <1>7, <2>1, CarryType DEF Dispatched, T3Type
  <2>5. QED
    BY <1>7, <2>1, <2>3, <2>4 DEF Dispatched, GoOn, FileType, HistoryType
<1>8. CASE Refused(r)
  BY <1>8 DEF Refused, HandlerType, FileType, T3Type, HistoryType
<1>9. CASE Refreshed(r)
  <2>1. HandlerType'
    BY <1>9 DEF Refreshed, HandlerType
  <2>2. HistoryType' /\ faults' \in Nat
    BY <1>9, FaultType DEF Refreshed, HistoryType
  <2>3. QED
    BY <1>9, <2>1, <2>2 DEF Refreshed, FileType, T3Type
<1>10. CASE StaysRefused(r)
  <2>1. HandlerType'
    BY <1>10, MoveType DEF StaysRefused, Places, Open, Calls, Command
  <2>2. QED
    BY <1>10, <2>1, FaultType DEF StaysRefused, FileType, T3Type, HistoryType
<1>11. CASE CallFails(r)
  <2>1. HandlerType'
    BY <1>11, MoveType DEF CallFails, Places, Open, Calls, Command
  <2>2. QED
    BY <1>11, <2>1, FaultType DEF CallFails, FileType, T3Type, HistoryType
<1>12. CASE Timeout(r)
  <2>1. HandlerType'
    BY <1>12, MoveType DEF Timeout, Places, Open, Calls, Command
  <2>2. T3Type'
    BY <1>12 DEF Timeout, T3Type
  <2>3. QED
    BY <1>12, <2>1, <2>2, FaultType DEF Timeout, FileType, HistoryType
<1>13. QED
  BY <1>1, <1>2, <1>3, <1>4, <1>5, <1>6, <1>7, <1>8, <1>9, <1>10, <1>11, <1>12 DEF Handler

LEMMA ShellType ==
  ASSUME TypeOK, NEW r \in Req, Shell(r)
  PROVE  TypeOK'
<1>0. Ws(r) \in Workspace
  BY WsType
<1>1. FileType'
  <2> USE DEF TypeOK
  <2>1. CASE ShellOpens(r)
    <3> DEFINE i == IF tmp[Ws(r)] = Nothing THEN r ELSE tmp[Ws(r)]
    <3>1. i \in Req
      BY <1>0 DEF FileType, Inode
    <3>2. /\ shell' = [shell EXCEPT ![r] = "cat"]
          /\ fd' = [fd EXCEPT ![r] = i]
          /\ tmp' = [tmp EXCEPT ![Ws(r)] = i]
          /\ content' = [content EXCEPT ![i] = Blank]
          /\ UNCHANGED <<pos, input, target>>
      BY <2>1 DEF ShellOpens
    <3> HIDE DEF i
    <3>3. content' \in [Req -> [1..MaxSize -> Inode]]
      BY <3>1, <3>2 DEF FileType, Blank, Inode
    <3>4. /\ fd' \in [Req -> Inode]
          /\ tmp' \in [Workspace -> Inode]
          /\ shell' \in [Req -> Shells]
      BY <1>0, <3>1, <3>2 DEF FileType, Inode, Shells
    <3>5. \A s \in Req :
            /\ shell'[s] \in {"off", "open"} => pos'[s] = 0
            /\ shell'[s] = "cat" => fd'[s] \in Req /\ pos'[s] <= input'[s]
      <4>1. pos[r] = 0 /\ input[r] \in 0..MaxSize
        BY <2>1 DEF ShellOpens, FileType
      <4>2. QED
        BY <3>1, <3>2, <4>1, SpawnAssumption DEF FileType
    <3>6. QED
      BY <3>2, <3>3, <3>4, <3>5 DEF FileType
  <2>2. CASE ShellWrites(r)
    <3>1. /\ fd[r] \in Req
          /\ pos[r] + 1 \in 1..MaxSize
          /\ pos[r] + 1 <= input[r]
      BY <2>2, SpawnAssumption DEF ShellWrites, FileType
    <3>2. content' \in [Req -> [1..MaxSize -> Inode]]
      BY <2>2, <3>1 DEF ShellWrites, FileType, Inode
    <3>3. pos' = [pos EXCEPT ![r] = pos[r] + 1] /\ UNCHANGED <<shell, fd, input, tmp, target>>
      BY <2>2 DEF ShellWrites
    <3>4. pos' \in [Req -> 0..MaxSize]
      BY <3>1, <3>3, SpawnAssumption DEF FileType
    <3>5. \A s \in Req :
            /\ shell'[s] \in {"off", "open"} => pos'[s] = 0
            /\ shell'[s] = "cat" => fd'[s] \in Req /\ pos'[s] <= input'[s]
      BY <2>2, <3>1, <3>3 DEF ShellWrites, FileType
    <3>6. QED
      BY <3>2, <3>3, <3>4, <3>5 DEF FileType
  <2>3. CASE ShellReadsEOF(r)
    BY <2>3 DEF ShellReadsEOF, FileType, Shells
  <2>4. CASE ShellMoves(r)
    <3>1. /\ tmp' \in [Workspace -> Inode]
          /\ target' \in [Workspace -> Inode]
          /\ shell' \in [Req -> Shells]
          /\ \A s \in Req : shell'[s] = shell[s] \/ shell'[s] \in {"exit0", "exit1"}
      BY <1>0, <2>4 DEF ShellMoves, FileType, Shells, Inode
    <3>2. QED
      BY <2>4, <3>1 DEF ShellMoves, FileType
  <2>5. CASE ShellFails(r)
    BY <2>5 DEF ShellFails, FileType, Shells
  <2>6. QED
    BY <2>1, <2>2, <2>3, <2>4, <2>5 DEF Shell
<1>2. UNCHANGED Outside /\ (Fault \/ UNCHANGED faults)
  BY DEF Shell, ShellOpens, ShellWrites, ShellReadsEOF, ShellMoves, ShellFails
<1>3. QED
  BY <1>1, <1>2, FaultType DEF TypeOK, HandlerType, T3Type, HistoryType

LEMMA LateType ==
  ASSUME TypeOK, NEW r \in Req, LateCommand(r)
  PROVE  TypeOK'
<1>1. late[r] \in Command /\ (CarryOut(r, late[r]) \/ UNCHANGED <<carried, projects>>)
  BY DEF LateCommand, TypeOK, T3Type
<1>2. T3Type'
  BY <1>1, CarryType DEF LateCommand, TypeOK, T3Type
<1>3. QED
  BY <1>2 DEF LateCommand, TypeOK, HandlerType, FileType, HistoryType

\* The handlers, the shells, the files and t3 keep their types.
THEOREM TypeCorrect == Spec => []TypeOK
<1>1. TypeOK /\ [Next]_vars => TypeOK'
  <2>1. ASSUME TypeOK, Revoke PROVE TypeOK'
    BY <2>1 DEF Revoke, TypeOK, HandlerType, FileType, T3Type, HistoryType
  <2>2. ASSUME TypeOK, UNCHANGED vars PROVE TypeOK'
    BY <2>2 DEF vars, TypeOK, HandlerType, FileType, T3Type, HistoryType
  <2>3. QED
    BY <2>1, <2>2, HandlerStepType, ShellType, LateType DEF Next
<1>2. QED
  BY <1>1, InitType, PTL DEF Spec

-----------------------------------------------------------------------------
(***************************************************************************)
(* The inductive invariants.                                               *)
(***************************************************************************)
\* What a request has, and has not, made at each stage.
StageInv(r) ==
  /\ \A c \in Command : carried[r][c] \in {0, 1}
  /\ at[r] \in {"idle", "exec", "snapshot", "project"} => carried[r]["project"] = 0
  /\ at[r] \in {"idle", "exec", "snapshot", "project", "thread"} => carried[r]["thread"] = 0
  /\ at[r] \in {"idle", "exec", "snapshot", "project", "thread", "turn"} =>
       carried[r]["turn"] = 0
  /\ at[r] \in {"turn", "ok"} => carried[r]["thread"] = 1
  /\ at[r] = "ok" => carried[r]["turn"] = 1
  /\ late[r] # Nothing => at[r] = "failed" /\ carried[r][late[r]] = 0
  /\ carried[r]["turn"] = 1 \/ late[r] = "turn" => carried[r]["thread"] = 1
  /\ at[r] = "project" \/ late[r] = "project" => proj[r] = r
  /\ at[r] \in {"thread", "turn", "ok"} \/ carried[r]["thread"] = 1 \/ late[r] = "thread" =>
       ProjectExists(proj[r], Ws(r))
  /\ at[r] \in Command \cup {"ok"} \/ carried[r]["thread"] = 1 \/ late[r] = "thread" =>
       sel[r].instance = providerInstanceID(Body[r].agent)

\* A copy of the token is as old as the refresh that brought it, so that one
\* more refresh takes one more revocation.
RefreshInv(r) ==
  /\ gen \in Nat \ {0}
  /\ at[r] # "idle" =>
       /\ since[r] \in 1..gen
       /\ refreshes[r] + since[r] <= 1 + gen
  /\ at[r] \in {"idle", "exec"} => refreshes[r] = 0 /\ try[r] = "first"
  /\ at[r] \in Calls =>
       /\ try[r] = "first" /\ refreshes[r] > 0 =>
            tok[r] \in 0..gen /\ refreshes[r] + since[r] <= 1 + tok[r]
       /\ try[r] = "refresh" => refreshes[r] + since[r] <= gen
       /\ try[r] = "second" => tok[r] = fresh[r]

\* A request that never met another one of its workspace has none beside it.
MeetInv(r) == r \notin overlapped /\ Busy(r) => Rivals(r) = {}

Creating(r) == at[r] = "project" \/ late[r] = "project"

\* Such a request creates a project only where there is none.
ProjectInv ==
  /\ OneProject
  /\ \A r \in Req : r \notin overlapped /\ Creating(r) =>
       \A p \in projects : Clean[p.path] # Ws(r)

\* The files of a workspace are made by its own requests.
OwnInv ==
  /\ \A r \in Req : fd[r] # Nothing => Ws(fd[r]) = Ws(r)
  /\ \A w \in Workspace :
       /\ tmp[w] # Nothing => Ws(tmp[w]) = w
       /\ target[w] # Nothing => Ws(target[w]) = w

Part(r, n) == [k \in 1..MaxSize |-> IF k <= n THEN r ELSE Nothing]

\* How the scope of a request that is alone gets into place.
ScopeInv(r) ==
  /\ at[r] = "idle" => shell[r] = "off"
  /\ r \notin overlapped \cup cut =>
       /\ shell[r] \in {"open", "cat"} => input[r] = Size[r]
       /\ shell[r] = "cat" => tmp[Ws(r)] = fd[r] /\ content[fd[r]] = Part(r, pos[r])
       /\ shell[r] = "mv" => tmp[Ws(r)] # Nothing /\ content[tmp[Ws(r)]] = Part(r, Size[r])
       /\ shell[r] = "exit0" /\ at[r] \in Open =>
            target[Ws(r)] # Nothing /\ content[target[Ws(r)]] = Part(r, Size[r])
       /\ at[r] \in Calls => shell[r] = "exit0"

-----------------------------------------------------------------------------
(***************************************************************************)
(* The stages.                                                             *)
(***************************************************************************)
LEMMA SelectionFor ==
  ASSUME NEW agent, NEW existing
  PROVE  modelSelectionFor(agent, existing).instance = providerInstanceID(agent)
BY DEF modelSelectionFor

\* A step of one request keeps StageInv of the others.
LEMMA StageFrame ==
  ASSUME NEW s \in Req, StageInv(s), projects \subseteq projects',
         at'[s] = at[s], proj'[s] = proj[s], sel'[s] = sel[s],
         carried'[s] = carried[s], late'[s] = late[s]
  PROVE  StageInv(s)'
<1>1. ProjectExists(proj[s], Ws(s)) => ProjectExists(proj[s], Ws(s))'
  BY DEF ProjectExists, Ws
<1>2. QED
  BY <1>1 DEF StageInv

\* So does a step from a stage to an equal or earlier one, or to failure.
LEMMA StageStays ==
  ASSUME NEW s \in Req, StageInv(s), UNCHANGED <<proj, sel, t3>>,
         \/ at'[s] = at[s]
         \/ at'[s] = "failed"
         \/ at[s] \in {"idle", "exec"} /\ at'[s] \in {"exec", "snapshot"}
  PROVE  StageInv(s)'
<1>1. ProjectExists(proj[s], Ws(s)) <=> ProjectExists(proj[s], Ws(s))'
  BY DEF ProjectExists, Ws
<1>2. CASE at'[s] = at[s]
  BY <1>1, <1>2 DEF StageInv
<1>3. CASE at'[s] = "failed"
  BY <1>1, <1>3 DEF StageInv, Command
<1>4. CASE at[s] \in {"idle", "exec"} /\ at'[s] \in {"exec", "snapshot"}
  BY <1>1, <1>4 DEF StageInv, Command
<1>5. QED
  BY <1>2, <1>3, <1>4

LEMMA StageSnapshot ==
  ASSUME TypeOK, NEW r \in Req, StageInv(r), SnapshotRead(r)
  PROVE  StageInv(r)'
<1>1. at[r] = "snapshot" /\ late[r] = Nothing /\ UNCHANGED t3
  BY DEF SnapshotRead, StageInv
<1>2. at \in [Req -> Places] /\ DOMAIN proj = Req /\ DOMAIN sel = Req
  BY DEF TypeOK, HandlerType
<1>3. sel'[r].instance = providerInstanceID(Body[r].agent)
  BY <1>2, SelectionFor DEF SnapshotRead
<1>4. \/ at'[r] = "thread" /\ ProjectExists(proj[r], Ws(r))'
      \/ at'[r] = "project" /\ proj'[r] = r
  <2>1. CASE \E p \in projectForWorkspace(r) :
               proj' = [proj EXCEPT ![r] = p.id] /\ GoOn(r, "thread")
    <3>1. PICK p \in projectForWorkspace(r) :
                 proj' = [proj EXCEPT ![r] = p.id] /\ GoOn(r, "thread")
      BY <2>1
    <3>2. p \in projects' /\ Clean[p.path] = Ws(r) /\ proj'[r] = p.id
      BY <1>1, <1>2, <3>1 DEF projectForWorkspace
    <3>3. QED
      BY <1>2, <3>1, <3>2 DEF GoOn, ProjectExists, Ws
  <2>2. CASE proj' = [proj EXCEPT ![r] = r] /\ GoOn(r, "project")
    BY <1>2, <2>2 DEF GoOn
  <2>3. QED
    BY <2>1, <2>2 DEF SnapshotRead
<1>5. QED
  BY <1>1, <1>3, <1>4 DEF StageInv, Command, Nothing

\* What carrying out a command adds.
LEMMA CarryAdds ==
  ASSUME TypeOK, NEW r \in Req, NEW c \in Command, CarryOut(r, c)
  PROVE  /\ projects \subseteq projects'
         /\ \A s \in Req \ {r} : carried'[s] = carried[s]
         /\ carried'[r][c] = carried[r][c] + 1
         /\ \A d \in Command \ {c} : carried'[r][d] = carried[r][d]
         /\ c = "project" => Project(r, Body[r].path, sel[r]) \in projects'
BY DEF CarryOut, TypeOK, T3Type

LEMMA StageDispatched ==
  ASSUME TypeOK, NEW r \in Req, StageInv(r), Dispatched(r)
  PROVE  StageInv(r)'
<1>1. PICK c \in Command : at[r] = c /\ CarryOut(r, c) /\ GoOn(r, Next1[c])
  BY DEF Dispatched
<1>2. at \in [Req -> Places] /\ UNCHANGED <<proj, sel, late>>
  BY DEF Dispatched, TypeOK, HandlerType
<1>3. at'[r] = Next1[c]
  BY <1>1, <1>2 DEF GoOn
<1>4. ProjectExists(proj[r], Ws(r)) => ProjectExists(proj[r], Ws(r))'
  BY <1>1, <1>2, CarryAdds DEF ProjectExists, Ws
<1>5. CASE c = "project"
  <2>1. ProjectExists(proj[r], Ws(r))'
    BY <1>1, <1>2, <1>5, CarryAdds DEF StageInv, ProjectExists, Project, Ws
  <2>2. at'[r] = "thread"
    BY <1>3, <1>5 DEF Next1
  <2>3. QED
    BY <1>1, <1>2, <1>5, <2>1, <2>2, CarryAdds DEF StageInv, Command, Nothing
<1>6. CASE c = "thread"
  <2>1. at'[r] = "turn"
    BY <1>3, <1>6 DEF Next1
  <2>2. QED
    BY <1>1, <1>2, <1>4, <1>6, <2>1, CarryAdds DEF StageInv, Command, Nothing
<1>7. CASE c = "turn"
  <2>1. at'[r] = "ok"
    BY <1>3, <1>7 DEF Next1
  <2>2. QED
    BY <1>1, <1>2, <1>4, <1>7, <2>1, CarryAdds DEF StageInv, Command, Nothing
<1>8. QED
  BY <1>5, <1>6, <1>7 DEF Command

LEMMA StageLate ==
  ASSUME TypeOK, NEW r \in Req, StageInv(r), LateCommand(r)
  PROVE  StageInv(r)'
<1>1. PICK c \in Command : late[r] = c
  BY DEF LateCommand, TypeOK, T3Type
<1>2. at[r] = "failed" /\ carried[r][c] = 0 /\ UNCHANGED <<at, proj, sel>> /\ late'[r] = Nothing
  BY <1>1 DEF LateCommand, StageInv, TypeOK, T3Type
<1>3. CASE UNCHANGED <<carried, projects>>
  BY <1>2, <1>3 DEF StageInv, ProjectExists, Ws, Command, Nothing
<1>4. CASE CarryOut(r, c)
  <2>1. ProjectExists(proj[r], Ws(r)) => ProjectExists(proj[r], Ws(r))'
    BY <1>2, <1>4, CarryAdds DEF ProjectExists, Ws
  <2>2. QED
    BY <1>1, <1>2, <1>4, <2>1, CarryAdds DEF StageInv, Command, Nothing
<1>5. QED
  BY <1>1, <1>3, <1>4 DEF LateCommand

LEMMA StageTimeout ==
  ASSUME TypeOK, NEW r \in Req, StageInv(r), Timeout(r)
  PROVE  StageInv(r)'
<1>1. /\ at[r] \in Command
      /\ at'[r] = "failed" /\ late'[r] = at[r]
      /\ UNCHANGED <<proj, sel, carried, projects>>
  BY DEF Timeout, TypeOK, HandlerType, T3Type
<1>2. ProjectExists(proj[r], Ws(r)) <=> ProjectExists(proj[r], Ws(r))'
  BY <1>1 DEF ProjectExists, Ws
<1>3. QED
  BY <1>1, <1>2 DEF StageInv, Command, Nothing

LEMMA StageStep ==
  ASSUME TypeOK, \A s \in Req : StageInv(s), Next
  PROVE  \A s \in Req : StageInv(s)'
<1>1. CASE Revoke
  BY <1>1, StageStays DEF Revoke
<1>2. ASSUME NEW r \in Req, Arrive(r) \/ Handler(r) \/ Shell(r) \/ LateCommand(r),
             NEW s \in Req
      PROVE  StageInv(s)'
  <2> USE DEF TypeOK, HandlerType, T3Type
  <2>1. CASE Shell(r)
    <3>1. UNCHANGED Outside
      BY <2>1 DEF Shell, ShellOpens, ShellWrites, ShellReadsEOF, ShellMoves, ShellFails
    <3>2. QED
      BY <3>1, StageStays
  <2>2. CASE \/ Arrive(r) \/ ExecStarts(r) \/ ExecEnds(r) \/ ExecLost(r) \/ ExecFails(r)
             \/ Refused(r) \/ Refreshed(r) \/ StaysRefused(r) \/ CallFails(r)
    <3>1. /\ UNCHANGED <<proj, sel, t3>>
          /\ \/ at'[s] = at[s]
             \/ at'[s] = "failed"
             \/ at[s] \in {"idle", "exec"} /\ at'[s] \in {"exec", "snapshot"}
      BY <2>2 DEF Arrive, ExecStarts, ExecEnds, ExecLost, ExecFails, Refused, Refreshed,
                  StaysRefused, CallFails
    <3>2. QED
      BY <3>1, StageStays
  <2>3. CASE SnapshotRead(r) \/ Dispatched(r) \/ Timeout(r) \/ LateCommand(r)
    <3>1. CASE s = r
      BY <2>3, <3>1, StageSnapshot, StageDispatched, StageTimeout, StageLate
    <3>2. CASE s # r
      <4>1. at'[s] = at[s] /\ proj'[s] = proj[s] /\ sel'[s] = sel[s] /\ late'[s] = late[s]
        BY <2>3, <3>2 DEF SnapshotRead, Dispatched, Timeout, LateCommand, GoOn
      <4>2. projects \subseteq projects' /\ carried'[s] = carried[s]
        BY <2>3, <3>2, CarryAdds DEF SnapshotRead, Dispatched, Timeout, LateCommand
      <4>3. QED
        BY <4>1, <4>2, StageFrame
    <3>3. QED
      BY <3>1, <3>2
  <2>4. QED
    BY <1>2, <2>1, <2>2, <2>3 DEF Handler
<1>3. QED
  BY <1>1, <1>2 DEF Next

LEMMA StagesHold == Spec => [](\A s \in Req : StageInv(s))
<1>1. Init => \A s \in Req : StageInv(s)
  BY DEF Init, StageInv, Command, Nothing
<1>2. TypeOK /\ (\A s \in Req : StageInv(s)) /\ [Next]_vars => (\A s \in Req : StageInv(s))'
  <2>1. ASSUME \A s \in Req : StageInv(s), UNCHANGED vars PROVE \A s \in Req : StageInv(s)'
    BY <2>1, StageStays DEF vars
  <2>2. QED
    BY <2>1, StageStep
<1>3. QED
  BY <1>1, <1>2, TypeCorrect, PTL DEF Spec

\* A request that is answered has one thread with one turn, in a project of
\* its workspace.
THEOREM AnswerIsTrue == Spec => []OkMeansStarted
<1>1. (\A s \in Req : StageInv(s)) => OkMeansStarted
  BY DEF StageInv, OkMeansStarted
<1>2. QED
  BY <1>1, StagesHold, PTL

\* Refusals, refreshes, timeouts and late work never repeat a command.
THEOREM NothingTwice == Spec => []CommandsOnce
<1>1. (\A s \in Req : StageInv(s)) => CommandsOnce
  BY DEF StageInv, CommandsOnce
<1>2. QED
  BY <1>1, StagesHold, PTL

\* Wherever a request fails, no thread lacks its project, no turn its thread.
THEOREM NothingDangles == Spec => []NoDangling
<1>1. (\A s \in Req : StageInv(s)) => NoDangling
  BY DEF StageInv, NoDangling, Made, Command
<1>2. QED
  BY <1>1, StagesHold, PTL

\* The thread runs under the agent of the request, whatever the project says.
THEOREM AgentKept == Spec => []AgentRespected
<1>1. (\A s \in Req : StageInv(s)) => AgentRespected
  BY DEF StageInv, AgentRespected, Made, Command
<1>2. QED
  BY <1>1, StagesHold, PTL

-----------------------------------------------------------------------------
(***************************************************************************)
(* The refreshes.                                                          *)
(***************************************************************************)
\* A step of one request, of a shell or of t3 keeps RefreshInv of the others.
LEMMA RefreshStays ==
  ASSUME TypeOK, NEW s \in Req, RefreshInv(s), gen' = gen \/ gen' = gen + 1,
         try'[s] = try[s], tok'[s] = tok[s], fresh'[s] = fresh[s],
         since'[s] = since[s], refreshes'[s] = refreshes[s],
         \/ at'[s] = at[s]
         \/ at'[s] = "failed" /\ at[s] # "idle"
         \/ at[s] = "exec" /\ at'[s] = "snapshot"
  PROVE  RefreshInv(s)'
<1>1. /\ gen \in Nat /\ gen' \in Nat /\ gen <= gen'
      /\ since[s] \in Nat /\ refreshes[s] \in Nat /\ tok[s] \in Nat
  BY DEF TypeOK, HandlerType, HistoryType
<1>2. CASE at'[s] = at[s]
  BY <1>1, <1>2 DEF RefreshInv
<1>3. CASE at'[s] = "failed" /\ at[s] # "idle"
  BY <1>1, <1>3 DEF RefreshInv, Calls, Command
<1>4. CASE at[s] = "exec" /\ at'[s] = "snapshot"
  BY <1>1, <1>4 DEF RefreshInv, Calls, Command
<1>5. QED
  BY <1>2, <1>3, <1>4

\* A call is accepted and the next one starts with its first attempt.
LEMMA RefreshGoesOn ==
  ASSUME TypeOK, NEW r \in Req, RefreshInv(r), Trying(r), Accepted(r),
         NEW p \in Command \cup {"ok"}, GoOn(r, p)
  PROVE  RefreshInv(r)'
<1>1. /\ gen \in Nat /\ since[r] \in Nat /\ refreshes[r] \in Nat /\ tok[r] \in Nat
      /\ at'[r] = p /\ try'[r] = "first" /\ at[r] \in Calls
      /\ UNCHANGED <<tok, gen, since, refreshes>>
  BY DEF TypeOK, HandlerType, HistoryType, GoOn, Trying
<1>2. tok[r] = gen
  BY <1>1 DEF Accepted, Trying, RefreshInv
<1>3. at[r] # "idle"
  BY <1>1 DEF Calls, Command
<1>4. QED
  BY <1>1, <1>2, <1>3 DEF RefreshInv, Calls, Command

LEMMA RefreshOwn ==
  ASSUME TypeOK, NEW r \in Req, RefreshInv(r),
         Arrive(r) \/ Refused(r) \/ Refreshed(r)
  PROVE  RefreshInv(r)'
<1>1. /\ gen \in Nat /\ since[r] \in Nat /\ refreshes[r] \in Nat /\ tok[r] \in Nat
  BY DEF TypeOK, HandlerType, HistoryType
<1>2. CASE Arrive(r)
  <2>1. at'[r] = "exec" /\ since'[r] = gen /\ UNCHANGED <<try, refreshes, gen>> /\ at[r] = "idle"
    BY <1>2 DEF Arrive, TypeOK, HandlerType, HistoryType
  <2>2. QED
    BY <1>1, <2>1 DEF RefreshInv, Calls, Command
<1>3. CASE Refused(r)
  <2>1. /\ at[r] \in Calls /\ try[r] = "first" /\ gen # tok[r] /\ try'[r] = "refresh"
        /\ UNCHANGED <<at, tok, fresh, since, refreshes, gen>>
    BY <1>3 DEF Refused, Accepted, TypeOK, HandlerType
  <2>2. at[r] # "idle" /\ at[r] # "exec"
    BY <2>1 DEF Calls, Command
  <2>3. QED
    BY <1>1, <2>1, <2>2 DEF RefreshInv
<1>4. CASE Refreshed(r)
  <2>1. PICK t \in {0, gen} :
          /\ fresh' = [fresh EXCEPT ![r] = t]
          /\ tok' = [tok EXCEPT ![r] = t]
    BY <1>4 DEF Refreshed
  <2>2. /\ at[r] \in Calls /\ try[r] = "refresh" /\ try'[r] = "second"
        /\ refreshes'[r] = refreshes[r] + 1 /\ tok'[r] = fresh'[r]
        /\ UNCHANGED <<at, since, gen>>
    BY <1>4, <2>1 DEF Refreshed, TypeOK, HandlerType, HistoryType
  <2>3. at[r] # "idle" /\ at[r] # "exec"
    BY <2>2 DEF Calls, Command
  <2>4. QED
    BY <1>1, <2>2, <2>3 DEF RefreshInv
<1>5. QED
  BY <1>2, <1>3, <1>4

LEMMA RefreshStep ==
  ASSUME TypeOK, \A s \in Req : RefreshInv(s), Next
  PROVE  \A s \in Req : RefreshInv(s)'
<1>1. CASE Revoke
  BY <1>1, RefreshStays DEF Revoke
<1>2. ASSUME NEW r \in Req, Arrive(r) \/ Handler(r) \/ Shell(r) \/ LateCommand(r),
             NEW s \in Req
      PROVE  RefreshInv(s)'
  <2>1. CASE Shell(r) \/ LateCommand(r)
    <3>1. UNCHANGED <<handler, gen, history>>
      BY <2>1 DEF Shell, ShellOpens, ShellWrites, ShellReadsEOF, ShellMoves, ShellFails,
                  LateCommand
    <3>2. QED
      BY <3>1, RefreshStays
  <2>2. CASE ExecStarts(r) \/ ExecEnds(r) \/ ExecLost(r) \/ ExecFails(r)
             \/ StaysRefused(r) \/ CallFails(r) \/ Timeout(r)
    <3>1. /\ UNCHANGED <<try, tok, fresh, gen, since, refreshes>>
          /\ \/ at'[s] = at[s]
             \/ at'[s] = "failed" /\ at[s] # "idle"
             \/ at[s] = "exec" /\ at'[s] = "snapshot"
      BY <2>2 DEF ExecStarts, ExecEnds, ExecLost, ExecFails, StaysRefused, CallFails, Timeout,
                  Trying, Calls, Command, TypeOK, HandlerType
    <3>2. QED
      BY <3>1, RefreshStays
  <2>3. CASE SnapshotRead(r) \/ Dispatched(r)
    <3>1. /\ Trying(r) /\ Accepted(r)
          /\ \E p \in Command \cup {"ok"} : GoOn(r, p)
      BY <2>3 DEF SnapshotRead, Dispatched, Next1, Command
    <3>2. CASE s = r
      BY <3>1, <3>2, RefreshGoesOn
    <3>3. CASE s # r
      <4>1. /\ UNCHANGED <<tok, fresh, gen, since, refreshes>>
            /\ at'[s] = at[s] /\ try'[s] = try[s]
        BY <2>3, <3>3 DEF SnapshotRead, Dispatched, GoOn, TypeOK, HandlerType
      <4>2. QED
        BY <4>1, RefreshStays
    <3>4. QED
      BY <3>2, <3>3
  <2>4. CASE Arrive(r) \/ Refused(r) \/ Refreshed(r)
    <3>1. CASE s = r
      BY <2>4, <3>1, RefreshOwn
    <3>2. CASE s # r
      <4>1. /\ gen' = gen /\ at'[s] = at[s] /\ try'[s] = try[s] /\ tok'[s] = tok[s]
            /\ fresh'[s] = fresh[s] /\ since'[s] = since[s] /\ refreshes'[s] = refreshes[s]
        BY <2>4, <3>2 DEF Arrive, Refused, Refreshed, TypeOK, HandlerType, HistoryType
      <4>2. QED
        BY <4>1, RefreshStays
    <3>3. QED
      BY <3>1, <3>2
  <2>5. QED
    BY <1>2, <2>1, <2>2, <2>3, <2>4 DEF Handler
<1>3. QED
  BY <1>1, <1>2 DEF Next

\* One refresh, and one more for every revocation since the request came.
THEOREM RefreshesCounted == Spec => []RefreshesBounded
<1>1. Init => \A s \in Req : RefreshInv(s)
  BY DEF Init, RefreshInv, Calls, Command
<1>2. TypeOK /\ (\A s \in Req : RefreshInv(s)) /\ [Next]_vars =>
        (\A s \in Req : RefreshInv(s))'
  <2>1. ASSUME TypeOK, \A s \in Req : RefreshInv(s), UNCHANGED vars
        PROVE  \A s \in Req : RefreshInv(s)'
    BY <2>1, RefreshStays DEF vars
  <2>2. QED
    BY <2>1, RefreshStep
<1>3. TypeOK /\ (\A s \in Req : RefreshInv(s)) => RefreshesBounded
  BY DEF RefreshInv, RefreshesBounded, TypeOK, HistoryType
<1>4. QED
  BY <1>1, <1>2, <1>3, TypeCorrect, PTL DEF Spec

-----------------------------------------------------------------------------
(***************************************************************************)
(* Requests that meet.                                                     *)
(***************************************************************************)
\* Only its arrival makes a request busy, and no step forgets a meeting.
LEMMA BusyFrom ==
  ASSUME TypeOK, [Next]_vars, NEW s \in Req, ~ Arrive(s)
  PROVE  Busy(s)' => Busy(s)
<1> USE DEF TypeOK, HandlerType, FileType, T3Type
<1>1. CASE Revoke \/ UNCHANGED vars
  BY <1>1 DEF Revoke, vars, Busy
<1>2. ASSUME NEW r \in Req, Arrive(r) \/ Handler(r) \/ Shell(r) \/ LateCommand(r), Busy(s)'
      PROVE  Busy(s)
  <2>1. CASE s # r
    <3>1. CASE Arrive(r)
      BY <1>2, <2>1, <3>1 DEF Arrive, Busy
    <3>2. CASE Handler(r)
      BY <1>2, <2>1, <3>2 DEF Handler, ExecStarts, ExecEnds, ExecLost, ExecFails,
           SnapshotRead, Dispatched, GoOn, Refused, Refreshed, StaysRefused, CallFails,
           Timeout, Busy
    <3>3. CASE Shell(r)
      BY <1>2, <2>1, <3>3 DEF Shell, ShellOpens, ShellWrites, ShellReadsEOF, ShellMoves,
           ShellFails, Busy
    <3>4. CASE LateCommand(r)
      BY <1>2, <2>1, <3>4 DEF LateCommand, Busy
    <3>5. QED
      BY <1>2, <3>1, <3>2, <3>3, <3>4
  <2>2. CASE s = r
    <3>1. at[s] \in Open \/ shell[s] \in {"open", "cat", "mv"} \/ late[s] # Nothing
      BY <1>2, <2>2 DEF Handler, ExecStarts, ExecEnds, ExecLost, ExecFails,
           SnapshotRead, Dispatched, Refused, Refreshed, StaysRefused, CallFails,
           Timeout, Shell, ShellOpens, ShellWrites, ShellReadsEOF, ShellMoves, ShellFails,
           LateCommand, Trying, Open, Calls
    <3>2. QED
      BY <3>1 DEF Busy
  <2>3. QED
    BY <2>1, <2>2
<1>3. QED
  BY <1>1, <1>2 DEF Next

LEMMA MeetStep ==
  ASSUME TypeOK, \A s \in Req : MeetInv(s), [Next]_vars
  PROVE  \A s \in Req : MeetInv(s)'
<1> SUFFICES ASSUME NEW s \in Req, s \notin overlapped', Busy(s)'
             PROVE  Rivals(s)' = {}
  BY DEF MeetInv
<1> SUFFICES ASSUME NEW q \in Req \ {s}, Ws(q) = Ws(s), Busy(q)'
             PROVE  FALSE
  BY DEF Rivals, Ws
<1>1. overlapped \subseteq overlapped'
  BY DEF Next, Revoke, vars, Arrive, Handler, ExecStarts, ExecEnds, ExecLost, ExecFails,
         SnapshotRead, Dispatched, GoOn, Refused, Refreshed, StaysRefused, CallFails, Timeout,
         Shell, ShellOpens, ShellWrites, ShellReadsEOF, ShellMoves, ShellFails, LateCommand
<1>2. CASE Arrive(s)
  <2>1. Busy(q)
    BY <1>2 DEF Arrive, Busy, TypeOK, HandlerType
  <2>2. q \in Rivals(s)
    BY <2>1 DEF Rivals
  <2>3. QED
    BY <1>2, <2>2 DEF Arrive
<1>3. CASE Arrive(q)
  <2>1. Busy(s)
    BY <1>3 DEF Arrive, Busy, TypeOK, HandlerType
  <2>2. s \in Rivals(q)
    BY <2>1 DEF Rivals
  <2>3. QED
    BY <1>3, <2>2 DEF Arrive
<1>4. CASE ~ Arrive(s) /\ ~ Arrive(q)
  <2>1. Busy(s) /\ Busy(q)
    BY <1>4, BusyFrom
  <2>2. q \in Rivals(s)
    BY <2>1 DEF Rivals
  <2>3. QED
    BY <1>1, <2>1, <2>2 DEF MeetInv
<1>5. QED
  BY <1>2, <1>3, <1>4

LEMMA MeetingsHold == Spec => [](\A s \in Req : MeetInv(s))
<1>1. Init => \A s \in Req : MeetInv(s)
  BY DEF Init, MeetInv, Busy, Open, Calls, Command
<1>2. TypeOK /\ (\A s \in Req : MeetInv(s)) /\ [Next]_vars => (\A s \in Req : MeetInv(s))'
  BY MeetStep
<1>3. QED
  BY <1>1, <1>2, TypeCorrect, PTL DEF Spec

\* What MeetInv says of two requests.
LEMMA Alone ==
  ASSUME NEW r \in Req, NEW s \in Req, MeetInv(r), r \notin overlapped, Busy(r),
         Ws(s) = Ws(r), Busy(s)
  PROVE  s = r
BY DEF MeetInv, Rivals

-----------------------------------------------------------------------------
(***************************************************************************)
(* One project for a workspace.                                            *)
(***************************************************************************)
LEMMA CreatingIsBusy == ASSUME NEW r \in Req, Creating(r) PROVE Busy(r)
BY DEF Creating, Busy, Open, Calls, Command, Nothing

\* A step either leaves the projects alone or creates the one of a request,
\* which then is done with creating.
LEMMA ProjectsFrom ==
  ASSUME TypeOK, \A s \in Req : StageInv(s), [Next]_vars
  PROVE  \/ UNCHANGED projects
         \/ \E r \in Req : /\ Creating(r) /\ ~ Creating(r)'
                          /\ projects' = projects \cup {Project(r, Body[r].path, sel[r])}
<1>1. ASSUME NEW r \in Req, Dispatched(r), ~ UNCHANGED projects
      PROVE  /\ Creating(r) /\ ~ Creating(r)'
             /\ projects' = projects \cup {Project(r, Body[r].path, sel[r])}
  <2>1. at[r] = "project"
    BY <1>1 DEF Dispatched, CarryOut
  <2>2. projects' = projects \cup {Project(r, Body[r].path, sel[r])} /\ UNCHANGED late
    BY <1>1, <2>1 DEF Dispatched, CarryOut
  <2>3. late[r] = Nothing
    BY <2>1 DEF StageInv
  <2>4. at'[r] = "thread"
    BY <1>1, <2>1 DEF Dispatched, GoOn, Next1, TypeOK, HandlerType
  <2>5. QED
    BY <2>1, <2>2, <2>3, <2>4 DEF Creating, Nothing
<1>2. ASSUME NEW r \in Req, LateCommand(r), ~ UNCHANGED projects
      PROVE  /\ Creating(r) /\ ~ Creating(r)'
             /\ projects' = projects \cup {Project(r, Body[r].path, sel[r])}
  <2>1. late[r] = "project" /\ CarryOut(r, "project") /\ UNCHANGED at
    BY <1>2 DEF LateCommand, CarryOut
  <2>2. late'[r] = Nothing
    BY <1>2 DEF LateCommand, TypeOK, T3Type
  <2>3. at[r] = "failed"
    BY <2>1 DEF StageInv, Nothing
  <2>4. QED
    BY <2>1, <2>2, <2>3 DEF Creating, CarryOut, Nothing
<1>3. ASSUME NEW r \in Req, Arrive(r) \/ Handler(r) \/ Shell(r), ~ Dispatched(r)
      PROVE  UNCHANGED projects
  BY <1>3 DEF Arrive, Handler, ExecStarts, ExecEnds, ExecLost, ExecFails, SnapshotRead, Refused,
       Refreshed, StaysRefused, CallFails, Timeout, Shell, ShellOpens, ShellWrites,
       ShellReadsEOF, ShellMoves, ShellFails
<1>4. QED
  BY <1>1, <1>2, <1>3 DEF Next, Revoke, vars

\* A request begins to create a project when it finds none.
LEMMA CreatingFrom ==
  ASSUME TypeOK, [Next]_vars, NEW s \in Req, Creating(s)', ~ Creating(s)
  PROVE  UNCHANGED projects /\ \A p \in projects : Clean[p.path] # Ws(s)
<1> USE DEF TypeOK, HandlerType, T3Type
<1>1. at[s] # "project" /\ late[s] # "project" /\ (at'[s] = "project" \/ late'[s] = "project")
  BY DEF Creating
<1>2. ASSUME NEW r \in Req, Handler(r)
      PROVE  SnapshotRead(s)
  <2>1. CASE ExecStarts(r) \/ ExecEnds(r) \/ ExecLost(r) \/ ExecFails(r)
    BY <1>1, <2>1 DEF ExecStarts, ExecEnds, ExecLost, ExecFails
  <2>2. CASE Refused(r) \/ Refreshed(r) \/ StaysRefused(r) \/ CallFails(r) \/ Timeout(r)
    BY <1>1, <2>2 DEF Refused, Refreshed, StaysRefused, CallFails, Timeout
  <2>3. CASE Dispatched(r)
    BY <1>1, <2>3 DEF Dispatched, Next1, Command, GoOn
  <2>4. CASE SnapshotRead(r)
    BY <1>1, <2>4 DEF SnapshotRead, GoOn
  <2>5. QED
    BY <1>2, <2>1, <2>2, <2>3, <2>4 DEF Handler
<1>3. ASSUME NEW r \in Req, Arrive(r) \/ Shell(r) \/ LateCommand(r)
      PROVE  FALSE
  BY <1>1, <1>3 DEF Arrive, Shell, ShellOpens, ShellWrites, ShellReadsEOF, ShellMoves,
       ShellFails, LateCommand, Nothing
<1>4. SnapshotRead(s)
  BY <1>1, <1>2, <1>3 DEF Next, Revoke, vars
<1>5. projectForWorkspace(s) = {}
  BY <1>1, <1>4 DEF SnapshotRead, GoOn
<1>6. QED
  BY <1>4, <1>5 DEF SnapshotRead, projectForWorkspace

LEMMA ProjectStep ==
  ASSUME TypeOK, \A s \in Req : MeetInv(s), \A s \in Req : StageInv(s), ProjectInv, [Next]_vars
  PROVE  ProjectInv'
<1>1. overlapped \subseteq overlapped'
  BY DEF Next, Revoke, vars, Arrive, Handler, ExecStarts, ExecEnds, ExecLost, ExecFails,
         SnapshotRead, Dispatched, GoOn, Refused, Refreshed, StaysRefused, CallFails, Timeout,
         Shell, ShellOpens, ShellWrites, ShellReadsEOF, ShellMoves, ShellFails, LateCommand
<1>2. CASE UNCHANGED projects
  <2>1. OneProject'
    BY <1>1, <1>2 DEF ProjectInv, OneProject
  <2>2. ASSUME NEW r \in Req, r \notin overlapped', Creating(r)', NEW p \in projects
        PROVE  Clean[p.path] # Ws(r)
    BY <1>1, <2>2, CreatingFrom DEF ProjectInv
  <2>3. QED
    BY <1>2, <2>1, <2>2 DEF ProjectInv, Ws
<1>3. ASSUME NEW r \in Req, Creating(r), ~ Creating(r)', ~ UNCHANGED projects,
             projects' = projects \cup {Project(r, Body[r].path, sel[r])}
      PROVE  ProjectInv'
  <2> DEFINE n == Project(r, Body[r].path, sel[r])
  <2>1. n.id = r /\ Clean[n.path] = Ws(r)
    BY DEF Project, Ws
  <2>2. projects' = projects \cup {n}
    BY <1>3
  <2> HIDE DEF n
  <2>3. r \notin overlapped => \A p \in projects : Clean[p.path] # Ws(r)
    BY <1>3 DEF ProjectInv
  <2>4. OneProject'
    BY <1>1, <2>1, <2>2, <2>3 DEF ProjectInv, OneProject
  <2>5. ASSUME NEW s \in Req, s \notin overlapped', Creating(s)', NEW p \in projects'
        PROVE  Clean[p.path] # Ws(s)
    <3>1. Creating(s) /\ s \notin overlapped
      BY <1>1, <1>3, <2>5, CreatingFrom
    <3>2. CASE p \in projects
      BY <3>1, <3>2 DEF ProjectInv
    <3>3. Ws(s) # Ws(r)
      BY <1>3, <2>5, <3>1, CreatingIsBusy, Alone
    <3>4. QED
      BY <2>1, <2>2, <3>2, <3>3
  <2>6. QED
    BY <2>4, <2>5 DEF ProjectInv, Ws
<1>4. QED
  BY <1>2, <1>3, ProjectsFrom

\* A second project of a workspace comes from requests that met.
THEOREM ProjectsDiffer == Spec => []OneProject
<1>1. Init => ProjectInv
  BY SpawnAssumption DEF Init, ProjectInv, OneProject, Creating, Nothing
<1>2. TypeOK /\ (\A s \in Req : MeetInv(s)) /\ (\A s \in Req : StageInv(s)) /\ ProjectInv
        /\ [Next]_vars => ProjectInv'
  BY ProjectStep
<1>3. ProjectInv => OneProject
  BY DEF ProjectInv
<1>4. QED
  BY <1>1, <1>2, <1>3, TypeCorrect, MeetingsHold, StagesHold, PTL DEF Spec

-----------------------------------------------------------------------------
(***************************************************************************)
(* The scope file.                                                         *)
(***************************************************************************)
LEMMA OwnStep ==
  ASSUME TypeOK, OwnInv, [Next]_vars
  PROVE  OwnInv'
<1> USE DEF TypeOK, FileType, Inode
<1>1. CASE UNCHANGED <<fd, tmp, target>>
  BY <1>1 DEF OwnInv, Ws
<1>2. ASSUME NEW r \in Req, ShellOpens(r) \/ ShellMoves(r)
      PROVE  OwnInv'
  <2>1. Ws(r) \in Workspace
    BY WsType
  <2>2. CASE ShellOpens(r)
    <3> DEFINE i == IF tmp[Ws(r)] = Nothing THEN r ELSE tmp[Ws(r)]
    <3>1. fd' = [fd EXCEPT ![r] = i] /\ tmp' = [tmp EXCEPT ![Ws(r)] = i] /\ UNCHANGED target
      BY <2>2 DEF ShellOpens
    <3>2. i \in Req /\ Ws(i) = Ws(r)
      BY <2>1 DEF OwnInv
    <3> HIDE DEF i
    <3>3. QED
      BY <2>1, <3>1, <3>2 DEF OwnInv, Ws
  <2>3. CASE ShellMoves(r)
    BY <2>1, <2>3 DEF ShellMoves, OwnInv, Ws
  <2>4. QED
    BY <1>2, <2>2, <2>3
<1>3. ASSUME NEW r \in Req, Arrive(r) \/ Handler(r) \/ Shell(r) \/ LateCommand(r),
             ~ ShellOpens(r), ~ ShellMoves(r)
      PROVE  UNCHANGED <<fd, tmp, target>>
  BY <1>3 DEF Arrive, Handler, ExecStarts, ExecEnds, ExecLost, ExecFails, SnapshotRead,
       Dispatched, GoOn, Refused, Refreshed, StaysRefused, CallFails, Timeout, Shell,
       ShellWrites, ShellReadsEOF, ShellFails, LateCommand
<1>4. QED
  BY <1>1, <1>2, <1>3 DEF Next, Revoke, vars

LEMMA OwnHolds == Spec => []OwnInv
<1>1. Init => OwnInv
  BY DEF Init, OwnInv
<1>2. TypeOK /\ OwnInv /\ [Next]_vars => OwnInv'
  BY OwnStep
<1>3. QED
  BY <1>1, <1>2, TypeCorrect, PTL DEF Spec

\* What a step of others must leave alone for a request that is alone.
LEMMA ScopeFrame ==
  ASSUME TypeOK, NEW s \in Req, ScopeInv(s),
         at'[s] = at[s], shell'[s] = shell[s], input'[s] = input[s], pos'[s] = pos[s],
         fd'[s] = fd[s], overlapped \subseteq overlapped', cut \subseteq cut',
         s \notin overlapped \cup cut /\ Busy(s) =>
           /\ tmp'[Ws(s)] = tmp[Ws(s)]
           /\ target'[Ws(s)] = target[Ws(s)]
           /\ \A i \in {fd[s], tmp[Ws(s)], target[Ws(s)]} \ {Nothing} : content'[i] = content[i]
  PROVE  ScopeInv(s)'
<1>1. CASE s \in overlapped' \cup cut'
  BY <1>1 DEF ScopeInv, Ws
<1>2. CASE s \notin overlapped' \cup cut' /\ ~ Busy(s)
  BY <1>2 DEF ScopeInv, Ws, Busy, Open
<1>3. CASE s \notin overlapped' \cup cut' /\ Busy(s)
  <2>1. s \notin overlapped \cup cut
    BY <1>3
  <2>2. /\ tmp'[Ws(s)] = tmp[Ws(s)]
        /\ target'[Ws(s)] = target[Ws(s)]
        /\ fd[s] # Nothing => content'[fd[s]] = content[fd[s]]
        /\ tmp[Ws(s)] # Nothing => content'[tmp[Ws(s)]] = content[tmp[Ws(s)]]
        /\ target[Ws(s)] # Nothing => content'[target[Ws(s)]] = content[target[Ws(s)]]
    BY <1>3, <2>1
  <2>3. shell[s] = "cat" => fd[s] # Nothing
    BY SpawnAssumption DEF TypeOK, FileType
  <2>4. Ws(s)' = Ws(s) /\ \A n \in Nat : Part(s, n)' = Part(s, n)
    BY DEF Ws, Part
  <2>5. /\ shell'[s] \in {"open", "cat"} => input'[s] = Size[s]
        /\ shell'[s] = "cat" => tmp'[Ws(s)] = fd'[s] /\ content'[fd'[s]] = Part(s, pos'[s])
        /\ shell'[s] = "mv" =>
             tmp'[Ws(s)] # Nothing /\ content'[tmp'[Ws(s)]] = Part(s, Size[s])
        /\ shell'[s] = "exit0" /\ at'[s] \in Open =>
             target'[Ws(s)] # Nothing /\ content'[target'[Ws(s)]] = Part(s, Size[s])
        /\ at'[s] \in Calls => shell'[s] = "exit0"
        /\ at'[s] = "idle" => shell'[s] = "off"
    BY <2>1, <2>2, <2>3 DEF ScopeInv
  <2>6. QED
    BY <2>5 DEF ScopeInv, Ws, Part
<1>4. QED
  BY <1>1, <1>2, <1>3

\* A shell step of another request does leave it alone.
LEMMA ScopeOther ==
  ASSUME TypeOK, OwnInv, NEW s \in Req, NEW r \in Req \ {s}, Shell(r),
         MeetInv(s), ScopeInv(s)
  PROVE  ScopeInv(s)'
<1> USE DEF TypeOK, FileType, Inode
<1>1. Ws(r) \in Workspace /\ Ws(s) \in Workspace /\ Nothing \notin Req
  BY WsType, SpawnAssumption
<1>2. /\ UNCHANGED Outside
      /\ shell'[s] = shell[s] /\ input'[s] = input[s] /\ pos'[s] = pos[s] /\ fd'[s] = fd[s]
  BY DEF Shell, ShellOpens, ShellWrites, ShellReadsEOF, ShellMoves, ShellFails
<1>3. ASSUME s \notin overlapped \cup cut, Busy(s)
      PROVE  /\ tmp'[Ws(s)] = tmp[Ws(s)]
             /\ target'[Ws(s)] = target[Ws(s)]
             /\ \A i \in {fd[s], tmp[Ws(s)], target[Ws(s)]} \ {Nothing} : content'[i] = content[i]
  <2>1. Busy(r)
    BY DEF Busy, Shell, ShellOpens, ShellWrites, ShellReadsEOF, ShellMoves, ShellFails
  <2>2. Ws(s) # Ws(r)
    BY <1>3, <2>1, Alone
  <2>3. \A i \in {fd[s], tmp[Ws(s)], target[Ws(s)]} \ {Nothing} : i \in Req /\ Ws(i) = Ws(s)
    BY <1>1 DEF OwnInv
  <2>4. CASE ShellOpens(r)
    <3>1. PICK j \in Req : Ws(j) = Ws(r) /\ content' = [content EXCEPT ![j] = Blank]
      BY <1>1, <2>4 DEF ShellOpens, OwnInv
    <3>2. QED
      BY <1>1, <2>2, <2>3, <2>4, <3>1 DEF ShellOpens
  <2>5. CASE ShellWrites(r)
    <3>1. fd[r] \in Req /\ Ws(fd[r]) = Ws(r)
      BY <1>1, <2>5 DEF ShellWrites, OwnInv
    <3>2. QED
      BY <1>1, <2>2, <2>3, <2>5, <3>1 DEF ShellWrites
  <2>6. CASE ShellReadsEOF(r) \/ ShellFails(r)
    BY <2>6 DEF ShellReadsEOF, ShellFails
  <2>7. CASE ShellMoves(r)
    BY <1>1, <2>2, <2>7 DEF ShellMoves
  <2>8. QED
    BY <2>4, <2>5, <2>6, <2>7 DEF Shell
<1>4. QED
  BY <1>2, <1>3, ScopeFrame

LEMMA PartGrows ==
  ASSUME NEW r, NEW n \in 0..MaxSize, MaxSize \in Nat
  PROVE  [Part(r, n) EXCEPT ![n + 1] = r] = Part(r, n + 1)
<1> DEFINE f == [Part(r, n) EXCEPT ![n + 1] = r]
<1>1. f = [k \in 1..MaxSize |-> IF k = n + 1 THEN r ELSE Part(r, n)[k]]
  BY DEF Part
<1>2. \A k \in 1..MaxSize : f[k] = IF k <= n + 1 THEN r ELSE Nothing
  BY <1>1 DEF Part
<1>3. QED
  BY <1>1, <1>2 DEF Part

\* The shell of a request that is alone: open, write, end of file, move.
LEMMA ScopeShell ==
  ASSUME TypeOK, NEW r \in Req, Shell(r), ScopeInv(r)
  PROVE  ScopeInv(r)'
<1> USE DEF TypeOK, FileType, Inode, HandlerType
<1>1. /\ Ws(r) \in Workspace /\ Nothing \notin Req
      /\ Size[r] \in 1..MaxSize /\ MaxSize \in Nat
  BY WsType, SpawnAssumption
<1>2. UNCHANGED <<at, overlapped, cut>> /\ at[r] # "idle"
  BY DEF Shell, ShellOpens, ShellWrites, ShellReadsEOF, ShellMoves, ShellFails, ScopeInv
<1> SUFFICES ASSUME r \notin overlapped \cup cut
             PROVE  ScopeInv(r)'
  BY <1>2 DEF ScopeInv
<1>3. at[r] \notin Calls
  BY DEF ScopeInv, Shell, ShellOpens, ShellWrites, ShellReadsEOF, ShellMoves, ShellFails
<1>4. CASE ShellOpens(r)
  <2> DEFINE i == IF tmp[Ws(r)] = Nothing THEN r ELSE tmp[Ws(r)]
  <2>1. i \in Req
    BY <1>1
  <2>2. /\ shell[r] = "open" /\ shell'[r] = "cat"
        /\ fd' = [fd EXCEPT ![r] = i] /\ tmp' = [tmp EXCEPT ![Ws(r)] = i]
        /\ content' = [content EXCEPT ![i] = Blank]
        /\ UNCHANGED <<pos, input>>
    BY <1>4 DEF ShellOpens
  <2> HIDE DEF i
  <2>3. pos'[r] = 0 /\ input'[r] = Size[r]
    BY <2>2 DEF ScopeInv
  <2>4. Blank = Part(r, 0)
    BY <1>1 DEF Blank, Part
  <2>5. tmp'[Ws(r)] = fd'[r] /\ content'[fd'[r]] = Part(r, pos'[r])
    BY <1>1, <2>1, <2>2, <2>3, <2>4
  <2>6. QED
    BY <1>2, <1>3, <2>2, <2>3, <2>5 DEF ScopeInv, Ws, Part
<1>5. CASE ShellWrites(r)
  <2>1. /\ shell[r] = "cat" /\ fd[r] \in Req /\ pos[r] + 1 \in 1..MaxSize
        /\ pos' = [pos EXCEPT ![r] = pos[r] + 1]
        /\ content' = [content EXCEPT ![fd[r]][pos[r] + 1] = r]
        /\ UNCHANGED <<shell, fd, input, tmp>>
    BY <1>1, <1>5 DEF ShellWrites
  <2>2. tmp[Ws(r)] = fd[r] /\ content[fd[r]] = Part(r, pos[r]) /\ input[r] = Size[r]
    BY <2>1 DEF ScopeInv
  <2>3. content'[fd[r]] = [Part(r, pos[r]) EXCEPT ![pos[r] + 1] = r]
    BY <2>1, <2>2
  <2>4. [Part(r, pos[r]) EXCEPT ![pos[r] + 1] = r] = Part(r, pos[r] + 1)
    BY <1>1, <2>1, PartGrows
  <2>5. QED
    BY <1>2, <1>3, <2>1, <2>2, <2>3, <2>4 DEF ScopeInv, Ws, Part
<1>6. CASE ShellReadsEOF(r)
  <2>1. /\ shell[r] = "cat" /\ shell'[r] = "mv" /\ pos[r] = input[r] /\ fd[r] \in Req
        /\ UNCHANGED <<tmp, content>>
    BY <1>6 DEF ShellReadsEOF
  <2>2. tmp[Ws(r)] = fd[r] /\ content[fd[r]] = Part(r, Size[r])
    BY <2>1 DEF ScopeInv
  <2>3. QED
    BY <1>1, <1>2, <1>3, <2>1, <2>2 DEF ScopeInv, Ws, Part
<1>7. CASE ShellMoves(r)
  <2>1. shell[r] = "mv" /\ tmp[Ws(r)] # Nothing /\ content[tmp[Ws(r)]] = Part(r, Size[r])
    BY <1>7 DEF ShellMoves, ScopeInv
  <2>2. shell'[r] = "exit0" /\ target'[Ws(r)] = tmp[Ws(r)] /\ UNCHANGED content
    BY <1>1, <1>7, <2>1 DEF ShellMoves
  <2>3. QED
    BY <1>2, <1>3, <2>1, <2>2 DEF ScopeInv, Ws, Part
<1>8. CASE ShellFails(r)
  <2>1. shell'[r] = "exit1"
    BY <1>8 DEF ShellFails
  <2>2. QED
    BY <1>2, <1>3, <2>1 DEF ScopeInv
<1>9. QED
  BY <1>4, <1>5, <1>6, <1>7, <1>8 DEF Shell

\* The handler of a request: the exec is started, ends well, is lost or fails.
LEMMA ScopeHandler ==
  ASSUME TypeOK, NEW r \in Req, Arrive(r) \/ Handler(r), NEW s \in Req, ScopeInv(s)
  PROVE  ScopeInv(s)'
<1> USE DEF TypeOK, HandlerType, FileType
<1>1. UNCHANGED <<fd, pos, tmp, target, content>>
  BY DEF Arrive, Handler, ExecStarts, ExecEnds, ExecLost, ExecFails, SnapshotRead,
         Dispatched, GoOn, Refused, Refreshed, StaysRefused, CallFails, Timeout
<1>2. overlapped \subseteq overlapped' /\ cut \subseteq cut'
  BY DEF Arrive, Handler, ExecStarts, ExecEnds, ExecLost, ExecFails, SnapshotRead,
         Dispatched, GoOn, Refused, Refreshed, StaysRefused, CallFails, Timeout
<1>3. CASE s # r
  <2>1. at'[s] = at[s]
    BY <1>3 DEF Arrive, Handler, ExecStarts, ExecEnds, ExecLost, ExecFails, SnapshotRead,
         Dispatched, GoOn, Refused, Refreshed, StaysRefused, CallFails, Timeout
  <2>2. shell'[s] = shell[s] /\ input'[s] = input[s]
    BY <1>3 DEF Arrive, Handler, ExecStarts, ExecEnds, ExecLost, ExecFails, SnapshotRead,
         Dispatched, GoOn, Refused, Refreshed, StaysRefused, CallFails, Timeout
  <2>3. QED
    BY <1>1, <1>2, <2>1, <2>2, ScopeFrame
<1>4. CASE s = r
  <2>1. CASE Arrive(r)
    <3>1. at[r] = "idle" /\ at'[r] = "exec" /\ UNCHANGED <<shell, input>> /\ shell[r] = "off"
      BY <1>4, <2>1 DEF Arrive, ScopeInv
    <3>2. QED
      BY <1>1, <1>4, <3>1 DEF ScopeInv, Calls, Command
  <2>2. CASE ExecStarts(r)
    <3>1. PICK n \in 0..Size[r] :
            /\ input' = [input EXCEPT ![r] = n]
            /\ n = Size[r] \/ r \in cut'
      BY <2>2 DEF ExecStarts
    <3>2. at[r] = "exec" /\ shell'[r] = "open" /\ UNCHANGED at
      BY <2>2 DEF ExecStarts
    <3>3. QED
      BY <1>2, <1>4, <3>1, <3>2 DEF ScopeInv, Calls, Command
  <2>3. CASE ExecEnds(r)
    <3>1. /\ at[r] = "exec" /\ UNCHANGED <<shell, input, overlapped, cut>>
          /\ at'[r] = IF shell[r] = "exit0" THEN "snapshot" ELSE "failed"
          /\ shell[r] \in {"exit0", "exit1"}
      BY <2>3 DEF ExecEnds
    <3>2. QED
      BY <1>1, <1>4, <3>1 DEF ScopeInv, Ws, Part, Open, Calls, Command
  <2>4. CASE ExecLost(r)
    <3>1. at'[r] = "snapshot" /\ r \in cut'
      BY <2>4 DEF ExecLost
    <3>2. QED
      BY <1>4, <3>1 DEF ScopeInv
  <2>5. CASE ExecFails(r) \/ SnapshotRead(r) \/ Dispatched(r) \/ Refused(r) \/ Refreshed(r)
             \/ StaysRefused(r) \/ CallFails(r) \/ Timeout(r)
    <3>1. UNCHANGED <<shell, input>>
      BY <2>5 DEF ExecFails, SnapshotRead, Dispatched, GoOn, Refused, Refreshed, StaysRefused,
           CallFails, Timeout
    <3>2. \/ at' = [at EXCEPT ![r] = "failed"]
          \/ at[r] \in Calls /\ UNCHANGED at
          \/ at[r] \in Calls /\ \E p \in Calls \cup {"ok"} : at' = [at EXCEPT ![r] = p]
      <4>1. CASE ExecFails(r) \/ StaysRefused(r) \/ CallFails(r) \/ Timeout(r)
        BY <4>1 DEF ExecFails, StaysRefused, CallFails, Timeout
      <4>2. CASE Refused(r) \/ Refreshed(r)
        BY <4>2 DEF Refused, Refreshed
      <4>3. CASE SnapshotRead(r)
        BY <4>3 DEF SnapshotRead, GoOn, Calls, Command
      <4>4. CASE Dispatched(r)
        <5>1. Next1[at[r]] \in Calls \cup {"ok"} /\ at[r] \in Calls
          BY <4>4 DEF Dispatched, Next1, Calls, Command
        <5>2. QED
          BY <4>4, <5>1 DEF Dispatched, GoOn
      <4>5. QED
        BY <2>5, <4>1, <4>2, <4>3, <4>4
    <3>3. \/ at'[r] = "failed"
          \/ at'[r] = "ok"
          \/ at[r] \in Calls /\ at'[r] \in Calls
      <4>1. at \in [Req -> Places]
        OBVIOUS
      <4>2. CASE at' = [at EXCEPT ![r] = "failed"]
        <5>1. at'[r] = "failed"
          BY <4>1, <4>2
        <5>2. QED
          BY <5>1
      <4>3. CASE at[r] \in Calls /\ \E p \in Calls \cup {"ok"} : at' = [at EXCEPT ![r] = p]
        BY <4>1, <4>3
      <4>4. QED
        BY <3>2, <4>2, <4>3
    <3>4. at'[r] # "idle"
      BY <3>3 DEF Calls, Command
    <3>5. QED
      BY <1>1, <1>2, <1>4, <3>1, <3>3, <3>4 DEF ScopeInv, Ws, Part, Open, Calls, Command
  <2>6. QED
    BY <2>1, <2>2, <2>3, <2>4, <2>5 DEF Handler
<1>5. QED
  BY <1>3, <1>4

LEMMA ScopeStep ==
  ASSUME TypeOK, OwnInv, \A s \in Req : MeetInv(s), \A s \in Req : ScopeInv(s), [Next]_vars
  PROVE  \A s \in Req : ScopeInv(s)'
<1>1. ASSUME NEW s \in Req, Revoke \/ UNCHANGED vars \/ \E r \in Req : LateCommand(r)
      PROVE  ScopeInv(s)'
  <2>1. UNCHANGED <<at, files, overlapped, cut>>
    BY <1>1 DEF Revoke, vars, LateCommand
  <2>2. QED
    BY <2>1, ScopeFrame
<1>2. ASSUME NEW s \in Req, NEW r \in Req, Shell(r)
      PROVE  ScopeInv(s)'
  BY <1>2, ScopeShell, ScopeOther
<1>3. QED
  BY <1>1, <1>2, ScopeHandler DEF Next

\* While a request that is alone talks to t3, its scope is in place.
THEOREM ScopeKept == Spec => []ScopeInPlace
<1>1. Init => \A s \in Req : ScopeInv(s)
  BY DEF Init, ScopeInv, Open, Calls, Command
<1>2. TypeOK /\ OwnInv /\ (\A s \in Req : MeetInv(s)) /\ (\A s \in Req : ScopeInv(s))
        /\ [Next]_vars => (\A s \in Req : ScopeInv(s))'
  BY ScopeStep
<1>3. (\A s \in Req : ScopeInv(s)) => ScopeInPlace
  BY DEF ScopeInv, ScopeInPlace, Open, Part, Whole
<1>4. QED
  BY <1>1, <1>2, <1>3, TypeCorrect, OwnHolds, MeetingsHold, PTL DEF Spec

-----------------------------------------------------------------------------
(***************************************************************************)
(* The promise they implement.                                             *)
(***************************************************************************)
\* A request has an id for its project once it has the snapshot, and the
\* project of its id comes from its project.create, sent before any other.
OriginInv(r) ==
  /\ at[r] \in {"idle", "exec", "snapshot"} => proj[r] = Nothing
  /\ late[r] = "project" => carried[r]["thread"] = 0
  /\ \A p \in projects : p.id = r => carried[r]["project"] = 1

\* What of a request decides how its promise stands.
SameOf(s) ==
  /\ at'[s] = at[s] /\ late'[s] = late[s]
  /\ proj'[s] = proj[s] /\ sel'[s] = sel[s] /\ carried'[s] = carried[s]

\* A step of one request is none of another one's.
LEMMA OthersSame ==
  ASSUME TypeOK, NEW r \in Req, Arrive(r) \/ Handler(r) \/ Shell(r) \/ LateCommand(r),
         NEW s \in Req \ {r}
  PROVE  SameOf(s)
<1> USE DEF SameOf, TypeOK, HandlerType, T3Type
<1>1. CASE Shell(r)
  BY <1>1 DEF Shell, ShellOpens, ShellWrites, ShellReadsEOF, ShellMoves, ShellFails
<1>2. CASE Arrive(r) \/ ExecStarts(r) \/ ExecEnds(r) \/ ExecLost(r) \/ ExecFails(r)
  BY <1>2 DEF Arrive, ExecStarts, ExecEnds, ExecLost, ExecFails
<1>3. CASE Refused(r) \/ Refreshed(r) \/ StaysRefused(r) \/ CallFails(r) \/ Timeout(r)
  BY <1>3 DEF Refused, Refreshed, StaysRefused, CallFails, Timeout
<1>4. CASE SnapshotRead(r)
  BY <1>4 DEF SnapshotRead, GoOn
<1>5. CASE Dispatched(r)
  BY <1>5 DEF Dispatched, CarryOut, GoOn
<1>6. CASE LateCommand(r)
  BY <1>6 DEF LateCommand, CarryOut
<1>7. QED
  BY <1>1, <1>2, <1>3, <1>4, <1>5, <1>6 DEF Handler

\* What a step does to the projects and to what was carried out.
LEMMA ProjectsBy ==
  ASSUME TypeOK, NEW r \in Req, Arrive(r) \/ Handler(r) \/ Shell(r) \/ LateCommand(r)
  PROVE  \/ UNCHANGED <<projects, carried>>
         \/ \E c \in Command : CarryOut(r, c) /\ (at[r] = c \/ late[r] = c)
<1>1. CASE Shell(r)
  BY <1>1 DEF Shell, ShellOpens, ShellWrites, ShellReadsEOF, ShellMoves, ShellFails
<1>2. CASE Arrive(r) \/ ExecStarts(r) \/ ExecEnds(r) \/ ExecLost(r) \/ ExecFails(r)
  BY <1>2 DEF Arrive, ExecStarts, ExecEnds, ExecLost, ExecFails
<1>3. CASE Refused(r) \/ Refreshed(r) \/ StaysRefused(r) \/ CallFails(r) \/ Timeout(r)
  BY <1>3 DEF Refused, Refreshed, StaysRefused, CallFails, Timeout
<1>4. CASE SnapshotRead(r)
  BY <1>4 DEF SnapshotRead
<1>5. CASE Dispatched(r)
  BY <1>5 DEF Dispatched
<1>6. CASE LateCommand(r)
  BY <1>6 DEF LateCommand, TypeOK, T3Type
<1>7. QED
  BY <1>1, <1>2, <1>3, <1>4, <1>5, <1>6 DEF Handler

LEMMA OriginStep ==
  ASSUME TypeOK, \A s \in Req : StageInv(s) /\ StageInv(s)' /\ OriginInv(s), Next
  PROVE  \A s \in Req : OriginInv(s)'
<1>1. CASE Revoke
  BY <1>1 DEF Revoke, OriginInv
<1>2. ASSUME NEW r \in Req, Arrive(r) \/ Handler(r) \/ Shell(r) \/ LateCommand(r),
             NEW s \in Req
      PROVE  OriginInv(s)'
  <2>1. \A p \in projects' : p.id = s => carried'[s]["project"] = 1
    <3>1. CASE UNCHANGED <<projects, carried>>
      BY <3>1 DEF OriginInv
    <3>2. CASE \E c \in Command : CarryOut(r, c) /\ (at[r] = c \/ late[r] = c)
      <4>1. PICK c \in Command : CarryOut(r, c) /\ (at[r] = c \/ late[r] = c)
        BY <3>2
      <4>2. carried'[s]["project"] = 1 \/ carried'[s]["project"] = 0
        BY DEF StageInv, Command
      <4>3. carried[s]["project"] = 1 => carried'[s]["project"] = 1
        BY <4>1, <4>2, CarryAdds DEF Command, StageInv
      <4>4. c = "project" /\ s = r => carried'[s]["project"] = 1
        BY <4>1, <4>2, CarryAdds DEF Command, StageInv
      <4>5. \A p \in projects' : p \in projects \/ (c = "project" /\ p.id = r)
        BY <4>1 DEF CarryOut, Project
      <4>6. QED
        BY <4>3, <4>4, <4>5 DEF OriginInv
    <3>3. QED
      BY <1>2, <3>1, <3>2, ProjectsBy
  <2>2. CASE s # r
    <3>1. SameOf(s)
      BY <1>2, <2>2, OthersSame
    <3>2. QED
      BY <2>1, <3>1 DEF SameOf, OriginInv
  <2>3. CASE s = r
    <3> USE DEF TypeOK, HandlerType, T3Type
    <3>1. at'[s] \in {"idle", "exec", "snapshot"} => proj'[s] = Nothing
      <4>1. CASE Shell(r)
        BY <2>3, <4>1 DEF Shell, ShellOpens, ShellWrites, ShellReadsEOF, ShellMoves,
                          ShellFails, OriginInv
      <4>2. CASE Arrive(r) \/ ExecStarts(r) \/ ExecEnds(r) \/ ExecLost(r) \/ ExecFails(r)
        BY <2>3, <4>2 DEF Arrive, ExecStarts, ExecEnds, ExecLost, ExecFails, OriginInv
      <4>3. CASE Refused(r) \/ Refreshed(r) \/ StaysRefused(r) \/ CallFails(r) \/ Timeout(r)
        BY <2>3, <4>3 DEF Refused, Refreshed, StaysRefused, CallFails, Timeout, OriginInv
      <4>4. CASE SnapshotRead(r)
        BY <2>3, <4>4 DEF SnapshotRead, GoOn
      <4>5. CASE Dispatched(r)
        BY <2>3, <4>5 DEF Dispatched, GoOn, Next1, Command
      <4>6. CASE LateCommand(r)
        BY <2>3, <4>6 DEF LateCommand, OriginInv
      <4>7. QED
        BY <1>2, <4>1, <4>2, <4>3, <4>4, <4>5, <4>6 DEF Handler
    <3>2. late'[s] = "project" => carried'[s]["thread"] = 0
      <4>1. CASE Timeout(r)
        BY <2>3, <4>1 DEF Timeout, StageInv
      <4>2. CASE LateCommand(r)
        BY <2>3, <4>2 DEF LateCommand, Nothing
      <4>3. CASE UNCHANGED <<late, carried>>
        BY <2>3, <4>3 DEF OriginInv
      <4>4. CASE Dispatched(r)
        BY <2>3, <4>4 DEF Dispatched, StageInv, Command, Nothing
      <4>5. UNCHANGED <<late, carried>> \/ Timeout(r) \/ LateCommand(r) \/ Dispatched(r)
        <5>1. CASE Shell(r)
          BY <5>1 DEF Shell, ShellOpens, ShellWrites, ShellReadsEOF, ShellMoves, ShellFails
        <5>2. CASE Arrive(r) \/ ExecStarts(r) \/ ExecEnds(r) \/ ExecLost(r) \/ ExecFails(r)
          BY <5>2 DEF Arrive, ExecStarts, ExecEnds, ExecLost, ExecFails
        <5>3. CASE \/ Refused(r) \/ Refreshed(r) \/ StaysRefused(r) \/ CallFails(r)
                   \/ SnapshotRead(r)
          BY <5>3 DEF Refused, Refreshed, StaysRefused, CallFails, SnapshotRead
        <5>4. QED
          BY <1>2, <5>1, <5>2, <5>3 DEF Handler
      <4>6. QED
        BY <4>1, <4>2, <4>3, <4>4, <4>5
    <3>3. QED
      BY <2>1, <3>1, <3>2 DEF OriginInv
  <2>4. QED
    BY <2>2, <2>3
<1>3. QED
  BY <1>1, <1>2 DEF Next

LEMMA OriginsHold == Spec => [](\A s \in Req : OriginInv(s))
<1>1. Init => \A s \in Req : OriginInv(s)
  BY SpawnAssumption DEF Init, OriginInv, Nothing
<1>2. /\ TypeOK
      /\ \A s \in Req : StageInv(s)
      /\ (\A s \in Req : StageInv(s))'
      /\ \A s \in Req : OriginInv(s)
      /\ [Next]_vars
      => (\A s \in Req : OriginInv(s))'
  <2>1. ASSUME \A s \in Req : OriginInv(s), UNCHANGED vars PROVE \A s \in Req : OriginInv(s)'
    BY <2>1 DEF vars, OriginInv
  <2>2. QED
    BY <2>1, OriginStep
<1>3. QED
  BY <1>1, <1>2, TypeCorrect, StagesHold, PTL DEF Spec

mapped == <<Answers, Missed, Knowns, Threads, Turned>>

\* How a step of r shows in the promise.
LEMMA MappedStep ==
  ASSUME NEW r \in Req, \A s \in Req \ {r} : SameOf(s)
  PROVE  /\ Answers' = [Answers EXCEPT ![r] = Answer(r)']
         /\ Threads' = [Threads EXCEPT ![r] = Thread(r)']
         /\ (proj'[r] = r <=> proj[r] = r) => Missed' = Missed
         /\ proj'[r] = r => Missed' = Missed \cup {r}
         /\ (Made(r, "turn")' <=> Made(r, "turn")) => Turned' = Turned
         /\ Made(r, "turn")' => Turned' = Turned \cup {r}
<1>1. \A s \in Req \ {r} : Answer(s)' = Answer(s)
  BY DEF SameOf, Answer
<1>2. \A s \in Req \ {r} : Thread(s)' = Thread(s) /\ (Made(s, "turn")' <=> Made(s, "turn"))
  BY DEF SameOf, Thread, Made
<1>3. Answers' = [Answers EXCEPT ![r] = Answer(r)']
  BY <1>1 DEF Answers
<1>4. Threads' = [Threads EXCEPT ![r] = Thread(r)']
  BY <1>2 DEF Threads
<1>5. \A s \in Req \ {r} : proj'[s] = proj[s]
  BY DEF SameOf
<1>6. /\ (proj'[r] = r <=> proj[r] = r) => Missed' = Missed
      /\ proj'[r] = r => Missed' = Missed \cup {r}
  BY <1>5 DEF Missed
<1>7. /\ (Made(r, "turn")' <=> Made(r, "turn")) => Turned' = Turned
      /\ Made(r, "turn")' => Turned' = Turned \cup {r}
  BY <1>2 DEF Turned
<1>8. QED
  BY <1>3, <1>4, <1>6, <1>7

\* A step that touches none of this does not show.
LEMMA MappedSame ==
  ASSUME UNCHANGED <<at, late, proj, sel, carried, projects>>
  PROVE  UNCHANGED mapped
<1>1. \A r \in Req : /\ Answer(r)' = Answer(r) /\ Thread(r)' = Thread(r)
                     /\ Made(r, "turn")' <=> Made(r, "turn")
  BY DEF Answer, Thread, Made
<1>2. Answers' = Answers /\ Threads' = Threads
  BY <1>1, Zenon DEF Answers, Threads
<1>3. Missed' = Missed /\ Turned' = Turned /\ Knowns' = Knowns
  BY <1>1 DEF Missed, Turned, Knowns
<1>4. QED
  BY <1>2, <1>3 DEF mapped

\* A step that makes nothing and answers nothing does not show.
LEMMA MappedFrame ==
  ASSUME NEW r \in Req, \A s \in Req \ {r} : SameOf(s),
         UNCHANGED <<carried, projects>>, Answer(r)' = Answer(r),
         proj'[r] = r <=> proj[r] = r, Thread(r)' = Thread(r)
  PROVE  UNCHANGED mapped
<1>1. (Made(r, "turn")' <=> Made(r, "turn")) /\ Knowns' = Knowns
  BY DEF Made, Knowns
<1>2. [Answers EXCEPT ![r] = Answer(r)] = Answers /\ [Threads EXCEPT ![r] = Thread(r)] = Threads
  BY DEF Answers, Threads
<1>3. QED
  BY <1>1, <1>2, MappedStep DEF mapped

\* A step that makes nothing, and the answer that it gives.
LEMMA MappedAnswer ==
  ASSUME NEW r \in Req, \A s \in Req \ {r} : SameOf(s),
         UNCHANGED <<carried, projects>>, proj'[r] = proj[r], sel'[r] = sel[r],
         \/ Answer(r) = "idle" /\ Answer(r)' = "pending"
         \/ Answer(r) = "pending" /\ Answer(r)' \in {"failed", "doubtful"}
         \/ Answer(r) = "doubtful" /\ Answer(r)' = "failed"
  PROVE  Promise!Next
<1>1. Answers[r] = Answer(r) /\ Answers' = [Answers EXCEPT ![r] = Answer(r)']
  BY MappedStep DEF Answers
<1>2. [Threads EXCEPT ![r] = Thread(r)] = Threads /\ Thread(r)' = Thread(r)
  BY DEF Threads, Thread, Made
<1>3. (Made(r, "turn")' <=> Made(r, "turn")) /\ Knowns' = Knowns
  BY DEF Made, Knowns
<1>4. UNCHANGED <<Missed, Knowns, Threads, Turned>>
  BY <1>2, <1>3, MappedStep
<1>5. CASE Answer(r) = "idle" /\ Answer(r)' = "pending"
  BY <1>1, <1>4, <1>5 DEF Promise!Take, Promise!Next
<1>6. CASE Answer(r) = "pending" /\ Answer(r)' \in {"failed", "doubtful"}
  <2>1. Promise!Fail(r)
    BY <1>1, <1>4, <1>6 DEF Promise!Fail
  <2>2. QED
    BY <2>1 DEF Promise!Next
<1>7. CASE Answer(r) = "doubtful" /\ Answer(r)' = "failed"
  BY <1>1, <1>4, <1>7 DEF Promise!Drop, Promise!Next
<1>8. QED
  BY <1>5, <1>6, <1>7

LEMMA SnapshotPromised ==
  ASSUME TypeOK, NEW r \in Req, StageInv(r), OriginInv(r), SnapshotRead(r)
  PROVE  Promise!Next \/ UNCHANGED mapped
<1>1. /\ at[r] = "snapshot" /\ UNCHANGED t3 /\ at'[r] \in {"thread", "project"}
      /\ carried[r]["thread"] = 0 /\ carried[r]["project"] = 0 /\ carried[r]["turn"] = 0
      /\ proj[r] = Nothing
  <2>1. at[r] = "snapshot" /\ UNCHANGED t3
    BY DEF SnapshotRead
  <2>2. at'[r] \in {"thread", "project"}
    BY DEF SnapshotRead, GoOn, TypeOK, HandlerType
  <2>3. QED
    BY <2>1, <2>2 DEF StageInv, OriginInv
<1>2. \A s \in Req \ {r} : SameOf(s)
  BY OthersSame DEF Handler
<1>3. Answer(r) = "pending" /\ Answer(r)' = "pending"
  BY <1>1 DEF Answer, Open, Calls, Command
<1>4. Thread(r)' = Thread(r) /\ Threads[r] = Promise!NoThread
  <2>1. ~ Made(r, "thread") /\ ~ Made(r, "thread")'
    BY <1>1 DEF Made
  <2>2. Thread(r) = Promise!NoThread /\ Thread(r)' = Promise!NoThread
    BY <2>1, Zenon DEF Thread, Promise!NoThread, Nothing
  <2>3. QED
    BY <2>2 DEF Threads
<1>5. CASE \E p \in projectForWorkspace(r) : proj' = [proj EXCEPT ![r] = p.id]
  <2>1. PICK p \in projectForWorkspace(r) : proj' = [proj EXCEPT ![r] = p.id]
    BY <1>5
  <2>2. p.id # r
    BY <1>1, <2>1 DEF projectForWorkspace, OriginInv
  <2>3. proj'[r] # r /\ proj[r] # r
    BY <1>1, <2>1, <2>2, SpawnAssumption DEF TypeOK, HandlerType
  <2>4. QED
    BY <1>1, <1>2, <1>3, <1>4, <2>3, MappedFrame
<1>6. CASE projectForWorkspace(r) = {} /\ proj' = [proj EXCEPT ![r] = r]
  <2>1. proj'[r] = r
    BY <1>6 DEF TypeOK, HandlerType
  <2>2. Missed' = Missed \cup {r}
    BY <1>2, <2>1, MappedStep
  <2>3. UNCHANGED <<Answers, Threads, Turned>>
    <3>1. Made(r, "turn")' <=> Made(r, "turn")
      BY <1>1 DEF Made
    <3>2. [Answers EXCEPT ![r] = Answer(r)] = Answers
          /\ [Threads EXCEPT ![r] = Thread(r)] = Threads
      BY DEF Answers, Threads
    <3>3. QED
      BY <1>2, <1>3, <1>4, <3>1, <3>2, MappedStep
  <2>4. Knowns' = Knowns
    BY <1>1 DEF Knowns
  <2>5. {p \in Knowns : p.workspace = Asked[r].workspace} = {}
    BY <1>6 DEF Knowns, Known, Asked, projectForWorkspace
  <2>6. Answers[r] = "pending"
    BY <1>3 DEF Answers
  <2>7. Promise!Miss(r)
    BY <1>4, <2>2, <2>3, <2>4, <2>5, <2>6 DEF Promise!Miss, Promise!Fitting
  <2>8. QED
    BY <2>7 DEF Promise!Next
<1>7. QED
  BY <1>5, <1>6 DEF SnapshotRead

\* A command that is carried out, in time or late, is a step of the promise.
LEMMA CarriedPromised ==
  ASSUME TypeOK, NEW r \in Req, StageInv(r), OriginInv(r), NEW c \in Command,
         CarryOut(r, c), \A s \in Req \ {r} : SameOf(s),
         UNCHANGED <<proj, sel>>,
         \/ /\ at[r] = c /\ late[r] = Nothing
            /\ at'[r] = Next1[c] /\ late'[r] = Nothing
         \/ /\ at[r] = "failed" /\ late[r] = c
            /\ at'[r] = "failed" /\ late'[r] = Nothing
  PROVE  Promise!Next
<1> DEFINE next == IF c = "turn" THEN "ok" ELSE "pending"
<1>1. /\ Answers[r] \in {"pending", "doubtful"}
      /\ Answers' = [Answers EXCEPT ![r] = IF @ = "pending" THEN next ELSE "failed"]
  <2>1. Answers[r] = Answer(r) /\ Answers' = [Answers EXCEPT ![r] = Answer(r)']
    BY MappedStep DEF Answers
  <2>2. CASE at[r] = c
    <3>1. at'[r] = Next1[c]
      BY <2>2 DEF Command
    <3>2. Answer(r) = "pending"
      BY <2>2 DEF Answer, Open, Calls, Command
    <3>3. Answer(r)' = next
      BY <3>1 DEF Answer, Next1, Open, Calls, Command
    <3>4. QED
      BY <2>1, <3>2, <3>3
  <2>3. CASE at[r] = "failed" /\ late[r] = c
    <3>1. Answer(r) = "doubtful" /\ Answer(r)' = "failed"
      BY <2>3 DEF Answer, Open, Calls, Command, Nothing
    <3>2. QED
      BY <2>1, <3>1
  <2>4. QED
    BY <2>2, <2>3
<1>2. Missed' = Missed
  BY MappedStep
<1>3. carried[r][c] = 0 /\ carried'[r][c] = 1 /\ carried[r]["turn"] = 0
  <2>1. carried[r][c] = 0 /\ carried[r]["turn"] = 0
    <3>1. CASE at[r] = c
      BY <3>1 DEF StageInv, Command
    <3>2. CASE at[r] = "failed" /\ late[r] = c
      BY <3>2 DEF StageInv, OriginInv, Command, Nothing
    <3>3. QED
      BY <3>1, <3>2
  <2>2. QED
    BY <2>1, CarryAdds
<1>4. \A d \in Command \ {c} : carried'[r][d] = carried[r][d]
  BY CarryAdds
<1>5. CASE c = "project"
  <2>1. Knowns' = Knowns \cup {[id |-> r, workspace |-> Asked[r].workspace]}
    <3>1. projects' = projects \cup {Project(r, Body[r].path, sel[r])}
      BY <1>5 DEF CarryOut
    <3>2. Known(Project(r, Body[r].path, sel[r])) = [id |-> r, workspace |-> Asked[r].workspace]
      BY DEF Known, Project, Asked, Ws
    <3>3. QED
      BY <3>1, <3>2 DEF Knowns, Known
  <2>2. r \in Missed
    BY <1>5 DEF Missed, StageInv, Nothing
  <2>3. carried[r]["thread"] = 0 /\ carried'[r]["thread"] = 0
    BY <1>4, <1>5 DEF StageInv, OriginInv, Command
  <2>4. Threads[r] = Promise!NoThread /\ Threads' = Threads
    <3>1. Thread(r) = Promise!NoThread /\ Thread(r)' = Promise!NoThread
      BY <2>3 DEF Thread, Made, Promise!NoThread, Nothing
    <3>2. QED
      BY <3>1, MappedStep DEF Threads
  <2>5. Turned' = Turned
    <3>1. Made(r, "turn")' <=> Made(r, "turn")
      BY <1>4, <1>5 DEF Made, Command
    <3>2. QED
      BY <3>1, MappedStep
  <2>6. \A p \in Knowns : p.id # r
    BY <1>3, <1>5 DEF Knowns, Known, OriginInv
  <2>7. Promise!MakeProject(r)
    BY <1>1, <1>2, <1>5, <2>1, <2>2, <2>4, <2>5, <2>6
       DEF Promise!MakeProject, Promise!Working, Promise!Goes
  <2>8. QED
    BY <2>7 DEF Promise!Next
<1>6. CASE c = "thread"
  <2>1. ProjectExists(proj[r], Ws(r)) /\ sel[r].instance = providerInstanceID(Body[r].agent)
    BY <1>6 DEF StageInv, Command
  <2>2. PICK p \in projects : p.id = proj[r] /\ Clean[p.path] = Ws(r)
    BY <2>1 DEF ProjectExists
  <2>3. Known(p) \in Promise!Fitting(r) /\ Known(p).id = proj[r]
    BY <2>2 DEF Promise!Fitting, Knowns, Known, Asked
  <2>4. r \in Missed => Known(p).id = r
    BY <2>3 DEF Missed
  <2>5. Threads' = [Threads EXCEPT ![r] = [project |-> Known(p).id, instance |-> Asked[r].instance]]
    <3>1. Made(r, "thread")'
      BY <1>3, <1>6 DEF Made
    <3>2. Thread(r)' = [project |-> proj[r], instance |-> sel[r].instance]
      BY <3>1, Zenon DEF Thread
    <3>3. QED
      BY <2>1, <2>3, <3>2, MappedStep DEF Asked
  <2>6. Threads[r] = Promise!NoThread
    <3>1. ~ Made(r, "thread")
      BY <1>3, <1>6 DEF Made
    <3>2. Thread(r) = Promise!NoThread
      BY <3>1, Zenon DEF Thread, Promise!NoThread, Nothing
    <3>3. QED
      BY <3>2 DEF Threads
  <2>7. Turned' = Turned
    <3>1. Made(r, "turn")' <=> Made(r, "turn")
      BY <1>4, <1>6 DEF Made, Command
    <3>2. QED
      BY <3>1, MappedStep
  <2>8. Knowns' = Knowns
    BY <1>6 DEF CarryOut, Knowns
  <2>9. Promise!MakeThread(r)
    BY <1>1, <1>2, <1>6, <2>3, <2>4, <2>5, <2>6, <2>7, <2>8
       DEF Promise!MakeThread, Promise!Working, Promise!Goes
  <2>10. QED
    BY <2>9 DEF Promise!Next
<1>7. CASE c = "turn"
  <2>1. carried[r]["thread"] = 1 /\ carried'[r]["thread"] = 1
    BY <1>4, <1>7 DEF StageInv, Command
  <2>2. proj[r] # Nothing
    BY <2>1 DEF StageInv, ProjectExists, TypeOK, T3Type
  <2>3. Threads[r] # Promise!NoThread /\ Threads' = Threads
    <3>1. Made(r, "thread") /\ Made(r, "thread")'
      BY <2>1 DEF Made
    <3>2. Thread(r) = [project |-> proj[r], instance |-> sel[r].instance]
          /\ Thread(r)' = Thread(r)
      BY <3>1, Zenon DEF Thread
    <3>3. Threads[r] = Thread(r) /\ Threads' = [Threads EXCEPT ![r] = Threads[r]]
      BY <3>2, MappedStep DEF Threads
    <3>4. Thread(r).project # Promise!NoThread.project
      BY <2>2, <3>2 DEF Promise!NoThread, Nothing
    <3>5. QED
      BY <3>3, <3>4 DEF Threads
  <2>4. r \notin Turned /\ Turned' = Turned \cup {r}
    BY <1>3, <1>7, MappedStep DEF Turned, Made
  <2>5. Knowns' = Knowns
    BY <1>7 DEF CarryOut, Knowns
  <2>6. Promise!StartTurn(r)
    BY <1>1, <1>2, <1>7, <2>3, <2>4, <2>5
       DEF Promise!StartTurn, Promise!Working, Promise!Goes
  <2>7. QED
    BY <2>6 DEF Promise!Next
<1>8. QED
  BY <1>5, <1>6, <1>7 DEF Command

LEMMA PromiseStep ==
  ASSUME TypeOK, \A s \in Req : StageInv(s) /\ OriginInv(s), [Next]_vars
  PROVE  Promise!Next \/ UNCHANGED mapped
<1>1. CASE Revoke \/ UNCHANGED vars
  BY <1>1, MappedSame DEF Revoke, vars
<1>2. ASSUME NEW r \in Req, Arrive(r) \/ Handler(r) \/ Shell(r) \/ LateCommand(r)
      PROVE  Promise!Next \/ UNCHANGED mapped
  <2> USE DEF TypeOK, HandlerType, T3Type
  <2>1. \A s \in Req \ {r} : SameOf(s)
    BY <1>2, OthersSame
  <2>2. CASE Shell(r) \/ ExecStarts(r) \/ Refused(r) \/ Refreshed(r)
    <3>1. UNCHANGED <<at, proj, sel, projects, carried, late>>
      BY <2>2 DEF Shell, ShellOpens, ShellWrites, ShellReadsEOF, ShellMoves, ShellFails,
                  ExecStarts, Refused, Refreshed
    <3>2. QED
      BY <3>1, MappedSame
  <2>3. CASE Arrive(r)
    <3>1. at[r] = "idle" /\ at'[r] = "exec" /\ UNCHANGED <<proj, sel, projects, carried, late>>
      BY <2>3 DEF Arrive
    <3>2. Answer(r) = "idle" /\ Answer(r)' = "pending"
      BY <3>1 DEF Answer, Open, Calls, Command
    <3>3. QED
      BY <2>1, <3>1, <3>2, MappedAnswer
  <2>4. CASE ExecEnds(r) \/ ExecLost(r) \/ ExecFails(r) \/ StaysRefused(r) \/ CallFails(r)
    <3>1. /\ at[r] \in Open /\ at'[r] \in {"snapshot", "failed"}
          /\ at[r] # "exec" => at'[r] = "failed"
          /\ UNCHANGED <<proj, sel, projects, carried, late>>
      BY <2>4 DEF ExecEnds, ExecLost, ExecFails, StaysRefused, CallFails, Trying, Open, Calls
    <3>2. Answer(r) = "pending"
      BY <3>1 DEF Answer, Open, Calls, Command
    <3>3. CASE at'[r] = "failed"
      <4>1. Answer(r)' \in {"failed", "doubtful"}
        BY <3>3 DEF Answer, Open, Calls, Command
      <4>2. QED
        BY <2>1, <3>1, <3>2, <4>1, MappedAnswer
    <3>4. CASE at'[r] = "snapshot"
      <4>1. Answer(r)' = "pending"
        BY <3>4 DEF Answer, Open, Calls, Command
      <4>2. Thread(r)' = Thread(r)
        BY <3>1 DEF Thread, Made
      <4>3. QED
        BY <2>1, <3>1, <3>2, <4>1, <4>2, MappedFrame
    <3>5. QED
      BY <3>1, <3>3, <3>4
  <2>5. CASE SnapshotRead(r)
    BY <2>5, SnapshotPromised
  <2>6. CASE Dispatched(r)
    <3>1. PICK c \in Command : at[r] = c /\ CarryOut(r, c) /\ GoOn(r, Next1[c])
      BY <2>6 DEF Dispatched
    <3>2. at'[r] = Next1[c] /\ late[r] = Nothing /\ late'[r] = Nothing /\ UNCHANGED <<proj, sel>>
      BY <2>6, <3>1 DEF Dispatched, GoOn, StageInv, Command
    <3>3. QED
      BY <2>1, <3>1, <3>2, CarriedPromised
  <2>7. CASE Timeout(r)
    <3>1. /\ at[r] \in Command /\ at'[r] = "failed"
          /\ UNCHANGED <<proj, sel, projects, carried>>
      BY <2>7 DEF Timeout
    <3>2. Answer(r) = "pending" /\ Answer(r)' \in {"failed", "doubtful"}
      BY <3>1 DEF Answer, Open, Calls, Command
    <3>3. QED
      BY <2>1, <3>1, <3>2, MappedAnswer
  <2>8. CASE LateCommand(r)
    <3>1. PICK c \in Command : late[r] = c
      BY <2>8 DEF LateCommand
    <3>2. /\ at[r] = "failed" /\ at'[r] = "failed" /\ late'[r] = Nothing
          /\ UNCHANGED <<proj, sel>>
      BY <2>8 DEF LateCommand, StageInv
    <3>3. CASE CarryOut(r, c)
      BY <2>1, <3>1, <3>2, <3>3, CarriedPromised
    <3>4. CASE UNCHANGED <<carried, projects>>
      <4>1. Answer(r) = "doubtful" /\ Answer(r)' = "failed"
        BY <3>1, <3>2 DEF Answer, Open, Calls, Command, Nothing
      <4>2. QED
        BY <2>1, <3>2, <3>4, <4>1, MappedAnswer
    <3>5. QED
      BY <2>8, <3>1, <3>3, <3>4 DEF LateCommand
  <2>9. QED
    BY <1>2, <2>2, <2>3, <2>4, <2>5, <2>6, <2>7, <2>8 DEF Handler
<1>3. QED
  BY <1>1, <1>2 DEF Next

\* The exec, the refreshes, the retries, the timeouts and the late commands
\* of overlapping requests add up to what SpawnPromise says of each: at most
\* one step after it failed, and an answer only with the turn.
THEOREM PromiseKept == Spec => ImplementsPromise
<1>1. Init => Promise!Init
  <2> SUFFICES ASSUME Init PROVE Promise!Init
    OBVIOUS
  <2>1. Answers = [r \in Req |-> "idle"]
    BY DEF Init, Answers, Answer, Open, Calls, Command
  <2>2. Missed = {} /\ Turned = {}
    BY SpawnAssumption DEF Init, Missed, Turned, Made, Command
  <2>3. Knowns \in Existing
    BY DEF Init, Knowns, Existing
  <2>4. Threads = [r \in Req |-> Promise!NoThread]
    <3>1. \A r \in Req : carried[r]["thread"] = 0
      BY DEF Init, Command
    <3>2. ASSUME NEW r \in Req PROVE Thread(r) = Promise!NoThread
      <4>1. ~ Made(r, "thread")
        BY <3>1 DEF Made
      <4>2. QED
        BY <4>1, Zenon DEF Thread, Promise!NoThread, Nothing
    <3>3. QED
      BY <3>2, Zenon DEF Threads
  <2>5. QED
    BY <2>1, <2>2, <2>3, <2>4 DEF Promise!Init
<1>2. TypeOK /\ (\A s \in Req : StageInv(s)) /\ (\A s \in Req : OriginInv(s)) /\ [Next]_vars =>
        [Promise!Next]_mapped
  BY PromiseStep
<1>3. QED
  BY <1>1, <1>2, TypeCorrect, StagesHold, OriginsHold, PTL
     DEF Spec, ImplementsPromise, Promise!Spec, Promise!vars, mapped
=============================================================================
