----------------------------- MODULE SpawnStage -----------------------------
(***************************************************************************)
(* The spawn-stage requests of the t3 gateway                              *)
(* (src/internal/t3/gateway.go) for one container, with the command that   *)
(* the Docker client runs for them (ExecWithStdin in                       *)
(* src/internal/dockerx/client.go).                                        *)
(*                                                                         *)
(* A request writes the retain scope into a file of its workspace, through *)
(* a shell in the container:  cat > tmp && mv tmp target.  Then it reads   *)
(* t3's projects, creates one if the workspace has none, creates a thread  *)
(* and starts its first turn.  Every call to t3 is tried once more with a  *)
(* fresh token after a 401.  Nothing keeps two requests apart, the shell   *)
(* outlives an exec that was given up, and so does a command that t3 still *)
(* works on when the 3 s of the HTTP client are over.                      *)
(*                                                                         *)
(* A file is an inode; the inode made by the shell of r is called r.  The  *)
(* scope of r is Size[r] blocks long, and a block is known by its writer   *)
(* and its place.                                                          *)
(***************************************************************************)
EXTENDS Naturals

CONSTANTS
  Req,        \* requests that pass authorization, one goroutine each
  Path,       \* workspace paths as they are written
  Workspace,  \* workspaces
  Clean,      \* filepath.Clean on Path
  Body,       \* what each request asks for
  Size,       \* blocks of the scope file of each request
  MaxSize,    \* bound on Size
  Initial,    \* what t3 may have for projects at first
  MaxGen,     \* bound on the revocations of backend tokens
  MaxFault    \* bound on failures

Nothing == "nothing"
NoModel == [instance |-> "", model |-> ""]
Agent   == {"codex", "claude", "opencode"}

Project(id, path, sel) == [id |-> id, path |-> path, sel |-> sel]

ASSUME SpawnAssumption ==
  /\ Nothing \notin Req
  /\ Clean \in [Path -> Workspace]
  /\ DOMAIN Body = Req
  /\ \A r \in Req : Body[r].path \in Path
  /\ MaxSize \in Nat
  /\ Size \in [Req -> 1..MaxSize]
  /\ \A P \in Initial : \A p \in P : p.path \in Path /\ p.id \notin Req \cup {Nothing}
  /\ \A P \in Initial : \A p, q \in P : Clean[p.path] = Clean[q.path] => p = q
  /\ MaxGen \in Nat
  /\ MaxFault \in Nat

VARIABLES
  \* the handlers
  at,        \* where ServeSpawnStage of a request is
  try,       \* which attempt of backendJSON is under way
  tok,       \* status.BackendToken, a copy of the row's
  fresh,     \* the token of the second attempt
  proj,      \* project.ID
  sel,       \* modelSelection
  row,       \* the token of the container in the service's table
  \* the shells and files in the container
  shell,     \* where the shell of a request is
  fd,        \* the inode its cat writes
  pos,       \* blocks its cat has written
  input,     \* blocks of its scope that reach it
  tmp,       \* inode of each workspace's active-retain-scope.json.tmp
  target,    \* inode of each workspace's active-retain-scope.json
  content,   \* per inode and place the writer of the block
  \* t3
  gen,       \* the token that t3 accepts; 0 is no token
  projects,  \* its projects
  carried,   \* how often it carried out each command of each request
  late,      \* a command it still works on although the handler gave up
  \* the rest
  faults,    \* failures that may still happen
  since,     \* history: gen when a request arrived
  refreshes, \* history: refreshes of a request
  cut,       \* history: requests that lost the connection of their exec
  overlapped \* history: requests that met another one of their workspace

handler == <<at, try, tok, fresh, proj, sel, row>>
files   == <<shell, fd, pos, input, tmp, target, content>>
t3      == <<projects, carried, late>>
history == <<since, refreshes, cut, overlapped>>
vars    == <<at, try, tok, fresh, proj, sel, row, shell, fd, pos, input, tmp, target,
             content, gen, projects, carried, late, faults, since, refreshes, cut,
             overlapped>>

(***************************************************************************)
(* Types.                                                                  *)
(***************************************************************************)
Command == {"project", "thread", "turn"}
Calls   == {"snapshot"} \cup Command
Open    == {"exec"} \cup Calls
Places  == {"idle", "ok", "failed"} \cup Open
Shells  == {"off", "open", "cat", "mv", "exit0", "exit1"}
Inode   == Req \cup {Nothing}
Blank   == [k \in 1..MaxSize |-> Nothing]

Ws(r) == Clean[Body[r].path]

HandlerType ==
  /\ at \in [Req -> Places]
  /\ try \in [Req -> {"first", "refresh", "second"}]
  /\ tok \in [Req -> Nat]
  /\ fresh \in [Req -> Nat]
  /\ row \in Nat
  /\ DOMAIN proj = Req /\ DOMAIN sel = Req
  /\ \A r \in Req : at[r] \in Command \cup {"ok"} => proj[r] # Nothing

FileType ==
  /\ shell \in [Req -> Shells]
  /\ fd \in [Req -> Inode]
  /\ pos \in [Req -> 0..MaxSize]
  /\ input \in [Req -> 0..MaxSize]
  /\ tmp \in [Workspace -> Inode]
  /\ target \in [Workspace -> Inode]
  /\ content \in [Req -> [1..MaxSize -> Inode]]
  /\ \A r \in Req :
       /\ input[r] <= Size[r]
       /\ shell[r] \in {"off", "open"} => pos[r] = 0
       /\ shell[r] = "cat" => fd[r] \in Req /\ pos[r] <= input[r]

T3Type ==
  /\ \A p \in projects : p.path \in Path /\ p.id # Nothing
  /\ carried \in [Req -> [Command -> Nat]]
  /\ late \in [Req -> Command \cup {Nothing}]

HistoryType ==
  /\ since \in [Req -> Nat]
  /\ refreshes \in [Req -> Nat]
  /\ cut \in SUBSET Req
  /\ overlapped \in SUBSET Req

TypeOK ==
  /\ HandlerType
  /\ FileType
  /\ T3Type
  /\ HistoryType
  /\ gen \in Nat
  /\ faults \in Nat

Init ==
  /\ at = [r \in Req |-> "idle"]
  /\ try = [r \in Req |-> "first"]
  /\ tok = [r \in Req |-> 0]
  /\ fresh = [r \in Req |-> 0]
  /\ proj = [r \in Req |-> Nothing]
  /\ sel = [r \in Req |-> NoModel]
  /\ row \in {0, 1}
  /\ shell = [r \in Req |-> "off"]
  /\ fd = [r \in Req |-> Nothing]
  /\ pos = [r \in Req |-> 0]
  /\ input = [r \in Req |-> 0]
  /\ tmp = [w \in Workspace |-> Nothing]
  /\ target = [w \in Workspace |-> Nothing]
  /\ content = [r \in Req |-> Blank]
  /\ gen = 1
  /\ projects \in Initial
  /\ carried = [r \in Req |-> [c \in Command |-> 0]]
  /\ late = [r \in Req |-> Nothing]
  /\ faults = MaxFault
  /\ since = [r \in Req |-> 0]
  /\ refreshes = [r \in Req |-> 0]
  /\ cut = {}
  /\ overlapped = {}

Fault == faults > 0 /\ faults' = faults - 1

(***************************************************************************)
(* Pure helpers of the gateway.                                            *)
(***************************************************************************)
\* validateSpawnRequest; Nothing stands for a blank prompt or bank id.
validateSpawnRequest(b) ==
  /\ b.agent \in Agent
  /\ b.prompt # Nothing
  /\ b.absolute
  /\ b.bank # Nothing

providerInstanceID(agent) == IF agent = "claude" THEN "claudeAgent" ELSE agent

defaultModel(agent) ==
  CASE agent = "claude"   -> "claude-sonnet-4-6"
    [] agent = "opencode" -> "openai/gpt-5"
    [] OTHER              -> "gpt-5.4"

\* Mutant: the default of the project is taken whatever agent it is for.
modelSelectionForAnyAgent(agent, existing) ==
  IF existing # NoModel THEN existing
    ELSE [instance |-> providerInstanceID(agent), model |-> defaultModel(agent)]

\* modelSelectionFor: the project's default, if it is for this agent.
modelSelectionFor(agent, existing) ==
  IF existing.instance = providerInstanceID(agent)
    THEN existing
    ELSE [instance |-> providerInstanceID(agent), model |-> defaultModel(agent)]

\* Mutant: the paths are compared as they are written.
projectForWorkspaceRaw(r) == {p \in projects : p.path = Body[r].path}

\* projectForWorkspace: the projects it may find first in the snapshot.
projectForWorkspace(r) == {p \in projects : Clean[p.path] = Ws(r)}

\* What a request still has under way: its handler, its shell in the
\* container, or a command in t3.
Busy(r) ==
  \/ at[r] \in Open
  \/ shell[r] \in {"open", "cat", "mv"}
  \/ late[r] # Nothing

Rivals(r) == {s \in Req \ {r} : Ws(s) = Ws(r) /\ Busy(s)}

(***************************************************************************)
(* The exec that writes the scope.                                         *)
(***************************************************************************)
\* A valid request comes in, with a copy of the container's row.
Arrive(r) ==
  /\ at[r] = "idle"
  /\ validateSpawnRequest(Body[r])
  /\ at' = [at EXCEPT ![r] = "exec"]
  /\ tok' = [tok EXCEPT ![r] = row]
  /\ since' = [since EXCEPT ![r] = gen]
  /\ overlapped' = IF Rivals(r) = {} THEN overlapped ELSE overlapped \cup Rivals(r) \cup {r}
  /\ UNCHANGED <<try, fresh, proj, sel, row, files, gen, t3, faults, refreshes, cut>>

\* ExecWithStdin starts the shell and writes the scope to the connection.
\* If that breaks, the shell gets the blocks sent so far and an end of file.
ExecStarts(r) ==
  /\ at[r] = "exec"
  /\ shell[r] = "off"
  /\ shell' = [shell EXCEPT ![r] = "open"]
  /\ \E n \in 0..Size[r] :
       /\ input' = [input EXCEPT ![r] = n]
       /\ \/ n = Size[r] /\ UNCHANGED <<faults, cut>>
          \/ n < Size[r] /\ Fault /\ cut' = cut \cup {r}
  /\ UNCHANGED <<handler, fd, pos, tmp, target, content, gen, t3, since, refreshes,
                 overlapped>>

\* Mutant: the exit code is not looked at.
ExecEndsUnchecked(r) ==
  /\ at[r] = "exec"
  /\ shell[r] \in {"exit0", "exit1"}
  /\ at' = [at EXCEPT ![r] = "snapshot"]
  /\ UNCHANGED <<try, tok, fresh, proj, sel, row, files, gen, t3, faults, history>>

\* The shell has exited and ContainerExecInspect says how.
ExecEnds(r) ==
  /\ at[r] = "exec"
  /\ shell[r] \in {"exit0", "exit1"}
  /\ at' = [at EXCEPT ![r] = IF shell[r] = "exit0" THEN "snapshot" ELSE "failed"]
  /\ UNCHANGED <<try, tok, fresh, proj, sel, row, files, gen, t3, faults, history>>

\* The connection breaks while the shell runs: StdCopy returns, its error is
\* dropped, and a process that has not exited has exit code 0.
ExecLost(r) ==
  /\ at[r] = "exec"
  /\ shell[r] \in {"open", "cat", "mv"}
  /\ Fault
  /\ at' = [at EXCEPT ![r] = "snapshot"]
  /\ cut' = cut \cup {r}
  /\ UNCHANGED <<try, tok, fresh, proj, sel, row, files, gen, t3, since, refreshes,
                 overlapped>>

\* A call to Docker returns an error, before the shell runs or after.
ExecFails(r) ==
  /\ at[r] = "exec"
  /\ Fault
  /\ at' = [at EXCEPT ![r] = "failed"]
  /\ UNCHANGED <<try, tok, fresh, proj, sel, row, files, gen, t3, history>>

(***************************************************************************)
(* The shell, in the container: it goes on whatever its request does.      *)
(***************************************************************************)
Outside == <<handler, gen, t3, history>>

\* cat > tmp: the file is made, or cut to nothing if it is there.
ShellOpens(r) ==
  LET i == IF tmp[Ws(r)] = Nothing THEN r ELSE tmp[Ws(r)]
  IN  /\ shell[r] = "open"
      /\ shell' = [shell EXCEPT ![r] = "cat"]
      /\ fd' = [fd EXCEPT ![r] = i]
      /\ tmp' = [tmp EXCEPT ![Ws(r)] = i]
      /\ content' = [content EXCEPT ![i] = Blank]
      /\ UNCHANGED <<pos, input, target, faults, Outside>>

ShellWrites(r) ==
  /\ shell[r] = "cat"
  /\ pos[r] < input[r]
  /\ pos' = [pos EXCEPT ![r] = @ + 1]
  /\ content' = [content EXCEPT ![fd[r]][pos[r] + 1] = r]
  /\ UNCHANGED <<shell, fd, input, tmp, target, faults, Outside>>

ShellReadsEOF(r) ==
  /\ shell[r] = "cat"
  /\ pos[r] = input[r]
  /\ shell' = [shell EXCEPT ![r] = "mv"]
  /\ UNCHANGED <<fd, pos, input, tmp, target, content, faults, Outside>>

\* mv tmp target; tmp may have been moved by another request's shell.
ShellMoves(r) ==
  /\ shell[r] = "mv"
  /\ IF tmp[Ws(r)] # Nothing
       THEN /\ target' = [target EXCEPT ![Ws(r)] = tmp[Ws(r)]]
            /\ tmp' = [tmp EXCEPT ![Ws(r)] = Nothing]
            /\ shell' = [shell EXCEPT ![r] = "exit0"]
       ELSE /\ shell' = [shell EXCEPT ![r] = "exit1"]
            /\ UNCHANGED <<tmp, target>>
  /\ UNCHANGED <<fd, pos, input, content, faults, Outside>>

\* mkdir, cat or mv fails, or the shell is killed.
ShellFails(r) ==
  /\ shell[r] \in {"open", "cat", "mv"}
  /\ Fault
  /\ shell' = [shell EXCEPT ![r] = "exit1"]
  /\ UNCHANGED <<fd, pos, input, tmp, target, content, Outside>>

(***************************************************************************)
(* The calls to t3: backendJSON.                                           *)
(***************************************************************************)
Trying(r) == at[r] \in Calls /\ try[r] \in {"first", "second"}

\* t3 accepts the token of the attempt under way.
Accepted(r) == gen = IF try[r] = "first" THEN tok[r] ELSE fresh[r]

Next1 == [project |-> "thread", thread |-> "turn", turn |-> "ok"]

\* openStageThread goes on to p, with the first attempt of the next call.
GoOn(r, p) ==
  /\ at' = [at EXCEPT ![r] = p]
  /\ try' = [try EXCEPT ![r] = "first"]
  /\ UNCHANGED <<tok, fresh, row, gen, files, history>>

\* t3 carries out command c of request r.
CarryOut(r, c) ==
  /\ carried' = [carried EXCEPT ![r][c] = @ + 1]
  /\ projects' = IF c = "project"
                   THEN projects \cup {Project(r, Body[r].path, sel[r])}
                   ELSE projects

\* Mutant: a project is never created.
SnapshotReadThread(r) ==
  /\ at[r] = "snapshot" /\ Trying(r) /\ Accepted(r)
  /\ proj' = [proj EXCEPT ![r] = r]
  /\ sel' = [sel EXCEPT ![r] = modelSelectionFor(Body[r].agent, NoModel)]
  /\ GoOn(r, "thread")
  /\ UNCHANGED <<t3, faults>>

\* Mutant: the id of a new project is drawn only after its creation.
SnapshotReadNoID(r) ==
  /\ at[r] = "snapshot" /\ Trying(r) /\ Accepted(r)
  /\ sel' = [sel EXCEPT ![r] = modelSelectionFor(Body[r].agent, NoModel)]
  /\ GoOn(r, "project")
  /\ UNCHANGED <<proj, t3, faults>>

\* The snapshot comes: a project of the workspace is used, or one will be
\* created under an id of its own.
SnapshotRead(r) ==
  /\ at[r] = "snapshot" /\ Trying(r) /\ Accepted(r)
  /\ \/ \E p \in projectForWorkspace(r) :
          /\ proj' = [proj EXCEPT ![r] = p.id]
          /\ sel' = [sel EXCEPT ![r] = modelSelectionFor(Body[r].agent, p.sel)]
          /\ GoOn(r, "thread")
     \/ /\ projectForWorkspace(r) = {}
        /\ proj' = [proj EXCEPT ![r] = r]
        /\ sel' = [sel EXCEPT ![r] = modelSelectionFor(Body[r].agent, NoModel)]
        /\ GoOn(r, "project")
  /\ UNCHANGED <<t3, faults>>

\* project.create, thread.create or thread.turn.start is carried out and
\* answered in time.
Dispatched(r) ==
  /\ at[r] \in Command /\ Trying(r) /\ Accepted(r)
  /\ CarryOut(r, at[r])
  /\ GoOn(r, Next1[at[r]])
  /\ UNCHANGED <<proj, sel, late, faults>>

\* The first attempt is answered with 401.
Refused(r) ==
  /\ at[r] \in Calls /\ try[r] = "first" /\ ~ Accepted(r)
  /\ try' = [try EXCEPT ![r] = "refresh"]
  /\ UNCHANGED <<at, tok, fresh, proj, sel, row, files, gen, t3, faults, history>>

\* Mutant: the fresh token is used for the retry and not kept.
RefreshedNotKept(r) ==
  /\ at[r] \in Calls /\ try[r] = "refresh"
  /\ \E t \in {0, gen} :
       /\ IF t = 0 THEN Fault ELSE UNCHANGED faults
       /\ fresh' = [fresh EXCEPT ![r] = t]
       /\ row' = t
  /\ try' = [try EXCEPT ![r] = "second"]
  /\ refreshes' = [refreshes EXCEPT ![r] = @ + 1]
  /\ UNCHANGED <<at, tok, proj, sel, files, gen, t3, since, cut, overlapped>>

\* refreshToken issues a token, stores it in the table and returns it; the
\* handler keeps it for its later calls.  The command in the container may
\* exit with 0 and an empty output, which is taken for a token.
Refreshed(r) ==
  /\ at[r] \in Calls /\ try[r] = "refresh"
  /\ \E t \in {0, gen} :
       /\ IF t = 0 THEN Fault ELSE UNCHANGED faults
       /\ fresh' = [fresh EXCEPT ![r] = t]
       /\ tok' = [tok EXCEPT ![r] = t]
       /\ row' = t
  /\ try' = [try EXCEPT ![r] = "second"]
  /\ refreshes' = [refreshes EXCEPT ![r] = @ + 1]
  /\ UNCHANGED <<at, proj, sel, files, gen, t3, since, cut, overlapped>>

\* refreshToken returns an error and the 401 of the first attempt stands, or
\* the second attempt is answered with 401 too.
StaysRefused(r) ==
  /\ at[r] \in Calls
  /\ \/ try[r] = "refresh" /\ Fault
     \/ try[r] = "second" /\ ~ Accepted(r) /\ UNCHANGED faults
  /\ at' = [at EXCEPT ![r] = "failed"]
  /\ UNCHANGED <<try, tok, fresh, proj, sel, row, files, gen, t3, history>>

\* A call fails without effect: no connection, a status that is not 2xx.
CallFails(r) ==
  /\ Trying(r)
  /\ Fault
  /\ at' = [at EXCEPT ![r] = "failed"]
  /\ UNCHANGED <<try, tok, fresh, proj, sel, row, files, gen, t3, history>>

\* Mutant: a call that timed out is tried again.
TimeoutRetried(r) ==
  /\ at[r] \in Command /\ Trying(r) /\ Accepted(r)
  /\ Fault
  /\ late' = [late EXCEPT ![r] = at[r]]
  /\ UNCHANGED <<handler, files, gen, projects, carried, history>>

\* Mutant: the error of the last dispatch is not looked at.
TimeoutOfTurnIgnored(r) ==
  /\ at[r] \in Command /\ Trying(r) /\ Accepted(r)
  /\ Fault
  /\ late' = [late EXCEPT ![r] = at[r]]
  /\ at' = [at EXCEPT ![r] = IF at[r] = "turn" THEN "ok" ELSE "failed"]
  /\ UNCHANGED <<try, tok, fresh, proj, sel, row, files, gen, projects, carried, history>>

\* t3 took the command, but the answer does not come within 3 s, is cut off
\* or is not JSON, or the client has gone: the request fails.
Timeout(r) ==
  /\ at[r] \in Command /\ Trying(r) /\ Accepted(r)
  /\ Fault
  /\ late' = [late EXCEPT ![r] = at[r]]
  /\ at' = [at EXCEPT ![r] = "failed"]
  /\ UNCHANGED <<try, tok, fresh, proj, sel, row, files, gen, projects, carried, history>>

\* t3 carries out, or drops, a command whose answer nobody waits for.
LateCommand(r) ==
  /\ late[r] # Nothing
  /\ late' = [late EXCEPT ![r] = Nothing]
  /\ CarryOut(r, late[r]) \/ UNCHANGED <<carried, projects>>
  /\ UNCHANGED <<handler, files, gen, faults, history>>

Revoke ==
  /\ gen < MaxGen
  /\ gen' = gen + 1
  /\ UNCHANGED <<handler, files, t3, faults, history>>

Handler(r) ==
  \/ ExecStarts(r) \/ ExecEnds(r) \/ ExecLost(r) \/ ExecFails(r)
  \/ SnapshotRead(r) \/ Dispatched(r)
  \/ Refused(r) \/ Refreshed(r) \/ StaysRefused(r)
  \/ CallFails(r) \/ Timeout(r)

Shell(r) ==
  ShellOpens(r) \/ ShellWrites(r) \/ ShellReadsEOF(r) \/ ShellMoves(r) \/ ShellFails(r)

Next ==
  \/ Revoke
  \/ \E r \in Req : Arrive(r) \/ Handler(r) \/ Shell(r) \/ LateCommand(r)

Spec == Init /\ [][Next]_vars

-----------------------------------------------------------------------------
(***************************************************************************)
(* Properties.                                                             *)
(***************************************************************************)
Made(r, c) == carried[r][c] > 0

\* No command is carried out twice: backendJSON repeats a call only after a
\* 401, never after a timeout that t3 may still answer by doing the work.
CommandsOnce ==
  \A r \in Req, c \in Command : carried[r][c] <= 1

\* A request refreshes the backend token once, and once more only for a
\* revocation since (gateway_test.go: "backend token refreshes = %d, want 1").
RefreshesBounded ==
  \A r \in Req : at[r] # "idle" => refreshes[r] <= 1 + (gen - since[r])

\* "DCM then creates a t3 project/thread if needed" (src/README.md:83): a
\* workspace gets a second project only from a request that met another
\* one's handler, or a command of another one that t3 was still working on.
OneProject ==
  \A p, q \in projects :
    Clean[p.path] = Clean[q.path] =>
      p = q \/ p.id \in overlapped \/ q.id \in overlapped

Whole(r) == [k \in 1..MaxSize |-> IF k <= Size[r] THEN r ELSE Nothing]

\* While a request talks to t3 its scope file is in place, whole and its
\* own, unless it met another request or lost the connection of its exec:
\* what earlier requests left behind, a shell that failed half-way or an old
\* temporary file, does no harm.
ScopeInPlace ==
  \A r \in Req :
    at[r] \in Calls /\ r \notin overlapped \cup cut =>
      /\ target[Ws(r)] # Nothing
      /\ content[target[Ws(r)]] = Whole(r)

-----------------------------------------------------------------------------
(***************************************************************************)
(* The requests implement SpawnPromise.                                    *)
(***************************************************************************)
Answer(r) ==
  CASE at[r] = "failed" -> IF late[r] = Nothing THEN "failed" ELSE "doubtful"
    [] at[r] \in Open   -> "pending"
    [] OTHER            -> at[r]

Thread(r) ==
  IF Made(r, "thread")
    THEN [project |-> proj[r], instance |-> sel[r].instance]
    ELSE [project |-> Nothing, instance |-> ""]

Known(p) == [id |-> p.id, workspace |-> Clean[p.path]]

Asked    == [r \in Req |-> [workspace |-> Ws(r), instance |-> providerInstanceID(Body[r].agent)]]
Existing == {{Known(p) : p \in P} : P \in Initial}

Answers  == [r \in Req |-> Answer(r)]
Missed   == {r \in Req : proj[r] = r}
Knowns   == {Known(p) : p \in projects}
Threads  == [r \in Req |-> Thread(r)]
Turned   == {r \in Req : Made(r, "turn")}

Promise == INSTANCE SpawnPromise
           WITH status <- Answers, missed <- Missed, projects <- Knowns,
                thread <- Threads, turned <- Turned

\* Whatever is refused, refreshed, timed out and carried out late, a request
\* makes its project, its thread and its turn in this order and each once,
\* with the turn it is answered, and once it has failed at most one more of
\* its steps takes place.
ImplementsPromise == Promise!Spec

-----------------------------------------------------------------------------
(***************************************************************************)
(* What the promise says of the state.                                     *)
(***************************************************************************)
ProjectExists(id, w) == \E p \in projects : p.id = id /\ Clean[p.path] = w

\* A request that is answered with a thread id has started exactly one turn
\* in that thread, and the thread belongs to a project of its workspace,
\* whatever was refused, refreshed and retried on the way.
OkMeansStarted ==
  \A r \in Req : at[r] = "ok" =>
    /\ ProjectExists(proj[r], Ws(r))
    /\ carried[r]["thread"] = 1
    /\ carried[r]["turn"] = 1

\* t3 is never asked to use what was not made: whichever step of
\* openStageThread fails, there is no thread without its project and no turn
\* without its thread.
NoDangling ==
  \A r \in Req :
    /\ Made(r, "thread") => ProjectExists(proj[r], Ws(r))
    /\ Made(r, "turn") => Made(r, "thread")

\* A thread runs under the agent its request named, although the project and
\* its default model may come from a request for another agent.
AgentRespected ==
  \A r \in Req : Made(r, "thread") =>
    sel[r].instance = providerInstanceID(Body[r].agent)
=============================================================================
