------------------------------ MODULE Service ------------------------------
(***************************************************************************)
(* The service of the devcontainer manager (src/internal/app/service.go),  *)
(* with the parts of the Docker client and of the t3 gateway it drives.    *)
(*                                                                         *)
(* Three loops (Docker events, configuration file, 30 s ticker) and the    *)
(* start-up code call reconcile, each when it likes: a reconcile lists and *)
(* inspects the containers, takes the backend tokens out of the published  *)
(* map, asks t3 in every container, and replaces the whole map.  No lock   *)
(* spans these steps.  Meanwhile proxied requests read the map in two      *)
(* lookups and, on a 401, write a fresh token into it.                     *)
(*                                                                         *)
(* Docker, the t3 server in a container, the file system and HTTP clients  *)
(* are the environment.  Each change they make unasked and each call they  *)
(* fail for no reason visible here uses up one unit of budget.             *)
(***************************************************************************)
EXTENDS Naturals

CONSTANTS
  Container,   \* Docker container ids
  Env,         \* t3 environment ids
  EnvOf,       \* the environment id that t3 in a container reports, or none
  ShortId,     \* the short id of a container
  Ip,          \* addresses on the networks that containers and manager share
  Addr,        \* listen addresses, [host, port]
  Configs,     \* configurations that the file may hold
  Broken,      \* a file that config.Load refuses
  Override,    \* the addresses given with -listen: none or one
  Loop,        \* the callers of reconcile that are looked at
  Proc,        \* goroutines serving /env/<id>/ requests
  MaxGen,      \* bound on the revocations of backend tokens, per container
  MaxEvents,   \* bound on unread Docker events
  MaxChange    \* bound on changes and failures of the environment

NoEnv   == ""
NoIp    == ""
NoToken == [cid |-> "", gen |-> 0]
NoBase  == [host |-> "", port |-> 0]

\* What a configuration decides: the address, the containers it discovers,
\* those t3 is enabled for once the matching rule had its say, and whether
\* backend tokens are issued.
Config == [listen : Addr, discovers : SUBSET Container,
           t3 : SUBSET Container, auto : BOOLEAN]

ASSUME ServiceAssumption ==
  /\ "" \notin Env
  /\ "" \notin Container
  /\ "" \notin Ip
  /\ EnvOf \in [Container -> Env \cup {NoEnv}]
  /\ ShortId \in [Container -> Env]
  /\ Configs \subseteq Config
  /\ Broken \notin Configs
  /\ Override \subseteq Addr
  /\ "main" \in Loop
  /\ MaxGen \in Nat
  /\ MaxEvents \in Nat
  /\ MaxChange \in Nat

VARIABLES
  \* the environment
  docker,      \* life of each container, and whether t3 answers in it
  ip,          \* the address of each container, none unless it runs
  gen,         \* per container, how often its backend tokens were revoked
  file,        \* the configuration file
  budget,      \* changes and failures the environment may still cause
  \* the service
  cfg,         \* s.cfg
  serving,     \* Run has started the server and the loops
  bound,       \* the addresses the server listens on: none or one
  containers,  \* s.containers, a function on the listed container ids
  stream,      \* the Docker event stream is up
  events,      \* Docker events not yet read
  dirty,       \* a file event of the configuration is not yet read
  timer,       \* the debounce timer of watchConfig is armed
  \* the reconcile under way in each loop
  phase, using, todo, rows,
  \* the requests
  pc, req,
  \* history: loops past CopyTokens that another reconcile or a refresh has
  \* overtaken, so that the tokens they took over may be old
  overtaken,
  \* history: <<container, address>> that containers gave up by stopping
  lost

places  == <<docker, ip, lost>>
world   == <<places, gen, file, budget>>
signals == <<stream, events, dirty, timer>>
table   == <<containers, overtaken>>
work    == <<phase, using, todo, rows>>
vars    == <<docker, ip, gen, file, budget, cfg, serving, bound, containers, stream,
             events, dirty, timer, phase, using, todo, rows, pc, req, overtaken, lost>>

(***************************************************************************)
(* Types.                                                                  *)
(***************************************************************************)
Life   == {"new", "stopped", "running", "serving", "gone"}
Status == {"", "disabled", "stopped", "unreachable", "not-ready",
           "ready-no-token", "ready"}
Token  == [cid : Container, gen : Nat]

\* publicBaseURL: the address a browser on this host uses.
publicBaseURL(listen) ==
  [host |-> IF listen.host \in {"", "0.0.0.0", "::", "127.0.0.1", "::1"}
              THEN "localhost" ELSE listen.host,
   port |-> listen.port]

Base == {publicBaseURL(a) : a \in Addr}

\* The parts of model.Container and T3Status that decide anything here.  ip is
\* ContainerIP, and the address in BackendURL once that is set (backend).
Row == [running : BOOLEAN, ip : Ip \cup {NoIp}, env : Env \cup {NoEnv},
        status : Status, backend : BOOLEAN, base : Base \cup {NoBase},
        token : Token \cup {NoToken}]

\* A Go map from container ids to rows.
IsTable(m) == DOMAIN m \subseteq Container /\ m \in [DOMAIN m -> Row]

\* addr is the address in the BackendURL of the row that the request was
\* routed to.
Request   == [env : Env, cid : Container \cup {""}, addr : Ip \cup {NoIp},
              token : Token \cup {NoToken}]
NoRequest == [env |-> NoEnv, cid |-> "", addr |-> NoIp, token |-> NoToken]

Phases == {"idle", "list", "inspect", "t3"}
PCs    == {"idle", "lookup", "first", "refresh", "save", "retry"}

TypeOK ==
  /\ docker \in [Container -> Life]
  /\ ip \in [Container -> Ip \cup {NoIp}]
  /\ gen \in [Container -> Nat]
  /\ file \in Configs \cup {Broken}
  /\ budget \in Nat
  /\ cfg \in Config
  /\ serving \in BOOLEAN
  /\ bound \in SUBSET Addr
  /\ IsTable(containers)
  /\ stream \in BOOLEAN
  /\ events \in Nat
  /\ dirty \in BOOLEAN
  /\ timer \in BOOLEAN
  /\ phase \in [Loop -> Phases]
  /\ using \in [Loop -> Config]
  /\ todo \in [Loop -> SUBSET Container]
  /\ DOMAIN rows = Loop
  /\ \A r \in Loop : IsTable(rows[r])
  /\ pc \in [Proc -> PCs]
  /\ req \in [Proc -> Request \cup {NoRequest}]
  /\ \A r \in Loop : phase[r] = "t3" => todo[r] \subseteq DOMAIN rows[r]
  /\ \A q \in Proc : /\ pc[q] # "idle" => req[q] \in Request
                     /\ pc[q] \notin {"idle", "lookup"} => req[q].cid \in Container
  /\ overtaken \in SUBSET Loop
  /\ lost \in SUBSET (Container \X Ip)

(***************************************************************************)
(* Rows of the map.                                                        *)
(***************************************************************************)
\* recordFromInspect: a row before the gateway has looked at the container.
BlankRow(run, addr) ==
  [running |-> run, ip |-> addr, env |-> NoEnv, status |-> "", backend |-> FALSE,
   base |-> NoBase, token |-> NoToken]

EmptyTable == [c \in {} |-> BlankRow(FALSE, NoIp)]

\* Mutant: the token is assigned to a copy of the row.
WithTokenLost(row, t) == row

\* container.T3.BackendToken = t.
WithToken(row, t) ==
  [running |-> row.running, ip |-> row.ip, env |-> row.env, status |-> row.status,
   backend |-> row.backend, base |-> row.base, token |-> t]

\* A return of ReconcileContainer before the probe succeeds.
WithStatus(row, status, backend) ==
  [running |-> row.running, ip |-> row.ip, env |-> NoEnv, status |-> status,
   backend |-> backend, base |-> NoBase, token |-> row.token]

\* A return of ReconcileContainer after the probe.
ReadyRow(row, env, config, status, t) ==
  [running |-> row.running, ip |-> row.ip, env |-> env, status |-> status,
   backend |-> TRUE, base |-> publicBaseURL(config.listen), token |-> t]

\* m[c] = row for a Go map m.
Put(m, c, row) ==
  [d \in DOMAIN m \cup {c} |-> IF d = c THEN row ELSE m[d]]

Running(c) == docker[c] \in {"running", "serving"}

\* The t3 server that a call to an address reaches: none, or the one in the
\* container that has the address at the moment of the call.
Answering(a) == {d \in Container : docker[d] = "serving" /\ ip[d] = a}

\* The environment id that the probe made for c gets from t3 in d.
EnvFrom(d, c) == IF EnvOf[d] = NoEnv THEN ShortId[c] ELSE EnvOf[d]

\* A token that t3 auth session issue prints now, and one t3 still accepts.
Issued(c)   == [cid |-> c, gen |-> gen[c]]
Valid(c, t) == t = Issued(c)

\* The environment does something that it need not do.
Spend == budget > 0 /\ budget' = budget - 1

(***************************************************************************)
(* Start-up: main loads the file and applies -listen, New stores the       *)
(* result, Run reconciles once and then starts the server and the loops.   *)
(***************************************************************************)
\* main: the loaded file with the address given with -listen.
WithListen(f) ==
  [listen    |-> IF Override = {} THEN f.listen ELSE CHOOSE a \in Override : TRUE,
   discovers |-> f.discovers, t3 |-> f.t3, auto |-> f.auto]

Init ==
  /\ docker \in [Container -> Life \ {"gone"}]
  /\ ip \in [Container -> Ip \cup {NoIp}]
  /\ \A c \in Container : ip[c] # NoIp => Running(c)
  /\ \A c, d \in Container : ip[c] = ip[d] => c = d \/ ip[c] = NoIp
  /\ gen = [c \in Container |-> 0]
  /\ file \in Configs
  /\ budget = MaxChange
  /\ cfg = WithListen(file)
  /\ serving = FALSE
  /\ bound = {}
  /\ containers = EmptyTable
  /\ stream = FALSE
  /\ events = 0
  /\ dirty = FALSE
  /\ timer = FALSE
  /\ phase = [r \in Loop |-> IF r = "main" THEN "list" ELSE "idle"]
  /\ using = [r \in Loop |-> cfg]
  /\ todo = [r \in Loop |-> {}]
  /\ rows = [r \in Loop |-> EmptyTable]
  /\ pc = [q \in Proc |-> "idle"]
  /\ req = [q \in Proc |-> NoRequest]
  /\ overtaken = {}
  /\ lost = {}

\* Run after its first reconcile, whether that one failed or not.
Serve ==
  /\ ~ serving
  /\ phase["main"] = "idle"
  /\ serving' = TRUE
  /\ bound' = {cfg.listen}
  /\ stream' = TRUE
  /\ UNCHANGED <<world, cfg, table, events, dirty, timer, work, pc, req>>

(***************************************************************************)
(* reconcile, step by step, in loop r.                                     *)
(***************************************************************************)
Begin(r, config) ==
  /\ serving
  /\ phase[r] = "idle"
  /\ phase' = [phase EXCEPT ![r] = "list"]
  /\ using' = [using EXCEPT ![r] = config]
  /\ UNCHANGED <<todo, rows>>

Stop(r) ==
  /\ phase' = [phase EXCEPT ![r] = "idle"]
  /\ todo' = [todo EXCEPT ![r] = {}]
  /\ rows' = [rows EXCEPT ![r] = EmptyTable]
  /\ UNCHANGED using

\* ContainerList answers, with stopped containers too.
List(r) ==
  /\ phase[r] = "list"
  /\ phase' = [phase EXCEPT ![r] = "inspect"]
  /\ todo' = [todo EXCEPT ![r] = {c \in Container : docker[c] \notin {"new", "gone"}}]
  /\ UNCHANGED <<world, cfg, serving, bound, table, signals, using, rows, pc, req>>

\* ContainerList fails: reconcile returns and publishes nothing.
ListFails(r) ==
  /\ phase[r] = "list"
  /\ Spend
  /\ Stop(r)
  /\ UNCHANGED <<places, gen, file, cfg, serving, bound, table, signals, pc, req>>

\* ContainerInspect answers: a container that is not discovered is dropped.
Inspect(r, c) ==
  /\ phase[r] = "inspect"
  /\ c \in todo[r]
  /\ docker[c] # "gone"
  /\ todo' = [todo EXCEPT ![r] = @ \ {c}]
  /\ rows' = [rows EXCEPT ![r] = IF c \in using[r].discovers
                                   THEN Put(@, c, BlankRow(Running(c), ip[c])) ELSE @]
  /\ UNCHANGED <<world, cfg, serving, bound, table, signals, phase, using, pc, req>>

\* ContainerInspect fails, because the container is gone by now or because
\* of Docker or the 20 s timeout: it is left out of this reconcile.
InspectFails(r, c) ==
  /\ phase[r] = "inspect"
  /\ c \in todo[r]
  /\ IF docker[c] = "gone" THEN UNCHANGED budget ELSE Spend
  /\ todo' = [todo EXCEPT ![r] = @ \ {c}]
  /\ UNCHANGED <<places, gen, file, cfg, serving, bound, table, signals, phase,
                 using, rows, pc, req>>

\* Mutant: the loop after the copy ranges over the previous map.
CopyTokensOfPrevious(r) ==
  /\ phase[r] = "inspect"
  /\ todo[r] = {}
  /\ phase' = [phase EXCEPT ![r] = "t3"]
  /\ todo' = [todo EXCEPT ![r] = DOMAIN containers]
  /\ overtaken' = overtaken \ {r}
  /\ UNCHANGED <<world, cfg, serving, bound, containers, signals, using, rows, pc, req>>

\* The published map is copied under RLock and its tokens are taken over.
CopyTokens(r) ==
  /\ phase[r] = "inspect"
  /\ todo[r] = {}
  /\ phase' = [phase EXCEPT ![r] = "t3"]
  /\ todo' = [todo EXCEPT ![r] = DOMAIN rows[r]]
  /\ rows' = [rows EXCEPT ![r] =
                [c \in DOMAIN @ |-> IF c \in DOMAIN containers
                                      THEN WithToken(@[c], containers[c].token)
                                      ELSE @[c]]]
  /\ overtaken' = overtaken \ {r}
  /\ UNCHANGED <<world, cfg, serving, bound, containers, signals, using, pc, req>>

\* The loops that have copied the tokens and not yet published.
AtTokens == {r \in Loop : phase[r] = "t3"}

\* It is the turn of c in the loop that calls ReconcileContainer.
AtT3(r, c) == phase[r] = "t3" /\ c \in todo[r]

\* ReconcileContainer returns with this row.
T3Done(r, c, row) ==
  /\ todo' = [todo EXCEPT ![r] = @ \ {c}]
  /\ rows' = [rows EXCEPT ![r] = Put(@, c, row)]
  /\ UNCHANGED <<places, gen, file, cfg, serving, bound, table, signals, phase,
                 using, pc, req>>

\* The container is worth a probe: it ran, and had an address, when it was
\* inspected.
Probed(r, c) == c \in using[r].t3 /\ rows[r][c].running /\ rows[r][c].ip # NoIp

\* Mutant: a container that the map has is taken to have its token.
WantedIfNew(r, c) == using[r].auto /\ c \notin DOMAIN containers

\* A backend token has to be issued.
Wanted(r, c) == using[r].auto /\ rows[r][c].token = NoToken

\* ReconcileContainer up to the probe: disabled, stopped, without address.
T3Skipped(r, c) ==
  /\ AtT3(r, c)
  /\ ~ Probed(r, c)
  /\ T3Done(r, c, WithStatus(rows[r][c],
                             CASE c \notin using[r].t3      -> "disabled"
                               [] ~ rows[r][c].running      -> "stopped"
                               [] OTHER                     -> "unreachable",
                             FALSE))
  /\ UNCHANGED budget

\* The probe fails.  It goes to the address that the container had when it
\* was inspected.
T3NotReady(r, c) ==
  /\ AtT3(r, c)
  /\ Probed(r, c)
  /\ IF Answering(rows[r][c].ip) = {} THEN UNCHANGED budget ELSE Spend
  /\ T3Done(r, c, WithStatus(rows[r][c], "not-ready", TRUE))

\* The probe is answered by t3 in d and no token has to be issued.
T3Ready(r, c) ==
  /\ AtT3(r, c)
  /\ Probed(r, c)
  /\ ~ Wanted(r, c)
  /\ \E d \in Answering(rows[r][c].ip) :
       T3Done(r, c, ReadyRow(rows[r][c], EnvFrom(d, c), using[r], "ready",
                             rows[r][c].token))
  /\ UNCHANGED budget

\* The probe is answered by t3 in d, and a command in c issues a token.
T3Issues(r, c) ==
  /\ AtT3(r, c)
  /\ Probed(r, c)
  /\ Wanted(r, c)
  /\ Running(c)
  /\ \E d \in Answering(rows[r][c].ip) :
       T3Done(r, c, ReadyRow(rows[r][c], EnvFrom(d, c), using[r], "ready", Issued(c)))
  /\ UNCHANGED budget

\* The probe is answered by t3 in d; the command in c fails, because c does
\* not run any more or for a reason of its own.
T3IssueFails(r, c) ==
  /\ AtT3(r, c)
  /\ Probed(r, c)
  /\ Wanted(r, c)
  /\ IF Running(c) THEN Spend ELSE UNCHANGED budget
  /\ \E d \in Answering(rows[r][c].ip) :
       T3Done(r, c, ReadyRow(rows[r][c], EnvFrom(d, c), using[r], "ready-no-token",
                             NoToken))

\* The command in c exits with 0 and an empty output, as it does for Exec
\* when reading the output breaks off; that is taken for a token.
T3IssuesEmpty(r, c) ==
  /\ AtT3(r, c)
  /\ Probed(r, c)
  /\ Wanted(r, c)
  /\ Running(c)
  /\ Spend
  /\ \E d \in Answering(rows[r][c].ip) :
       T3Done(r, c, ReadyRow(rows[r][c], EnvFrom(d, c), using[r], "ready", NoToken))

\* Mutant: the new rows are written into the old map.
PublishMerges(r) ==
  /\ phase[r] = "t3"
  /\ todo[r] = {}
  /\ containers' = [c \in DOMAIN containers \cup DOMAIN rows[r] |->
                      IF c \in DOMAIN rows[r] THEN rows[r][c] ELSE containers[c]]
  /\ overtaken' = (overtaken \cup AtTokens) \ {r}
  /\ Stop(r)
  /\ UNCHANGED <<world, cfg, serving, bound, signals, pc, req>>

\* The map is replaced under mu.  (sync.Reconcile comes before; it changes
\* nothing that is modelled here.)
Publish(r) ==
  /\ phase[r] = "t3"
  /\ todo[r] = {}
  /\ containers' = rows[r]
  /\ overtaken' = (overtaken \cup AtTokens) \ {r}
  /\ Stop(r)
  /\ UNCHANGED <<world, cfg, serving, bound, signals, pc, req>>

ReconcileStep(r) ==
  \/ List(r)
  \/ ListFails(r)
  \/ CopyTokens(r)
  \/ Publish(r)
  \/ \E c \in Container :
       \/ Inspect(r, c)
       \/ InspectFails(r, c)
       \/ T3Skipped(r, c)
       \/ T3NotReady(r, c)
       \/ T3Ready(r, c)
       \/ T3Issues(r, c)
       \/ T3IssueFails(r, c)
       \/ T3IssuesEmpty(r, c)

(***************************************************************************)
(* What starts a reconcile.                                                *)
(***************************************************************************)
\* watchDocker reads an event.
DockerEvent ==
  /\ "docker" \in Loop
  /\ events > 0
  /\ Begin("docker", cfg)
  /\ events' = events - 1
  /\ UNCHANGED <<world, cfg, serving, bound, table, stream, dirty, timer, pc, req>>

\* watchDocker subscribes again after the error of the stream.
DockerResubscribe ==
  /\ "docker" \in Loop
  /\ serving
  /\ phase["docker"] = "idle"
  /\ ~ stream
  /\ stream' = TRUE
  /\ UNCHANGED <<world, cfg, serving, bound, table, events, dirty, timer, work, pc, req>>

\* Mutant: file events that come during a reconcile are thrown away.
ConfigEventIfIdle ==
  /\ "config" \in Loop
  /\ dirty
  /\ dirty' = FALSE
  /\ timer' = (timer \/ phase["config"] = "idle")
  /\ UNCHANGED <<world, cfg, serving, bound, table, stream, events, work, pc, req>>

\* watchConfig reads a file event and arms the timer anew.
ConfigEvent ==
  /\ "config" \in Loop
  /\ phase["config"] = "idle"
  /\ dirty
  /\ dirty' = FALSE
  /\ timer' = TRUE
  /\ UNCHANGED <<world, cfg, serving, bound, table, stream, events, work, pc, req>>

\* The timer fires and the file is loaded.  The loaded configuration takes
\* the place of the old one as a whole: -listen is not applied again.
ConfigLoaded ==
  /\ "config" \in Loop
  /\ timer
  /\ file # Broken
  /\ timer' = FALSE
  /\ cfg' = file
  /\ Begin("config", file)
  /\ UNCHANGED <<world, serving, bound, table, stream, events, dirty, pc, req>>

\* The timer fires and Load returns an error: the old configuration stays.
ConfigRejected ==
  /\ "config" \in Loop
  /\ phase["config"] = "idle"
  /\ timer
  /\ file = Broken
  /\ timer' = FALSE
  /\ UNCHANGED <<world, cfg, serving, bound, table, stream, events, dirty, work, pc, req>>

\* periodicReconcile gets a tick.
Tick ==
  /\ "ticker" \in Loop
  /\ Begin("ticker", cfg)
  /\ UNCHANGED <<world, cfg, serving, bound, table, signals, pc, req>>

(***************************************************************************)
(* A proxied request: handleEnvProxy, then proxyHTTP or proxyWebsocket.    *)
(* Only requests that the gateway authorizes are looked at.                *)
(***************************************************************************)
Move(q, label, r) ==
  /\ pc' = [pc EXCEPT ![q] = label]
  /\ req' = [req EXCEPT ![q] = r]
  /\ UNCHANGED <<places, gen, file, cfg, serving, bound, signals, work>>

Answer(q) == Move(q, "idle", NoRequest)

\* Rows that containerByEnv and environments give for an environment id.
Serves(e) == {c \in DOMAIN containers : containers[c].env = e}

\* environment(envID) finds it.
Arrive(q, e) ==
  /\ serving
  /\ pc[q] = "idle"
  /\ Serves(e) # {}
  /\ Move(q, "lookup", [env |-> e, cid |-> "", addr |-> NoIp, token |-> NoToken])
  /\ UNCHANGED <<table, budget>>

\* Mutant: the address is that of another row with the environment id.
RouteMixes(q) ==
  /\ pc[q] = "lookup"
  /\ \E c, d \in Serves(req[q].env) :
       /\ containers[c].backend
       /\ Move(q, "first", [env |-> req[q].env, cid |-> c, addr |-> containers[d].ip,
                            token |-> containers[c].token])
  /\ UNCHANGED <<table, budget>>

\* containerByEnv, under the lock taken anew, finds some container with it
\* and the handler keeps a copy of the row.
Route(q) ==
  /\ pc[q] = "lookup"
  /\ \E c \in Serves(req[q].env) :
       /\ containers[c].backend
       /\ Move(q, "first", [env |-> req[q].env, cid |-> c, addr |-> containers[c].ip,
                            token |-> containers[c].token])
  /\ UNCHANGED <<table, budget>>

\* containerByEnv finds nothing, or a row without backend.
RouteFails(q) ==
  /\ pc[q] = "lookup"
  /\ \A c \in Serves(req[q].env) : ~ containers[c].backend
  /\ Answer(q)
  /\ UNCHANGED <<table, budget>>

\* The first attempt is answered: by t3, or by an error that ends the
\* request.
FirstEnds(q) ==
  /\ pc[q] = "first"
  /\ Answer(q)
  /\ UNCHANGED <<table, budget>>

\* The t3 at the address in the row answers the first attempt with 401, as it
\* does unless it issued the token; or, for a websocket, asking for a wsToken
\* fails in whatever way.
FirstRefused(q) ==
  /\ pc[q] = "first"
  /\ IF \E d \in Answering(req[q].addr) : Valid(d, req[q].token)
       THEN Spend ELSE UNCHANGED budget
  /\ Move(q, "refresh", req[q])
  /\ UNCHANGED table

\* RefreshBackendToken gets a token out of the container.
Refresh(q) ==
  LET c == req[q].cid
  IN  /\ pc[q] = "refresh"
      /\ Running(c)
      /\ Move(q, "save", [req[q] EXCEPT !.token = Issued(c)])
      /\ UNCHANGED <<table, budget>>

\* RefreshBackendToken prints nothing and exits with 0.
RefreshEmpty(q) ==
  LET c == req[q].cid
  IN  /\ pc[q] = "refresh"
      /\ Running(c)
      /\ Spend
      /\ Move(q, "save", [req[q] EXCEPT !.token = NoToken])
      /\ UNCHANGED table

\* RefreshBackendToken fails: the client gets the first answer.
RefreshFails(q) ==
  /\ pc[q] = "refresh"
  /\ IF Running(req[q].cid) THEN Spend ELSE UNCHANGED budget
  /\ Answer(q)
  /\ UNCHANGED table

\* Mutant: the token goes to whichever container has the environment by now.
SaveByEnv(q) ==
  /\ pc[q] = "save"
  /\ \E c \in Serves(req[q].env) \cup {req[q].cid} :
       containers' = Put(containers, c,
                         WithToken(IF c \in DOMAIN containers THEN containers[c]
                                                               ELSE BlankRow(FALSE, NoIp),
                                   req[q].token))
  /\ overtaken' = overtaken \cup AtTokens
  /\ Move(q, "retry", req[q])
  /\ UNCHANGED budget

\* Mutant: the row is built anew from what the request knows.
SaveBuildsRow(q) ==
  /\ pc[q] = "save"
  /\ containers' = Put(containers, req[q].cid,
                       WithToken([BlankRow(TRUE, req[q].addr) EXCEPT !.env = req[q].env],
                                 req[q].token))
  /\ overtaken' = overtaken \cup AtTokens
  /\ Move(q, "retry", req[q])
  /\ UNCHANGED budget

\* The refreshed token is written into the row, under mu.  A container that
\* the map no longer has gets a row that is empty but for the token.
Save(q) ==
  LET c   == req[q].cid
      row == IF c \in DOMAIN containers THEN containers[c] ELSE BlankRow(FALSE, NoIp)
  IN  /\ pc[q] = "save"
      /\ containers' = Put(containers, c, WithToken(row, req[q].token))
      /\ overtaken' = overtaken \cup AtTokens
      /\ Move(q, "retry", req[q])
      /\ UNCHANGED budget

\* The second attempt is answered, whatever the answer.
Retry(q) ==
  /\ pc[q] = "retry"
  /\ Answer(q)
  /\ UNCHANGED <<table, budget>>

RequestStep(q) ==
  \/ Route(q)
  \/ RouteFails(q)
  \/ FirstEnds(q)
  \/ FirstRefused(q)
  \/ Refresh(q)
  \/ RefreshEmpty(q)
  \/ RefreshFails(q)
  \/ Save(q)
  \/ Retry(q)

(***************************************************************************)
(* The environment.                                                        *)
(***************************************************************************)
\* Docker reports start, die, restart and destroy; it does not report that
\* a container was created, nor what t3 in it does.
QuietChange == {<<"new", "stopped">>, <<"running", "serving">>, <<"serving", "running">>}
ReportedChange == {<<"stopped", "running">>, <<"running", "stopped">>,
                   <<"serving", "stopped">>, <<"stopped", "gone">>}

\* A container that starts gets an address that no other has, or none; one
\* that stops gives its address up.
Free == {a \in Ip : \A c \in Container : ip[c] # a}

Readdress(c, to) ==
  \/ /\ docker[c] = "stopped" /\ to = "running"
     /\ \E a \in Free \cup {NoIp} : ip' = [ip EXCEPT ![c] = a]
     /\ UNCHANGED lost
  \/ /\ to = "stopped" /\ ip[c] # NoIp
     /\ ip' = [ip EXCEPT ![c] = NoIp]
     /\ lost' = lost \cup {<<c, ip[c]>>}
  \/ /\ ~ (docker[c] = "stopped" /\ to = "running")
     /\ to = "stopped" => ip[c] = NoIp
     /\ UNCHANGED <<ip, lost>>

ContainerChanges(c) ==
  /\ Spend
  /\ \E to \in Life :
       /\ docker' = [docker EXCEPT ![c] = to]
       /\ Readdress(c, to)
       /\ \/ <<docker[c], to>> \in QuietChange /\ UNCHANGED events
          \/ /\ <<docker[c], to>> \in ReportedChange
             /\ events' = IF stream /\ events < MaxEvents THEN events + 1 ELSE events
  /\ UNCHANGED <<gen, file, cfg, serving, bound, table, stream, dirty, timer, work,
                 pc, req>>

\* t3 revokes the backend tokens of a container.
Revoke(c) ==
  /\ gen[c] < MaxGen
  /\ Spend
  /\ gen' = [gen EXCEPT ![c] = @ + 1]
  /\ UNCHANGED <<places, file, cfg, serving, bound, table, signals, work, pc, req>>

\* The event stream breaks: what was not read is lost.
StreamBreaks ==
  /\ stream
  /\ Spend
  /\ stream' = FALSE
  /\ events' = 0
  /\ UNCHANGED <<places, gen, file, cfg, serving, bound, table, dirty, timer, work,
                 pc, req>>

\* The file is written.  watchConfig watches only once Run has started it.
EditFile(f) ==
  /\ Spend
  /\ file' = f
  /\ dirty' = (serving \/ dirty)
  /\ UNCHANGED <<places, gen, cfg, serving, bound, table, stream, events, timer,
                 work, pc, req>>

Environment ==
  \/ StreamBreaks
  \/ \E c \in Container : ContainerChanges(c) \/ Revoke(c)
  \/ \E f \in Configs \cup {Broken} : EditFile(f)

Next ==
  \/ Serve
  \/ DockerEvent
  \/ DockerResubscribe
  \/ ConfigEvent
  \/ ConfigLoaded
  \/ ConfigRejected
  \/ Tick
  \/ \E r \in Loop : ReconcileStep(r)
  \/ \E q \in Proc : RequestStep(q) \/ \E e \in Env : Arrive(q, e)
  \/ Environment

Spec == Init /\ [][Next]_vars

\* The loop may be running a command in a container: getent for the home
\* directory of one that is inspected, t3 auth session issue for one whose
\* probe is answered, or, before the map is replaced, a test of a path of a
\* session that is to be created.  Exec reads the output from a hijacked
\* connection that no context closes, so the 20 s of the reconcile do not end
\* a command that hangs.
AtExec(r) ==
  \/ /\ phase[r] = "inspect"
     /\ \E c \in todo[r] \cap using[r].discovers : Running(c)
  \/ /\ phase[r] = "t3"
     /\ \E c \in todo[r] :
          Probed(r, c) /\ Wanted(r, c) /\ Answering(rows[r][c].ip) # {}
  \/ /\ phase[r] = "t3"
     /\ todo[r] = {}
     /\ \E c \in DOMAIN rows[r] : rows[r][c].running

\* Goroutines are scheduled, the ticker ticks, timers fire, and a call to
\* Docker or t3 that is not a command ends with its context or its timeout at
\* the latest.  Main's reconcile has no timeout, a request waits for commands,
\* and a client may never come: nothing is assumed of them, nor of the
\* environment but that its changes and failures come to an end (budget).
Fairness ==
  /\ WF_vars(Serve)
  /\ WF_vars(DockerEvent)
  /\ WF_vars(DockerResubscribe)
  /\ WF_vars(ConfigEvent)
  /\ WF_vars(ConfigLoaded \/ ConfigRejected)
  /\ WF_vars(Tick)
  /\ \A r \in Loop \ {"main"} : WF_vars(~ AtExec(r) /\ ReconcileStep(r))

LiveSpec == Spec /\ Fairness

-----------------------------------------------------------------------------
(***************************************************************************)
(* Properties.                                                             *)
(***************************************************************************)
Owned(c, t) == t # NoToken => t.cid = c

\* A backend token is only ever kept for the container that issued it: through
\* the copy of the map in reconcile, the refresh of a request, and the lookup
\* by an environment id that two containers share.  And a request that carries
\* one goes to an address that its issuer has, or had until it stopped: another
\* container gets the token only when it was given the address that the issuer
\* gave up after reconcile had inspected it.
TokenOwner ==
  /\ \A c \in DOMAIN containers : Owned(c, containers[c].token)
  /\ \A r \in Loop : \A c \in DOMAIN rows[r] : Owned(c, rows[r][c].token)
  /\ \A q \in Proc : Owned(req[q].cid, req[q].token)
  /\ \A q \in Proc : \A d \in Container :
       /\ pc[q] \in {"first", "retry"}
       /\ req[q].token # NoToken
       /\ ip[d] = req[q].addr
       => d = req[q].token.cid \/ <<req[q].token.cid, req[q].addr>> \in lost

Routable(c, row) ==
  row.env # NoEnv => /\ row.running
                     /\ row.backend /\ row.ip # NoIp
                     /\ row.base # NoBase
                     /\ row.env = EnvFrom(c, c) \/ <<c, row.ip>> \in lost

\* A row that handleEnvProxy can find by its environment id is whole: it
\* was running, and it has a backend with an address, a public address, and
\* the id of its own container, unless that has given the address up and the
\* next owner may have answered the probe.  In particular the bare row that a
\* late refresh leaves for a container that the map no longer has is never
\* found, and the answer "environment backend is not ready" is never given.
RoutableRows ==
  /\ \A c \in DOMAIN containers : Routable(c, containers[c])
  /\ \A r \in Loop : \A c \in DOMAIN rows[r] : Routable(c, rows[r][c])

\* A listed container keeps its backend token through reconciles that find
\* it stopped, disabled or not ready, however many loops reconcile: a step
\* that replaces its token by another or by none is a refresh of that
\* container by a request, or the publication of a reconcile that copied
\* the tokens before another publication or a refresh.
TokenKept ==
  [][\A c \in DOMAIN containers \cap DOMAIN containers' :
       containers[c].token # NoToken =>
         \/ containers'[c].token = containers[c].token
         \/ \E q \in Proc : pc[q] = "save" /\ pc'[q] = "retry" /\ req[q].cid = c
         \/ \E r \in overtaken : phase[r] = "t3" /\ phase'[r] = "idle"]_vars

\* The row that a container should have, but for its status and its token.
Right(c, row) ==
  LET reached == c \in cfg.t3 /\ ip[c] # NoIp
      ready   == reached /\ docker[c] = "serving"
  IN  /\ row.running = Running(c)
      /\ row.ip = ip[c]
      /\ row.backend = reached
      /\ row.env = IF ready THEN EnvFrom(c, c) ELSE NoEnv
      /\ row.base = IF ready THEN publicBaseURL(cfg.listen) ELSE NoBase

\* The map agrees with Docker, with t3 and with the configuration, and has a
\* token for every environment that is to have one.
Converged ==
  /\ DOMAIN containers = {c \in cfg.discovers : docker[c] \notin {"new", "gone"}}
  /\ \A c \in DOMAIN containers :
       /\ Right(c, containers[c])
       /\ cfg.auto /\ containers[c].env # NoEnv => containers[c].token # NoToken

\* Once the environment leaves the service alone the published map becomes
\* right and stays right, provided the first reconcile ends and no command
\* hangs in one of the ticker: whatever events were lost, whatever reconcile
\* with an older view or an older configuration publishes last, whatever row a
\* late refresh adds, and though an empty output was taken for a token, the
\* ticker repairs it.
TableConverges == <>serving /\ []<>~ AtExec("ticker") => <>[]Converged

\* A configuration written while watchConfig watches is loaded, unless the
\* file changes again, provided no command hangs in a reconcile of its own: no
\* file event is lost to a reconcile under way or to the debounce timer.
EditPickedUp ==
  []<>~ AtExec("config") =>
    \A f \in Configs : (dirty /\ file = f) ~> (cfg = f \/ file # f)

\* "Upstream t3 401s still use the existing backend-token refresh path [...]
\* and update the live container state before retrying the proxied request"
\* (src/README.md:45-47): at the retry a listed container's row has the
\* refreshed token, or a later one.
RefreshedTokenSticks ==
  \A q \in Proc :
    pc[q] = "retry" /\ req[q].token # NoToken /\ req[q].cid \in DOMAIN containers =>
      /\ containers[req[q].cid].token # NoToken
      /\ containers[req[q].cid].token.gen >= req[q].token.gen

\* "HTTP listen address override" (src/cmd/devcontainer-manager/main.go:23):
\* the public address of an environment is one the server listens on.
AdvertisedAddressIsBound ==
  \A c \in DOMAIN containers :
    serving /\ containers[c].base # NoBase =>
      containers[c].base \in {publicBaseURL(a) : a \in bound}
=============================================================================
