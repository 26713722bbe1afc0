----------------------------- MODULE Discovery -----------------------------
(***************************************************************************)
(* How the Docker client finds containers and makes them reachable:        *)
(* ListDevcontainers and all it calls in src/internal/dockerx/client.go,   *)
(* with the configuration it reads, src/internal/config/config.go.         *)
(*                                                                         *)
(* Every reconcile lists the containers and takes them one by one: it      *)
(* inspects the container, leaves it out unless a label or its name makes  *)
(* it a dev container, resolves the user and looks up that user's home,    *)
(* joins it to the configured network if it is not on it, and records the  *)
(* address it is to be reached at.  Several loops reconcile at a time, so  *)
(* two may join the same container; meanwhile containers stop, restart     *)
(* with other addresses and leave networks, networks come and go, and the  *)
(* configuration is reloaded.                                              *)
(*                                                                         *)
(* A text is a model value or a string out of a small set; a glob or a     *)
(* regular expression is the set of the texts that it matches.             *)
(***************************************************************************)
EXTENDS Naturals, Sequences

CONSTANTS
  Container,
  Facts,      \* what a container's inspect always says: name, labels, user...
  HomeOf,     \* the home of each user in a container's passwd, "" for none
  Network,
  FirstHost,  \* the address of each container at first, 0 if it is stopped
  File,       \* the contents the configuration file may have
  Loop,       \* the callers of reconcile that are looked at
  Ticker,     \* the one among them that never stops, periodicReconcile
  MaxHost,    \* addresses of a network
  MaxChange   \* bound on changes and failures of the environment

VARIABLES
  \* the environment
  state,      \* of each container
  joined,     \* the networks a container has an endpoint on
  ip,         \* its address on each network and at "", 0 for none
  present,    \* the networks that exist
  budget,     \* changes and failures still to come
  \* the service
  cfg,        \* s.cfg
  \* the ListDevcontainers under way in each loop
  at, todo,
  seen,       \* the inspect the record of the container is made from
  found,      \* lookupHome ran the command
  \* the records of each loop, and of s.containers
  rows, used,
  calm        \* history: nothing has disturbed the record since its inspect

docker == <<state, joined, ip, present>>
round  == <<at, todo, seen, found, used>>
vars   == <<state, joined, ip, present, budget, cfg, at, todo, seen, found,
            rows, used, calm>>

Table  == "s.containers"
Holder == Loop \cup {Table}

(***************************************************************************)
(* The configuration.                                                      *)
(***************************************************************************)
First(set) == CHOOSE i \in set : \A j \in set : i <= j
Last(set)  == CHOOSE i \in set : \A j \in set : j <= i

firstNonEmpty(texts) ==
  LET some == {i \in DOMAIN texts : texts[i] # ""}
  IN  IF some = {} THEN "" ELSE texts[First(some)]

\* A Matcher is the set of its literal, glob and regular expression, as far
\* as they are given.  A glob that is not well formed matches nothing.
Match(matcher, text) == \A pattern \in matcher : text \in pattern

\* The rule of a file that has none.
DefaultRule ==
  [folder |-> {}, file |-> {}, name |-> {}, labels |-> {}, valid |-> TRUE,
   user |-> "", home |-> ""]

\* valid says of a rule that its regular expressions compile and that its
\* sync entries have both paths and a known mode.
Validate(file) == \A i \in DOMAIN file.rules : file.rules[i].valid

ApplyDefaults(file) ==
  [prefixes |-> IF file.prefixes = {} THEN {"vsc-"} ELSE file.prefixes,
   labels   |-> file.labels,
   by       |-> file.by,
   net      |-> file.net,
   user     |-> firstNonEmpty(<<file.user, "vscode">>),
   home     |-> firstNonEmpty(<<file.home, "/home/vscode">>),
   rules    |-> IF file.rules = <<>> THEN <<DefaultRule>> ELSE file.rules]

Config == {ApplyDefaults(file) : file \in {f \in File : Validate(f)}}

(***************************************************************************)
(* What is read off a container.                                           *)
(***************************************************************************)
Labelled(c, labels) == \A label \in labels : Facts[c].labels[label[1]] = label[2]

\* discoveryReasons is not empty.  A label configured with an empty value is
\* found on containers that do not have it.
Discovered(c, cf) ==
  \/ Facts[c].folder # ""
  \/ Facts[c].marked
  \/ \E label \in cf.labels : Labelled(c, {label})
  \/ cf.prefixes \cap Facts[c].prefixes # {}

\* The first rule that matches, or one that says nothing.
MatchRule(c, cf) ==
  LET hits == {i \in DOMAIN cf.rules :
                 /\ Match(cf.rules[i].folder, Facts[c].folder)
                 /\ Match(cf.rules[i].file, Facts[c].file)
                 /\ Match(cf.rules[i].name, Facts[c].name)
                 /\ Labelled(c, cf.rules[i].labels)}
  IN  IF hits = {} THEN DefaultRule ELSE cf.rules[First(hits)]

\* Later layers of the metadata override earlier ones.
metadataString(c, key) ==
  LET layers == {i \in DOMAIN Facts[c].metadata : Facts[c].metadata[i][key] # ""}
  IN  IF layers = {} THEN "" ELSE Facts[c].metadata[Last(layers)][key]

\* Where the user of a container may come from, in this order.  A rule that
\* gives only a home decides the user, too.
Offers(c, cf) ==
  LET rule == MatchRule(c, cf)
  IN  << [source |-> "rule",
          user   |-> IF rule.home = "" THEN rule.user
                     ELSE firstNonEmpty(<<rule.user, cf.user, "vscode">>)],
         [source |-> "metadata.remoteUser", user |-> metadataString(c, "remoteUser")],
         [source |-> "metadata.containerUser", user |-> metadataString(c, "containerUser")],
         [source |-> "container.Config.User", user |-> Facts[c].configUser],
         [source |-> "default", user |-> firstNonEmpty(<<cf.user, "vscode">>)] >>

Offer(c, cf) == Offers(c, cf)[First({i \in 1..5 : Offers(c, cf)[i].user # ""})]

\* Mutant: a remote user who could not be looked up is passed over.
ResolveUserLooked(c, cf, looked) ==
  LET first == Offer(c, cf)
      offer == IF first.source = "metadata.remoteUser" /\ ~ looked THEN Offers(c, cf)[4] ELSE first
      home  == IF looked THEN HomeOf[c][offer.user] ELSE ""
  IN  [user |-> offer.user, source |-> offer.source,
       home |-> firstNonEmpty(<<MatchRule(c, cf).home, home, cf.home>>)]

\* ResolveUser.  looked: the command of lookupHome succeeded.
ResolveUser(c, cf, looked) ==
  LET offer == Offer(c, cf)
      home  == IF looked THEN HomeOf[c][offer.user] ELSE ""
  IN  [user |-> offer.user, source |-> offer.source,
       home |-> firstNonEmpty(<<MatchRule(c, cf).home, home, cf.home>>)]

\* ResolveUser for every container and configuration, worked out once.
Who == [c \in Container |-> [cf \in Config |-> [looked \in BOOLEAN |-> ResolveUser(c, cf, looked)]]]

\* ContainerInspect.
Inspected(c) == [running |-> state[c] = "running", on |-> joined[c], ip |-> ip[c]]

\* Where a container may have an address: on a network, or, for "", at the
\* top of its network settings.
Place == Network \cup {""}

NoAddress == [net |-> "", host |-> 0]

Address(s, n) == [net |-> n, host |-> s.ip[n]]

\* networkEndpoint(inspect, connectToNetwork, connectToNetwork): a network
\* given by the beginning of its ID is known to Docker and not found here.
Preferred(s, cf) == {n \in s.on : n = cf.net /\ cf.by \in {"name", "id"} /\ s.ip[n] # 0}

\* Mutant: the address at the top of the settings is not looked at.
containerIPNoFallback(s, cf) ==
  LET any  == {n \in s.on : s.ip[n] # 0}
      nets == IF Preferred(s, cf) # {} THEN Preferred(s, cf) ELSE any
  IN  IF nets = {} THEN {NoAddress} ELSE {Address(s, n) : n \in nets}

\* containerIP: the address on the preferred network, or else on any other
\* one, or else the one at the top of the network settings, if there is any.
containerIP(s, cf) ==
  LET any  == {n \in s.on : s.ip[n] # 0}
      nets == IF Preferred(s, cf) # {} THEN Preferred(s, cf) ELSE any
  IN  {Address(s, n) : n \in IF nets # {} THEN nets ELSE {""}}

(***************************************************************************)
(* Types.                                                                  *)
(***************************************************************************)
Nobody == [user |-> "", source |-> "", home |-> ""]
NoRow  == [there |-> FALSE, running |-> FALSE, warned |-> FALSE,
           who |-> Nobody, addr |-> NoAddress]

People    == {Who[c][cf][looked] : c \in Container, cf \in Config, looked \in BOOLEAN}
Addresses == [net : Place, host : 0..MaxHost]
Row       == [there : BOOLEAN, running : BOOLEAN, warned : BOOLEAN,
              who : People \cup {Nobody}, addr : Addresses]
Snapshot  == [running : BOOLEAN, on : SUBSET Network, ip : [Place -> 0..MaxHost]]
Handling  == {"home", "network", "connect", "refresh", "verify"}

Blank   == [running |-> FALSE, on |-> {}, ip |-> [n \in Place |-> 0]]
Nothing == [c \in Container |-> NoRow]

ASSUME DiscoveryAssumption ==
  /\ Ticker \in Loop
  /\ Table \notin Loop
  /\ MaxHost \in Nat
  /\ MaxChange \in Nat
  /\ Container # {}
  /\ "bridge" \in Network /\ "" \notin Network
  /\ FirstHost \in [Container -> 0..MaxHost]
  /\ \A f \in File : f.by \in {"", "name", "id", "short"} /\ (f.by # "" => f.net \in Network)

DockerType ==
  /\ state \in [Container -> {"stopped", "running", "gone"}]
  /\ joined \in [Container -> SUBSET Network]
  /\ ip \in [Container -> [Place -> 0..MaxHost]]
  /\ present \in SUBSET Network
  /\ budget \in Nat

RoundType ==
  /\ at \in [Loop -> {"idle", "next"} \cup Handling]
  /\ todo \in [Loop -> SUBSET Container]
  /\ seen \in [Loop -> Snapshot]
  /\ found \in [Loop -> BOOLEAN]
  /\ \A r \in Loop : at[r] \in Handling => todo[r] # {}
  /\ \A r \in Loop : at[r] \in {"connect", "refresh", "verify"} =>
       seen[r].running /\ used[r].by # ""

HolderType ==
  /\ rows \in [Holder -> [Container -> Row]]
  /\ used \in [Holder -> Config]
  /\ calm \in [Holder -> [Container -> BOOLEAN]]

TypeOK == DockerType /\ RoundType /\ HolderType /\ cfg \in Config

Init ==
  /\ state = [c \in Container |-> IF FirstHost[c] = 0 THEN "stopped" ELSE "running"]
  /\ joined = [c \in Container |-> {"bridge"}]
  /\ ip = [c \in Container |-> [n \in Place |-> IF n \in {"bridge", ""} THEN FirstHost[c] ELSE 0]]
  /\ present = Network
  /\ budget = MaxChange
  /\ cfg \in Config
  /\ at = [r \in Loop |-> "idle"]
  /\ todo = [r \in Loop |-> {}]
  /\ seen = [r \in Loop |-> Blank]
  /\ found = [r \in Loop |-> FALSE]
  /\ rows = [h \in Holder |-> Nothing]
  /\ used = [h \in Holder |-> cfg]
  /\ calm = [h \in Holder |-> [c \in Container |-> FALSE]]

(***************************************************************************)
(* ListDevcontainers.                                                      *)
(***************************************************************************)
Fault    == budget > 0 /\ budget' = budget - 1
NoFault  == UNCHANGED budget
\* A call fails for a reason, or for none that is modelled.
Failing(reason) == (reason /\ NoFault) \/ Fault
Outside  == UNCHANGED <<docker, cfg>>

\* The containers are taken in the order of the list, the same for all.
cur(r) == CHOOSE c \in todo[r] : TRUE

Disturbs(r) == calm' = [calm EXCEPT ![r][cur(r)] = FALSE]

\* Mutant: the configuration is the one of the first round.
ListOldConfig(r) ==
  /\ at[r] = "idle"
  /\ at' = [at EXCEPT ![r] = "next"]
  /\ todo' = [todo EXCEPT ![r] = {c \in Container : state[c] # "gone"}]
  /\ UNCHANGED <<seen, found, rows, used, calm>> /\ NoFault /\ Outside

\* reconcile reads the configuration once, and the list of containers.
List(r) ==
  /\ at[r] = "idle"
  /\ at' = [at EXCEPT ![r] = "next"]
  /\ used' = [used EXCEPT ![r] = cfg]
  /\ todo' = [todo EXCEPT ![r] = {c \in Container : state[c] # "gone"}]
  /\ UNCHANGED <<seen, found, rows, calm>> /\ NoFault /\ Outside

ListFails(r) ==
  /\ at[r] = "idle" /\ Fault
  /\ UNCHANGED <<at, todo, seen, found, rows, used, calm>> /\ Outside

\* A container whose inspect fails is left out, and so is any other one.
InspectFails(r) ==
  /\ at[r] = "next" /\ todo[r] # {}
  /\ Failing(state[cur(r)] = "gone")
  /\ todo' = [todo EXCEPT ![r] = @ \ {cur(r)}]
  /\ UNCHANGED <<at, seen, found, rows, used, calm>> /\ Outside

Ignore(r) ==
  /\ at[r] = "next" /\ todo[r] # {}
  /\ state[cur(r)] # "gone" /\ ~ Discovered(cur(r), used[r])
  /\ todo' = [todo EXCEPT ![r] = @ \ {cur(r)}]
  /\ UNCHANGED <<at, seen, found, rows, used, calm>> /\ NoFault /\ Outside

Inspect(r) ==
  /\ at[r] = "next" /\ todo[r] # {}
  /\ state[cur(r)] # "gone" /\ Discovered(cur(r), used[r])
  /\ at' = [at EXCEPT ![r] = "home"]
  /\ seen' = [seen EXCEPT ![r] = Inspected(cur(r))]
  /\ calm' = [calm EXCEPT ![r][cur(r)] = TRUE]
  /\ UNCHANGED <<todo, found, rows, used>> /\ NoFault /\ Outside

\* lookupHome runs a command in a running container, even when the rule has
\* the home already.
HomeWanted(r) == seen[r].running /\ Who[cur(r)][used[r]][FALSE].source # "default"

LookedUp(r, looked) ==
  /\ at[r] = "home"
  /\ found' = [found EXCEPT ![r] = looked]
  /\ at' = [at EXCEPT ![r] = "network"]
  /\ UNCHANGED <<todo, seen, rows, used>> /\ Outside

LookUp(r) ==
  /\ HomeWanted(r) /\ state[cur(r)] = "running"
  /\ LookedUp(r, TRUE) /\ UNCHANGED calm /\ NoFault

LookUpFails(r) ==
  /\ HomeWanted(r)
  /\ Failing(state[cur(r)] # "running")
  /\ LookedUp(r, FALSE) /\ Disturbs(r)

LookUpSkipped(r) ==
  /\ ~ HomeWanted(r)
  /\ LookedUp(r, FALSE) /\ UNCHANGED calm /\ NoFault

\* The record of the container is complete: what the first inspect said of
\* it, with the address that s says.
Record(r, s, warned) ==
  /\ \E addr \in containerIP(s, used[r]) :
       rows' = [rows EXCEPT ![r][cur(r)] =
                  [there |-> TRUE, running |-> seen[r].running, warned |-> warned,
                   who |-> Who[cur(r)][used[r]][found[r]], addr |-> addr]]
  /\ todo' = [todo EXCEPT ![r] = @ \ {cur(r)}]
  /\ at' = [at EXCEPT ![r] = "next"]
  /\ seen' = [seen EXCEPT ![r] = Blank]
  /\ found' = [found EXCEPT ![r] = FALSE]
  /\ UNCHANGED used /\ Outside

\* Mutant: stopped containers are joined, too.
NetworkWantedAlways(r) == used[r].by # ""

NetworkWanted(r) == used[r].by # "" /\ seen[r].running

NoNetwork(r) ==
  /\ at[r] = "network" /\ ~ NetworkWanted(r)
  /\ Record(r, seen[r], FALSE) /\ UNCHANGED calm /\ NoFault

\* ensureConnectedToNetwork.  The network inspected has an ID, by which its
\* endpoint is found however the network was given.
Connected(s, r) == used[r].net \in s.on

NetworkMissing(r) ==
  /\ at[r] = "network" /\ NetworkWanted(r)
  /\ Failing(used[r].net \notin present)
  /\ Record(r, seen[r], TRUE) /\ Disturbs(r)

AlreadyConnected(r) ==
  /\ at[r] = "network" /\ NetworkWanted(r)
  /\ used[r].net \in present /\ Connected(seen[r], r)
  /\ Record(r, seen[r], FALSE) /\ UNCHANGED calm /\ NoFault

NotConnected(r) ==
  /\ at[r] = "network" /\ NetworkWanted(r)
  /\ used[r].net \in present /\ ~ Connected(seen[r], r)
  /\ at' = [at EXCEPT ![r] = "connect"]
  /\ UNCHANGED <<todo, seen, found, rows, used, calm>> /\ NoFault /\ Outside

\* NetworkConnect.  A running container gets a free address, or an endpoint
\* without one.
Joins(c, n) ==
  /\ state[c] # "gone" /\ n \in present \ joined[c]
  /\ joined' = [joined EXCEPT ![c] = @ \cup {n}]
  /\ \E host \in 0..MaxHost :
       /\ host # 0 => state[c] = "running"
       /\ \A d \in Container : ip[d][n] = host => host = 0
       /\ ip' = [ip EXCEPT ![c][n] = host]
  /\ UNCHANGED <<state, present, cfg>>

Connect(r) ==
  /\ at[r] = "connect"
  /\ Joins(cur(r), used[r].net)
  /\ at' = [at EXCEPT ![r] = "refresh"]
  /\ UNCHANGED <<todo, seen, found, rows, used, calm>> /\ NoFault

\* The container has joined and the answer is lost.
ConnectLost(r) ==
  /\ at[r] = "connect" /\ Fault
  /\ Joins(cur(r), used[r].net)
  /\ at' = [at EXCEPT ![r] = "verify"]
  /\ UNCHANGED <<todo, seen, found, rows, used, calm>>

Joinable(c, n) == state[c] # "gone" /\ n \in present \ joined[c]

\* Another loop was faster, or the call fails.
ConnectRefused(r) ==
  /\ at[r] = "connect"
  /\ ~ Joinable(cur(r), used[r].net)
  /\ at' = [at EXCEPT ![r] = "verify"]
  /\ UNCHANGED <<todo, seen, found, rows, used, calm>> /\ NoFault /\ Outside

ConnectFails(r) ==
  /\ at[r] = "connect" /\ Fault
  /\ at' = [at EXCEPT ![r] = "verify"]
  /\ Disturbs(r)
  /\ UNCHANGED <<todo, seen, found, rows, used>> /\ Outside

\* Mutant: the record is made from the inspect before the join.
RefreshUnread(r) ==
  /\ at[r] = "refresh" /\ state[cur(r)] # "gone"
  /\ Record(r, seen[r], FALSE) /\ UNCHANGED calm /\ NoFault

Refresh(r) ==
  /\ at[r] = "refresh" /\ state[cur(r)] # "gone"
  /\ Record(r, Inspected(cur(r)), FALSE) /\ UNCHANGED calm /\ NoFault

\* The record is made from the inspect before the join, without a warning.
RefreshFails(r) ==
  /\ at[r] = "refresh"
  /\ Failing(state[cur(r)] = "gone")
  /\ Record(r, seen[r], FALSE) /\ Disturbs(r)

\* Mutant: an error of NetworkConnect is final.
VerifyNot(r) ==
  /\ at[r] = "verify"
  /\ Record(r, seen[r], TRUE) /\ UNCHANGED calm /\ NoFault

\* After an error of NetworkConnect: the container may be connected anyway.
Verify(r) ==
  /\ at[r] = "verify" /\ state[cur(r)] # "gone"
  /\ Connected(Inspected(cur(r)), r)
  /\ Record(r, Inspected(cur(r)), FALSE) /\ UNCHANGED calm /\ NoFault

VerifyRefuted(r) ==
  /\ at[r] = "verify" /\ state[cur(r)] # "gone"
  /\ ~ Connected(Inspected(cur(r)), r)
  /\ Record(r, seen[r], TRUE) /\ UNCHANGED calm /\ NoFault

VerifyFails(r) ==
  /\ at[r] = "verify"
  /\ Failing(state[cur(r)] = "gone")
  /\ Record(r, seen[r], TRUE) /\ Disturbs(r)

\* reconcile replaces the containers of the service, and the next round
\* starts with no records.
Publish(r) ==
  /\ at[r] = "next" /\ todo[r] = {}
  /\ at' = [at EXCEPT ![r] = "idle"]
  /\ rows' = [rows EXCEPT ![Table] = rows[r], ![r] = Nothing]
  /\ used' = [used EXCEPT ![Table] = used[r]]
  /\ calm' = [calm EXCEPT ![Table] = calm[r], ![r] = [c \in Container |-> FALSE]]
  /\ UNCHANGED <<todo, seen, found>> /\ NoFault /\ Outside

(***************************************************************************)
(* Docker and the configuration file.                                      *)
(***************************************************************************)
\* The records of c are no longer made from what is there.
Happens(c) ==
  /\ Fault
  /\ calm' = [h \in Holder |-> [calm[h] EXCEPT ![c] = FALSE]]
  /\ UNCHANGED <<round, rows, cfg>>

\* Any endpoint may come without an address.
Start(c) ==
  /\ state[c] = "stopped"
  /\ state' = [state EXCEPT ![c] = "running"]
  /\ \E hosts \in [Place -> 0..MaxHost] :
       /\ \A n \in Network : hosts[n] # 0 => n \in joined[c]
       /\ \A d \in Container, n \in Place : ip[d][n] = hosts[n] => hosts[n] = 0
       /\ ip' = [ip EXCEPT ![c] = hosts]
  /\ UNCHANGED <<joined, present>> /\ Happens(c)

Stop(c) ==
  /\ state[c] = "running"
  /\ state' = [state EXCEPT ![c] = "stopped"]
  /\ ip' = [ip EXCEPT ![c] = Blank.ip]
  /\ UNCHANGED <<joined, present>> /\ Happens(c)

Remove(c) ==
  /\ state[c] = "stopped"
  /\ state' = [state EXCEPT ![c] = "gone"]
  /\ joined' = [joined EXCEPT ![c] = {}]
  /\ UNCHANGED <<ip, present>> /\ Happens(c)

Leave(c, n) ==
  /\ n \in joined[c]
  /\ joined' = [joined EXCEPT ![c] = @ \ {n}]
  /\ \E top \in {ip[c][""], 0} : ip' = [ip EXCEPT ![c] = [@ EXCEPT ![n] = 0, ![""] = top]]
  /\ UNCHANGED <<state, present>> /\ Happens(c)

\* A network goes when no container is on it.
NetworkGoes(n) ==
  /\ n \in present \ {"bridge"} /\ \A c \in Container : n \notin joined[c]
  /\ present' = present \ {n}
  /\ Fault
  /\ calm' = [h \in Holder |-> [c \in Container |-> FALSE]]
  /\ UNCHANGED <<state, joined, ip, round, rows, cfg>>

NetworkComes(n) ==
  /\ n \notin present
  /\ present' = present \cup {n}
  /\ Fault
  /\ UNCHANGED <<state, joined, ip, round, rows, calm, cfg>>

\* watchConfig loads the file: one that Validate refuses changes nothing.
Reload(file) ==
  /\ Validate(file) /\ cfg # ApplyDefaults(file)
  /\ cfg' = ApplyDefaults(file)
  /\ Fault
  /\ UNCHANGED <<docker, round, rows, calm>>

(***************************************************************************)
(* The specification.                                                      *)
(***************************************************************************)
Handle(r) ==
  \/ LookUp(r) \/ LookUpFails(r) \/ LookUpSkipped(r) \/ NoNetwork(r)
  \/ NetworkMissing(r) \/ AlreadyConnected(r) \/ NotConnected(r)
  \/ Connect(r) \/ ConnectLost(r) \/ ConnectRefused(r) \/ ConnectFails(r)
  \/ Refresh(r) \/ RefreshFails(r)
  \/ Verify(r) \/ VerifyRefuted(r) \/ VerifyFails(r)

\* lookupHome is waiting for its command: Exec reads what the command writes
\* until the command ends, whatever becomes of the context.
AtExec(r) == at[r] = "home" /\ HomeWanted(r)

Proceed(r) ==
  \/ Publish(r) \/ Handle(r)
  \/ InspectFails(r) \/ Ignore(r) \/ Inspect(r)

Environment ==
  \/ \E c \in Container : Start(c) \/ Stop(c) \/ Remove(c)
  \/ \E c \in Container, n \in Network : Leave(c, n)
  \/ \E n \in Network : NetworkGoes(n) \/ NetworkComes(n)
  \/ \E file \in File : Reload(file)

Next ==
  \/ \E r \in Loop : List(r) \/ ListFails(r) \/ Proceed(r)
  \/ Environment

\* The ticker goes on, and the calls it makes of Docker end, by the timeout of
\* the reconcile at the latest.  The command of lookupHome need not end, and
\* the other loops may stop anywhere.
Fairness ==
  /\ WF_vars(~ AtExec(Ticker) /\ Proceed(Ticker))
  /\ WF_vars(List(Ticker))

Spec == Init /\ [][Next]_vars /\ Fairness

(***************************************************************************)
(* Properties.                                                             *)
(***************************************************************************)
\* Two loops that join one container at the same time, a join whose answer is
\* lost and networks other loops join do not alarm anybody: a row has the
\* warning of ListDevcontainers only if a call failed or the container or
\* the network changed since its inspect.
NoFalseAlarm ==
  \A h \in Holder, c \in Container : rows[h][c].warned => ~ calm[h][c]

\* The networks that a loop may join a container to.
JoinedNets == {cf.net : cf \in {g \in Config : g.by # ""}}

\* The row of c leads to it: its address is one that c has; a running c is on
\* the configured network, and reached there if it has an address there and
\* the network is given by its name or ID; a running c without an address in
\* its row has none but those of networks that loops join it to.
Reached(row, c, cf) ==
  /\ row.addr.host # 0 => ip[c][row.addr.net] = row.addr.host
  /\ row.running /\ cf.by # "" => cf.net \in joined[c]
  /\ row.running /\ cf.by \in {"name", "id"} /\ ip[c][cf.net] # 0 =>
       row.addr = [net |-> cf.net, host |-> ip[c][cf.net]]
  /\ row.running /\ row.addr.host = 0 => \A n \in Place \ JoinedNets : ip[c][n] = 0

\* "attaches each running detected devcontainer to this existing Docker
\* network and prefers that network IP for container access"
\* (config.example.yaml), and containerIP falls back to another address when
\* there is none on it: in a round that nothing disturbs, a row leads to its
\* container, whoever joined the container to the network.
CalmRowsReach ==
  \A h \in Holder, c \in Container :
    rows[h][c].there /\ calm[h][c] =>
      /\ rows[h][c].running <=> state[c] = "running"
      /\ Reached(rows[h][c], c, used[h])

\* The user of a container, whom sync sessions and the files of spawn-stage
\* are named and owned by, does not depend on the round: not on whether the
\* container ran, on a command in it that failed, or on who else listed it.
UsersAgree ==
  \A g, h \in Holder, c \in Container :
    rows[g][c].there /\ rows[h][c].there /\ used[g] = used[h] =>
      /\ rows[g][c].who.user = rows[h][c].who.user
      /\ rows[g][c].who.source = rows[h][c].who.source

Settled ==
  \A c \in Container :
    LET row == rows[Table][c]
    IN  /\ used[Table] = cfg
        /\ row.there <=> state[c] # "gone" /\ Discovered(c, cfg)
        /\ row.there => (row.running <=> state[c] = "running")
        /\ row.there /\ row.running /\ cfg.by # "" =>
             row.warned <=> cfg.net \notin present
        /\ row.there /\ ~ row.warned => Reached(row, c, cfg)

\* Once Docker, the file and the calls are quiet, the table comes to show
\* every dev container at an address that it has, and stays so, although
\* rounds that began before may still publish what they saw then, or hang for
\* ever; but only if no command of lookupHome holds the ticker for ever.
AddressesSettle == []<>~ AtExec(Ticker) => <>[]Settled
=============================================================================
