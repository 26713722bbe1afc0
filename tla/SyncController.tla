--------------------------- MODULE SyncController ---------------------------
(***************************************************************************)
(* The controller of Mutagen sessions (src/internal/syncx/controller.go)   *)
(* and its client of the Mutagen daemon (src/internal/syncx/mutagen.go).   *)
(*                                                                         *)
(* Every reconcile of the service ends with Controller.Reconcile: it lists *)
(* the sessions that the manager owns, creates, resumes or pauses one for  *)
(* each sync entry of a listed container, terminates those that no entry   *)
(* asks for, and reports a status for each.  Errors of the single calls    *)
(* are dropped or reported, never retried: the next reconcile has to make  *)
(* up for them.  All reconciles share one client, whose connection is made *)
(* under a mutex, used without it, and closed by whoever sees an error.    *)
(*                                                                         *)
(* A session name stands for one sync entry of one container: sessionName  *)
(* hashes the container, the rule, the position and the two paths.         *)
(***************************************************************************)
EXTENDS Naturals

CONSTANTS
  Container,
  Name,           \* session names
  Owner,          \* the container of each name
  ManagerKind,    \* what localKind says of the manager's end of each entry
  ContainerKind,  \* what PathKind says of the container's end
  Loop,           \* the callers of reconcile that are looked at
  MaxLeft,        \* bound on the sessions left by an earlier process
  MaxChange       \* bound on changes and failures of the environment

Kind == {"missing", "file", "directory", "other"}

ASSUME SyncAssumption ==
  /\ Owner \in [Name -> Container]
  /\ ManagerKind \in [Name -> Kind]
  /\ ContainerKind \in [Name -> Kind]
  /\ MaxLeft \in Nat
  /\ MaxChange \in Nat

VARIABLES
  \* the environment
  want,       \* per name: its container is not listed, stopped or running
  enabled,    \* sync.enabled of the configuration
  daemon,     \* the Mutagen daemon is up
  sessions,   \* the sessions that it holds with the label of the manager
  serial,     \* the last session identifier given out
  budget,     \* changes and failures the environment may still cause
  \* the service
  published,  \* s.sessions: the status of each name, "" for none
  conn,       \* mutagenClient.conn, sync and prompt are not nil
  \* the Controller.Reconcile under way in each loop
  phase, input, avail, live, todo, op, out,
  cut,        \* loops whose connection was closed since they ensured it
  \* history
  met,        \* loops whose Reconcile under way has run beside another's
  failed      \* loops whose Reconcile under way has had a call fail that had a session
              \* to select

world == <<want, enabled, daemon, budget>>
vars  == <<want, enabled, daemon, sessions, serial, budget, published, conn, phase,
           input, avail, live, todo, op, out, cut, met, failed>>

(***************************************************************************)
(* Types.                                                                  *)
(***************************************************************************)
Wish    == {"absent", "stopped", "running"}
Status  == {"", "paused", "configuration-error", "mutagen-daemon-unavailable",
            "create-error", "ready", "error", "disconnected"}
Session == [id : Nat, name : Name, paused : BOOLEAN]
Op      == [kind : {"list", "pause", "resume", "create", "terminate"},
            name : Name \cup {""}, id : Nat]
NoOp    == [kind |-> "list", name |-> "", id |-> 0]
Phases  == {"idle", "connect", "ensure", "host", "call", "reset", "pass", "sweep"}

TypeOK ==
  /\ want \in [Name -> Wish]
  /\ enabled \in BOOLEAN
  /\ daemon \in BOOLEAN
  /\ sessions \in SUBSET Session
  /\ serial \in Nat
  /\ budget \in Nat
  /\ published \in [Name -> Status]
  /\ conn \in BOOLEAN
  /\ phase \in [Loop -> Phases]
  /\ input \in [Loop -> [Name -> Wish]]
  /\ avail \in [Loop -> BOOLEAN]
  /\ live \in [Loop -> SUBSET Session]
  /\ todo \in [Loop -> SUBSET Name]
  /\ op \in [Loop -> Op]
  /\ out \in [Loop -> [Name -> Status]]
  /\ cut \in SUBSET Loop
  /\ met \in SUBSET Loop
  /\ failed \in SUBSET Loop
  /\ \A r \in Loop : op[r].kind # "list" => op[r].name \in Name

(***************************************************************************)
(* Helpers.                                                                *)
(***************************************************************************)
Silent == [n \in Name |-> ""]

\* The entries of a container come and go with its rule, and it is stopped or
\* running for all of them.
Wishes ==
  {w \in [Name -> Wish] : \A m, n \in Name :
     Owner[m] = Owner[n] => w[m] = w[n] \/ "absent" \in {w[m], w[n]}}

Named(set, n) == {s \in set : s.name = n}

\* Mutant: the daemon's word is passed on as it is.
mutagenStatusRaw(s) == IF s.paused THEN {"paused"} ELSE {"Status_Watching"}

\* mutagenStatus.  A session that is not paused is watching, or its last
\* cycle failed, or it is disconnected, which stands for scanning, staging
\* and the like, too.
mutagenStatus(s) == IF s.paused THEN {"paused"} ELSE {"ready", "error", "disconnected"}

\* validateEndpoints accepts the ends of an entry.
validateEndpoints(n) ==
  LET m == ManagerKind[n]
      c == ContainerKind[n]
  IN  /\ ~ (m = "missing" /\ c = "missing")
      /\ m # "missing" /\ c # "missing" => m = c

\* An entry that passes: its ends are accepted, or those of a container whose
\* kind could not be read, but for an error that Exec drops.  The kind is then
\* "", which fits no end of the manager's that is there and any that is missing.
Passes(n) == validateEndpoints(n) \/ ManagerKind[n] = "missing"

\* Mutant: an entry counts only after the test for a running container.
desiredNamesRunning(r) == {n \in Name : input[r][n] = "running"}

\* The names that this Reconcile finds an entry for.
desiredNames(r) == {n \in Name : input[r][n] # "absent"}

Report(r, n, status) == out' = [out EXCEPT ![r][n] = status]

\* The environment does something that it need not do.
Spend == budget > 0 /\ budget' = budget - 1

\* An entry passes that would not if the kind had been read.
PassedUnread(n) == IF validateEndpoints(n) THEN UNCHANGED budget ELSE Spend

\* The session s, listed by loop r, is in some condition.  Nothing makes a
\* session fail or disconnect but the environment.
ReportLive(r, s) ==
  \E status \in mutagenStatus(s) :
    /\ Report(r, s.name, status)
    /\ IF status \in {"paused", "ready"} THEN PassedUnread(s.name) ELSE Spend

\* A listed map: for every name one of its sessions, whichever comes last.
Listing(m) ==
  /\ m \subseteq sessions
  /\ \A s \in sessions : \E t \in m : t.name = s.name
  /\ \A s, t \in m : s.name = t.name => s = t

(***************************************************************************)
(* A new manager: sessions may be left from the one before it.             *)
(***************************************************************************)
Leftovers ==
  {set \in SUBSET [id : 1..MaxLeft, name : Name, paused : BOOLEAN] :
     \A s, t \in set : s.id = t.id => s = t}

Init ==
  /\ want \in Wishes
  /\ enabled \in BOOLEAN
  /\ daemon \in BOOLEAN
  /\ serial = MaxLeft
  /\ sessions \in Leftovers
  /\ budget = MaxChange
  /\ published = Silent
  /\ conn = FALSE
  /\ phase = [r \in Loop |-> "idle"]
  /\ input = [r \in Loop |-> [n \in Name |-> "absent"]]
  /\ avail = [r \in Loop |-> FALSE]
  /\ live = [r \in Loop |-> {}]
  /\ todo = [r \in Loop |-> {}]
  /\ op = [r \in Loop |-> NoOp]
  /\ out = [r \in Loop |-> Silent]
  /\ cut = {}
  /\ met = {}
  /\ failed = {}

(***************************************************************************)
(* Reconcile up to the list of live sessions.                              *)
(***************************************************************************)
Busy == {r \in Loop : phase[r] # "idle"}

\* reconcile has listed the containers under some configuration.
Start(r) ==
  /\ phase[r] = "idle"
  /\ enabled
  /\ phase' = [phase EXCEPT ![r] = "connect"]
  /\ input' = [input EXCEPT ![r] = want]
  /\ met' = IF Busy = {} THEN met ELSE met \cup Busy \cup {r}
  /\ UNCHANGED <<world, sessions, serial, published, conn, avail, live, todo, op, out, cut,
                 failed>>

\* With sync disabled Reconcile returns no session and does nothing.
StartDisabled(r) ==
  /\ phase[r] = "idle"
  /\ ~ enabled
  /\ published' = Silent
  /\ UNCHANGED <<world, sessions, serial, conn, phase, input, avail, live, todo, op, out, cut,
                 met, failed>>

\* Mutant: the connection that was dialled is not stored.
ensureConnectedUnstored(r) ==
  /\ conn \/ daemon
  /\ cut' = cut \ {r}
  /\ UNCHANGED <<budget, conn>>

\* ensureConnected of loop r returns without error: the client has a
\* connection, or dials one and finds the daemon's version right.
ensureConnected(r) ==
  /\ conn \/ daemon
  /\ conn' = TRUE
  /\ cut' = cut \ {r}
  /\ UNCHANGED budget

\* ensureConnected returns an error: nothing is stored.
ensureFails(r) ==
  /\ ~ conn
  /\ IF daemon THEN Spend ELSE UNCHANGED budget
  /\ UNCHANGED <<conn, cut>>

\* The first ensureConnected of Reconcile.
Connect(r) ==
  /\ phase[r] = "connect"
  /\ ensureConnected(r)
  /\ phase' = [phase EXCEPT ![r] = "ensure"]
  /\ op' = [op EXCEPT ![r] = NoOp]
  /\ UNCHANGED <<want, enabled, daemon, sessions, serial, published, input, avail, live,
                 todo, out, met, failed>>

\* It fails: mutagenAvailable is false.
ConnectFails(r) ==
  /\ phase[r] = "connect"
  /\ ensureFails(r)
  /\ phase' = [phase EXCEPT ![r] = "pass"]
  /\ todo' = [todo EXCEPT ![r] = desiredNames(r)]
  /\ failed' = failed \cup {r}
  /\ UNCHANGED <<want, enabled, daemon, sessions, serial, published, input, avail, live,
                 op, out, met>>

(***************************************************************************)
(* One call to the daemon: ensureConnected, hostPrompter unless it is a    *)
(* List, the call itself, and reset after an error of the call.            *)
(***************************************************************************)
\* Mutant: the error of Create is not reported.
FinishReady(r, ok) ==
  /\ phase' = [phase EXCEPT ![r] = IF op[r].kind = "terminate" THEN "sweep" ELSE "pass"]
  /\ avail' = [avail EXCEPT ![r] = IF op[r].kind = "list" THEN ok ELSE @]
  /\ todo' = [todo EXCEPT ![r] = IF op[r].kind = "list" THEN desiredNames(r) ELSE @]
  /\ out' = IF op[r].kind = "create" THEN [out EXCEPT ![r][op[r].name] = "ready"] ELSE out
  /\ UNCHANGED <<want, enabled, daemon, published, input, op, met>>

\* Mutant: after an error of List the sessions are taken to be none.
FinishAvailable(r, ok) ==
  /\ phase' = [phase EXCEPT ![r] = IF op[r].kind = "terminate" THEN "sweep" ELSE "pass"]
  /\ avail' = [avail EXCEPT ![r] = op[r].kind = "list" \/ @]
  /\ todo' = [todo EXCEPT ![r] = IF op[r].kind = "list" THEN desiredNames(r) ELSE @]
  /\ UNCHANGED <<want, enabled, daemon, published, input, op, out, met>>

\* The caller goes on after the call: an error of List makes Mutagen
\* unavailable, one of Create is reported, the others are dropped.
Finish(r, ok) ==
  /\ phase' = [phase EXCEPT ![r] = IF op[r].kind = "terminate" THEN "sweep" ELSE "pass"]
  /\ avail' = [avail EXCEPT ![r] = IF op[r].kind = "list" THEN ok ELSE @]
  /\ todo' = [todo EXCEPT ![r] = IF op[r].kind = "list" THEN desiredNames(r) ELSE @]
  /\ out' = IF op[r].kind = "create"
              THEN [out EXCEPT ![r][op[r].name] = IF ok THEN "ready" ELSE "create-error"]
              ELSE out
  /\ UNCHANGED <<want, enabled, daemon, published, input, op, met>>

Ensure(r) ==
  /\ phase[r] = "ensure"
  /\ ensureConnected(r)
  /\ phase' = [phase EXCEPT ![r] = IF op[r].kind = "list" THEN "call" ELSE "host"]
  /\ UNCHANGED <<want, enabled, daemon, sessions, serial, published, input, avail, live,
                 todo, op, out, met, failed>>

EnsureFails(r) ==
  /\ phase[r] = "ensure"
  /\ ensureFails(r)
  /\ Finish(r, FALSE)
  /\ failed' = failed \cup {r}
  /\ UNCHANGED <<sessions, serial, live>>

hostPrompter(r) ==
  /\ phase[r] = "host"
  /\ conn
  /\ daemon
  /\ phase' = [phase EXCEPT ![r] = "call"]
  /\ UNCHANGED <<world, sessions, serial, published, conn, input, avail, live, todo, op,
                 out, cut, met, failed>>

\* hostPrompter fails, or before it creationSpecification: the call returns
\* and the connection stays.
hostFails(r) ==
  /\ phase[r] = "host"
  /\ IF ~ daemon \/ r \in cut THEN UNCHANGED budget ELSE Spend
  /\ Finish(r, FALSE)
  /\ failed' = failed \cup {r}
  /\ UNCHANGED <<sessions, serial, conn, live, cut>>

\* The sessions once those of a name are paused or resumed.
Switched(n, flag) ==
  {IF s.name = n THEN [id |-> s.id, name |-> n, paused |-> flag] ELSE s : s \in sessions}

\* The daemon does what the call asks for.  Pause and Resume select by name,
\* Terminate by identifier, Create does not mind a name that is in use.
Apply(o) ==
  \/ o.kind = "list" /\ UNCHANGED <<sessions, serial>>
  \/ o.kind = "pause" /\ sessions' = Switched(o.name, TRUE) /\ UNCHANGED serial
  \/ o.kind = "resume" /\ sessions' = Switched(o.name, FALSE) /\ UNCHANGED serial
  \/ /\ o.kind = "create"
     /\ serial' = serial + 1
     /\ sessions' = sessions \cup {[id |-> serial + 1, name |-> o.name, paused |-> FALSE]}
  \/ o.kind = "terminate" /\ sessions' = {s \in sessions : s.id # o.id} /\ UNCHANGED serial

\* The daemon refuses a selection that matches no session.
Unmatched(r) ==
  \/ op[r].kind \in {"pause", "resume"} /\ Named(sessions, op[r].name) = {}
  \/ op[r].kind = "terminate" /\ \A s \in sessions : s.id # op[r].id

\* The call succeeds.
Call(r) ==
  /\ phase[r] = "call"
  /\ conn
  /\ daemon
  /\ ~ Unmatched(r)
  /\ Apply(op[r])
  /\ IF op[r].kind = "list"
       THEN \E m \in SUBSET sessions : Listing(m) /\ live' = [live EXCEPT ![r] = m]
       ELSE UNCHANGED live
  /\ Finish(r, TRUE)
  /\ UNCHANGED <<budget, conn, cut, failed>>

\* The daemon answers, but not validly (EnsureValid): an error, no reset.
CallInvalid(r) ==
  /\ phase[r] = "call"
  /\ conn
  /\ daemon
  /\ ~ Unmatched(r)
  /\ Spend
  /\ Apply(op[r])
  /\ Finish(r, FALSE)
  /\ failed' = failed \cup {r}
  /\ UNCHANGED <<conn, live, cut>>

\* The call fails: the daemon is down or refuses, another loop closed the
\* connection, the 20 s are over.  It may have had its effect.
CallFails(r) ==
  /\ phase[r] = "call"
  /\ IF ~ daemon \/ r \in cut \/ Unmatched(r) THEN UNCHANGED budget ELSE Spend
  /\ \/ UNCHANGED <<sessions, serial>>
     \/ daemon /\ ~ Unmatched(r) /\ Apply(op[r])
  /\ phase' = [phase EXCEPT ![r] = "reset"]
  /\ failed' = IF Unmatched(r) THEN failed ELSE failed \cup {r}
  /\ UNCHANGED <<want, enabled, daemon, published, conn, input, avail, live, todo, op, out,
                 cut, met>>

\* reset: the shared connection is closed and forgotten, under whatever
\* another loop does with it.
reset(r) ==
  /\ phase[r] = "reset"
  /\ conn' = FALSE
  /\ cut' = Loop
  /\ Finish(r, FALSE)
  /\ UNCHANGED <<budget, sessions, serial, live, failed>>

(***************************************************************************)
(* The pass over the sync entries, and the sweep after it.                 *)
(***************************************************************************)
\* The call that the pass makes for n, if any, is next.
Invoke(r, kind, n, id) ==
  /\ op' = [op EXCEPT ![r] = [kind |-> kind, name |-> n, id |-> id]]
  /\ phase' = [phase EXCEPT ![r] = "ensure"]

Skip == UNCHANGED <<op, phase>>

\* The turn of the entry n.
AtEntry(r, n) ==
  /\ phase[r] = "pass"
  /\ n \in todo[r]
  /\ todo' = [todo EXCEPT ![r] = @ \ {n}]
  /\ UNCHANGED <<want, enabled, daemon, sessions, serial, published, conn, input, avail,
                 live, cut, met, failed>>

EntryStopped(r, n) ==
  /\ input[r][n] = "stopped"
  /\ Report(r, n, "paused")
  /\ IF avail[r] THEN Invoke(r, "pause", n, 0) ELSE Skip
  /\ AtEntry(r, n)
  /\ UNCHANGED budget

\* The ends do not fit, or PathKind fails, or reads nothing for an end of the
\* manager's that is there.
EntryInvalid(r, n) ==
  /\ input[r][n] = "running"
  /\ IF validateEndpoints(n) THEN Spend ELSE UNCHANGED budget
  /\ Report(r, n, "configuration-error")
  /\ Skip
  /\ AtEntry(r, n)

EntryUnavailable(r, n) ==
  /\ input[r][n] = "running"
  /\ Passes(n)
  /\ ~ avail[r]
  /\ Report(r, n, "mutagen-daemon-unavailable")
  /\ Skip
  /\ AtEntry(r, n)
  /\ PassedUnread(n)

\* Mutant: only a session that was listed as paused is resumed.
EntryLiveIfPaused(r, n) ==
  /\ input[r][n] = "running"
  /\ Passes(n)
  /\ avail[r]
  /\ \E s \in Named(live[r], n) :
       /\ ReportLive(r, s)
       /\ IF s.paused THEN Invoke(r, "resume", n, 0) ELSE Skip
  /\ AtEntry(r, n)

\* Mutant: a live session is reported and not resumed.
EntryLiveLeft(r, n) ==
  /\ input[r][n] = "running"
  /\ Passes(n)
  /\ avail[r]
  /\ \E s \in Named(live[r], n) : ReportLive(r, s)
  /\ Skip
  /\ AtEntry(r, n)

\* The status is the one before the Resume.
EntryLive(r, n) ==
  /\ input[r][n] = "running"
  /\ Passes(n)
  /\ avail[r]
  /\ \E s \in Named(live[r], n) : ReportLive(r, s)
  /\ Invoke(r, "resume", n, 0)
  /\ AtEntry(r, n)

EntryNew(r, n) ==
  /\ input[r][n] = "running"
  /\ Passes(n)
  /\ avail[r]
  /\ Named(live[r], n) = {}
  /\ Invoke(r, "create", n, 0)
  /\ AtEntry(r, n)
  /\ PassedUnread(n)
  /\ UNCHANGED out

\* The pass is over; what was live and is not desired is to be terminated.
Sweep(r) ==
  /\ phase[r] = "pass"
  /\ todo[r] = {}
  /\ phase' = [phase EXCEPT ![r] = "sweep"]
  /\ todo' = [todo EXCEPT ![r] =
                IF avail[r] THEN {s.name : s \in live[r]} \ desiredNames(r) ELSE {}]
  /\ UNCHANGED <<world, sessions, serial, published, conn, input, avail, live, op, out, cut,
                 met, failed>>

Terminate(r, n) ==
  /\ phase[r] = "sweep"
  /\ n \in todo[r]
  /\ todo' = [todo EXCEPT ![r] = @ \ {n}]
  /\ \E s \in Named(live[r], n) : Invoke(r, "terminate", n, s.id)
  /\ UNCHANGED <<world, sessions, serial, published, conn, input, avail, live, out, cut, met,
                 failed>>

\* Reconcile returns and the service stores its sessions.
Publish(r) ==
  /\ phase[r] = "sweep"
  /\ todo[r] = {}
  /\ published' = out[r]
  /\ phase' = [phase EXCEPT ![r] = "idle"]
  /\ avail' = [avail EXCEPT ![r] = FALSE]
  /\ live' = [live EXCEPT ![r] = {}]
  /\ out' = [out EXCEPT ![r] = Silent]
  /\ met' = met \ {r}
  /\ failed' = failed \ {r}
  /\ UNCHANGED <<world, sessions, serial, conn, input, todo, op, cut>>

(***************************************************************************)
(* The end of the process, and its environment.                            *)
(***************************************************************************)
\* The process ends and is started again.
Reborn ==
  /\ published' = Silent
  /\ conn' = FALSE
  /\ phase' = [r \in Loop |-> "idle"]
  /\ input' = [r \in Loop |-> [n \in Name |-> "absent"]]
  /\ avail' = [r \in Loop |-> FALSE]
  /\ live' = [r \in Loop |-> {}]
  /\ todo' = [r \in Loop |-> {}]
  /\ op' = [r \in Loop |-> NoOp]
  /\ out' = [r \in Loop |-> Silent]
  /\ cut' = {}
  /\ met' = {}
  /\ failed' = {}
  /\ UNCHANGED <<want, enabled, daemon, sessions, serial>>

\* A loop uses the client although another one has set its fields to nil.
Panic(r) ==
  /\ phase[r] \in {"host", "call"}
  /\ ~ conn
  /\ Reborn
  /\ UNCHANGED budget

Restart == Spend /\ Reborn

inner == <<sessions, serial, published, conn, phase, input, avail, live, todo, op, out, cut,
           met, failed>>

\* A container comes, goes, starts or stops, or its rule changes.
WantChanges(c) ==
  /\ Spend
  /\ want' \in Wishes \ {want}
  /\ \A n \in Name : Owner[n] # c => want'[n] = want[n]
  /\ UNCHANGED <<enabled, daemon, inner>>

SwitchSync ==
  /\ Spend
  /\ enabled' = ~ enabled
  /\ UNCHANGED <<want, daemon, inner>>

DaemonStops ==
  /\ daemon
  /\ Spend
  /\ daemon' = FALSE
  /\ UNCHANGED <<want, enabled, inner>>

DaemonStarts ==
  /\ ~ daemon
  /\ daemon' = TRUE
  /\ UNCHANGED <<want, enabled, budget, inner>>

Environment ==
  \/ Restart
  \/ \E c \in Container : WantChanges(c)
  \/ SwitchSync
  \/ DaemonStops
  \/ DaemonStarts

Step(r) ==
  \/ Start(r) \/ StartDisabled(r)
  \/ Connect(r) \/ ConnectFails(r)
  \/ Ensure(r) \/ EnsureFails(r)
  \/ hostPrompter(r) \/ hostFails(r)
  \/ Call(r) \/ CallInvalid(r) \/ CallFails(r) \/ reset(r)
  \/ \E n \in Name :
       \/ EntryStopped(r, n)
       \/ EntryInvalid(r, n)
       \/ EntryUnavailable(r, n)
       \/ EntryLive(r, n)
       \/ EntryNew(r, n)
       \/ Terminate(r, n)
  \/ Sweep(r) \/ Publish(r)

Next ==
  \/ \E r \in Loop : Step(r) \/ Panic(r)
  \/ Environment

Spec == Init /\ [][Next]_vars

\* The loop may be running a command in a container: a test of the path of an
\* entry, or, between two Controller.Reconcile, what lists the containers and
\* asks t3.  Exec reads the output from a hijacked connection that no context
\* closes, so that nothing ends a command that hangs.
AtExec(r) ==
  \/ phase[r] = "idle"
  \/ phase[r] = "pass" /\ \E n \in todo[r] : input[r][n] = "running"

\* Every call to the daemon ends, with the 20 s of the reconcile at the latest.
Fairness == \A r \in Loop : WF_vars(~ AtExec(r) /\ Step(r))

LiveSpec == Spec /\ Fairness

-----------------------------------------------------------------------------
(***************************************************************************)
(* Properties.                                                             *)
(***************************************************************************)
\* A session ends only by a Reconcile that found no entry for its name: not
\* because its container is stopped, its ends are missing, or the daemon
\* could not be asked; and not by an identifier that has come to stand for
\* another session since the list was read.
OnlyUndesiredTerminated ==
  [][\A s \in sessions :
       \/ \E t \in sessions' : t.id = s.id
       \/ \E r \in Loop : /\ phase[r] = "call"
                         /\ op[r].kind = "terminate"
                         /\ input[r][s.name] = "absent"]_vars

\* No call makes a second session of a name, although a failed Create may
\* have worked and a failed List shows nothing, unless the Reconcile that
\* creates it has run beside another: two that list before either creates
\* make two sessions.
NeverDuplicates ==
  [][\A s \in sessions' :
       \/ \E t \in sessions : t.id = s.id
       \/ \A t \in sessions : t.name # s.name
       \/ \E r \in met : phase[r] = "call" /\ op[r].kind = "create"]_vars

\* What ensureConnected has made is still there at the call, in spite of
\* reset: the client is called through a nil field only by a Reconcile that
\* has run beside another, and only after that one closed the connection.
NilNeverUsed ==
  \A r \in Loop : phase[r] \in {"host", "call"} => conn \/ r \in cut \cap met

\* What a Reconcile is about to report as ready exists in the daemon, unless
\* another that ran beside it has terminated the session.
ReadyIsReal ==
  \A r \in Loop \ met, n \in Name :
    out[r][n] = "ready" => Named(sessions, n) # {}

\* What loop r has done about the entry n, as it found it: the sessions of
\* its name, those left double included, are paused or running.
Carried(r, n) ==
  /\ input[r][n] = "stopped" =>
       /\ out[r][n] = "paused"
       /\ \A s \in Named(sessions, n) : s.paused
  /\ input[r][n] = "running" /\ out[r][n] # "configuration-error" =>
       /\ out[r][n] # ""
       /\ Named(sessions, n) # {}
       /\ \A s \in Named(sessions, n) : ~ s.paused

Gone(s) == \A t \in sessions : t.id # s.id

\* A Reconcile that has met no other and whose calls have all worked returns
\* with every entry carried out and reported, nothing else reported, and what
\* it had listed without an entry gone: connecting, listing and one call per
\* entry are enough, in any order of the entries, whatever else goes on.
EntriesCarriedOut ==
  \A r \in Loop \ (met \cup failed) : phase[r] = "sweep" /\ todo[r] = {} =>
    /\ \A n \in Name : Carried(r, n) /\ (input[r][n] = "absent" => out[r][n] = "")
    /\ \A s \in live[r] : input[r][s.name] = "absent" => Gone(s)

\* The sessions and their report are what the containers ask for.
Settled ==
  \A n \in Name :
    /\ want[n] = "running" /\ validateEndpoints(n) =>
         /\ Named(sessions, n) # {}
         /\ \A s \in Named(sessions, n) : ~ s.paused
         /\ published[n] = "ready"
    /\ want[n] = "stopped" => /\ \A s \in Named(sessions, n) : s.paused
                              /\ published[n] = "paused"
    /\ want[n] = "absent"  => /\ Named(sessions, n) = {}
                              /\ published[n] = ""

\* The loops keep calling Reconcile, and no command in a container holds one
\* for ever.
NoneHeld == \A r \in Loop : []<>~ AtExec(r)

\* While sync stays enabled and the daemon up, and no command hangs, the
\* sessions become and stay what the containers ask for: dropped errors, lost
\* answers, kinds that were not read, sessions left double by an earlier
\* process and restarts are all made up for.
SessionsSettle == NoneHeld /\ <>[](enabled /\ daemon) => <>[]Settled

-----------------------------------------------------------------------------
(***************************************************************************)
(* Inductive strengthenings, for the proofs.                               *)
(***************************************************************************)
InCall(r) == phase[r] \in {"ensure", "host", "call", "reset"}

\* An identifier stands for one session, now and later.
OneSessionPerId ==
  /\ \A s, t \in sessions : s.id = t.id => s = t
  /\ \A s \in sessions : s.id <= serial

\* What loop r has listed keeps its name for as long as it exists, and what
\* it is about to terminate has no entry.
SweepsAbsent(r) ==
  /\ \A s \in live[r] : s.id <= serial
  /\ \A s \in live[r], t \in sessions : s.id = t.id => s.name = t.name
  /\ phase[r] = "sweep" \/ (InCall(r) /\ op[r].kind = "terminate") =>
       \A n \in todo[r] : input[r][n] = "absent"
  /\ InCall(r) /\ op[r].kind = "terminate" =>
       /\ op[r].id <= serial
       /\ input[r][op[r].name] = "absent"
       /\ \A s \in sessions : s.id = op[r].id => s.name = op[r].name

SweepInv == OneSessionPerId /\ \A r \in Loop : SweepsAbsent(r)

\* A Reconcile that has met no other is alone, and nobody else has closed its
\* connection; only a Reconcile under way has met another.
Alone(r) ==
  /\ r \in met => phase[r] # "idle"
  /\ r \notin met /\ phase[r] # "idle" =>
       /\ \A q \in Loop \ {r} : phase[q] = "idle"
       /\ r \in cut => phase[r] \notin {"host", "call"}

\* Whoever finds the connection gone has had it closed since it ensured it.
ConnectionHeld(r) == phase[r] \in {"host", "call"} /\ r \notin cut => conn

MeetInv == \A r \in Loop : Alone(r) /\ ConnectionHeld(r)

\* While r is alone: a name that is still to be looked at and was not listed,
\* or is being created, has no session.
CreatesMissing(r) ==
  /\ phase[r] = "connect" => ~ avail[r]
  /\ (phase[r] = "pass" /\ avail[r]) \/ (InCall(r) /\ op[r].kind \notin {"list", "terminate"}) =>
       \A n \in todo[r] : Named(live[r], n) = {} => Named(sessions, n) = {}
  /\ phase[r] \in {"ensure", "host", "call"} /\ op[r].kind = "create" =>
       Named(sessions, op[r].name) = {}
  /\ InCall(r) /\ op[r].kind = "create" => op[r].name \notin todo[r]

\* While r is alone: what was listed, or is reported as ready, and has an
\* entry is still there.
KeepsDesired(r) ==
  /\ \A n \in Name : out[r][n] = "ready" =>
       input[r][n] # "absent" /\ Named(sessions, n) # {}
  /\ \A s \in live[r] : input[r][s.name] # "absent" => Named(sessions, s.name) # {}
  /\ InCall(r) /\ op[r].kind = "create" => input[r][op[r].name] # "absent"

\* Between two Reconciles a loop keeps nothing.
Rests(r) == phase[r] = "idle" => live[r] = {} /\ out[r] = Silent /\ ~ avail[r]

AloneInv ==
  \A r \in Loop : Rests(r) /\ (r \in met \/ (CreatesMissing(r) /\ KeepsDesired(r)))

\* Every name is listed once.
ListedOnce == \A r \in Loop : \A s, t \in live[r] : s.name = t.name => s = t

\* A call of loop r is for the entry it says.
CallFits(r) ==
  /\ op[r].kind = "pause" =>
       input[r][op[r].name] = "stopped" /\ out[r][op[r].name] = "paused"
  /\ op[r].kind = "resume" =>
       /\ input[r][op[r].name] = "running" /\ out[r][op[r].name] # ""
       /\ Named(live[r], op[r].name) # {}
  /\ op[r].kind = "create" => input[r][op[r].name] = "running"

\* While r is alone and nothing has failed: the entries before the one whose
\* turn it is are carried out, and in the sweep what was listed without an
\* entry is gone but for what is still to be terminated.
CarriesOut(r) ==
  /\ phase[r] \in {"pass", "sweep"} \/ (InCall(r) /\ op[r].kind # "list") => avail[r]
  /\ \A n \in Name : input[r][n] = "absent" => out[r][n] = ""
  /\ InCall(r) => CallFits(r)
  /\ phase[r] = "pass" \/ (InCall(r) /\ op[r].kind \notin {"list", "terminate"}) =>
       \A n \in desiredNames(r) \ todo[r] : Carried(r, n) \/ (InCall(r) /\ n = op[r].name)
  /\ phase[r] = "sweep" \/ (InCall(r) /\ op[r].kind = "terminate") =>
       /\ \A n \in desiredNames(r) : Carried(r, n)
       /\ \A s \in live[r] : input[r][s.name] = "absent" =>
            \/ s.name \in todo[r]
            \/ InCall(r) /\ s.id = op[r].id
            \/ Gone(s)
  /\ phase[r] = "reset" => Unmatched(r)

CarryInv ==
  ListedOnce /\ \A r \in Loop \ (met \cup failed) : phase[r] # "idle" => CarriesOut(r)
=============================================================================
