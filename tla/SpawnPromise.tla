---------------------------- MODULE SpawnPromise ----------------------------
(***************************************************************************)
(* What a spawn-stage request promises (ServeSpawnStage and                *)
(* openStageThread of src/internal/t3/gateway.go), without the scope file, *)
(* tokens, refreshes, retries and timeouts.                                *)
(*                                                                         *)
(* A request makes one thread, in a project of its workspace, and a        *)
(* project only after it has found none.  It is answered with the thread   *)
(* in the very step that starts the thread's turn.  When it fails instead, *)
(* at most one more of its steps may still happen, and the answer does not *)
(* tell whether it does.  SpawnStage implements it.                        *)
(***************************************************************************)
CONSTANTS
  Req,       \* requests
  Asked,     \* the workspace and the provider instance each one asks for
  Existing   \* the projects there may be at first

VARIABLES
  status,    \* of each request
  missed,    \* requests that found no project of their workspace
  projects,
  thread,    \* the thread of each request
  turned     \* requests whose turn was started

NoThread == [project |-> "nothing", instance |-> ""]

vars == <<status, missed, projects, thread, turned>>

Init ==
  /\ status = [r \in Req |-> "idle"]
  /\ missed = {}
  /\ projects \in Existing
  /\ thread = [r \in Req |-> NoThread]
  /\ turned = {}

Fitting(r) == {p \in projects : p.workspace = Asked[r].workspace}

Take(r) ==
  /\ status[r] = "idle"
  /\ status' = [status EXCEPT ![r] = "pending"]
  /\ UNCHANGED <<missed, projects, thread, turned>>

\* The request looks for a project and finds none.
Miss(r) ==
  /\ status[r] = "pending"
  /\ thread[r] = NoThread
  /\ Fitting(r) = {}
  /\ missed' = missed \cup {r}
  /\ UNCHANGED <<status, projects, thread, turned>>

\* A request that goes on waits for its next step; one that was given up has
\* no other step to come.
Working(r) == status[r] \in {"pending", "doubtful"}

Goes(r, next) ==
  status' = [status EXCEPT ![r] = IF @ = "pending" THEN next ELSE "failed"]

MakeProject(r) ==
  /\ Working(r)
  /\ r \in missed
  /\ thread[r] = NoThread
  /\ \A p \in projects : p.id # r
  /\ projects' = projects \cup {[id |-> r, workspace |-> Asked[r].workspace]}
  /\ Goes(r, "pending")
  /\ UNCHANGED <<missed, thread, turned>>

\* The thread is made in the request's own project if it had to make one.
MakeThread(r) ==
  /\ Working(r)
  /\ thread[r] = NoThread
  /\ \E p \in Fitting(r) :
       /\ r \in missed => p.id = r
       /\ thread' = [thread EXCEPT ![r] = [project |-> p.id, instance |-> Asked[r].instance]]
  /\ Goes(r, "pending")
  /\ UNCHANGED <<missed, projects, turned>>

StartTurn(r) ==
  /\ Working(r)
  /\ thread[r] # NoThread
  /\ r \notin turned
  /\ turned' = turned \cup {r}
  /\ Goes(r, "ok")
  /\ UNCHANGED <<missed, projects, thread>>

\* The request fails; its last step may be under way.
Fail(r) ==
  /\ status[r] = "pending"
  /\ \E s \in {"failed", "doubtful"} : status' = [status EXCEPT ![r] = s]
  /\ UNCHANGED <<missed, projects, thread, turned>>

\* The step that was under way comes to nothing.
Drop(r) ==
  /\ status[r] = "doubtful"
  /\ status' = [status EXCEPT ![r] = "failed"]
  /\ UNCHANGED <<missed, projects, thread, turned>>

Next ==
  \E r \in Req :
    \/ Take(r) \/ Miss(r) \/ MakeProject(r) \/ MakeThread(r) \/ StartTurn(r)
    \/ Fail(r) \/ Drop(r)

Spec == Init /\ [][Next]_vars
=============================================================================
