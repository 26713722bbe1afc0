---------------------------- MODULE MCSpawnStage ----------------------------
(***************************************************************************)
(* A small instance of SpawnStage for TLC.                                 *)
(***************************************************************************)
EXTENDS SpawnStage, TLC

CONSTANTS r1, r2, p0, w1

\* One workspace, written in two ways.
Paths   == {"/ws", "/ws/"}
Cleaned == [p \in Paths |-> w1]

Ask(agent, path) ==
  [agent |-> agent, path |-> path, absolute |-> TRUE, prompt |-> "fix", bank |-> "b"]

Bodies == r1 :> Ask("codex", "/ws") @@ r2 :> Ask("claude", "/ws/")
Sizes  == r1 :> 2 @@ r2 :> 1

\* t3 has no project, or one made in its own user interface.
Codex == [instance |-> "codex", model |-> "other"]
Start == {{}, {Project(p0, "/ws", Codex)}}
=============================================================================
