---------------------------- MODULE MCDiscovery ----------------------------
(***************************************************************************)
(* A small instance of Discovery for TLC: one container, which the files   *)
(* find by its name, by a label that it lacks or not at all.               *)
(***************************************************************************)
EXTENDS Discovery, TLC

CONSTANTS c1, tick, event

Layer(remote, user) == [remoteUser |-> remote, containerUser |-> user]

Known ==
  c1 :> [folder |-> "", file |-> "", name |-> "vsc-a", marked |-> FALSE,
         prefixes |-> {"vsc-"}, labels |-> [l \in {"team", "role"} |-> IF l = "team" THEN "x" ELSE ""],
         metadata |-> <<Layer("node", ""), Layer("", "dev")>>, configUser |-> "root"]

Homes == c1 :> [u \in {"node", "dev", "root", "vscode"} |-> IF u = "node" THEN "/home/node" ELSE ""]

Hosts == c1 :> 1

Plain ==
  [prefixes |-> {}, labels |-> {}, by |-> "short", net |-> "shared", user |-> "", home |-> "",
   rules |-> <<>>]

Rule(name, valid) ==
  [DefaultRule EXCEPT !.name = {name}, !.home = "/home/b", !.valid = valid]

\* The network by a short ID, and all else as by default; by its ID, with two
\* rules and a label that the container does not have; a file that finds no
\* container, and one that is refused.
Files ==
  { Plain,
    [Plain EXCEPT !.by = "id", !.prefixes = {"dev-"}, !.labels = {<<"role", "">>},
                  !.rules = <<Rule({"vsc-b"}, TRUE), Rule({"vsc-a", "vsc-b"}, TRUE)>>],
    [Plain EXCEPT !.by = "", !.prefixes = {"dev-"}],
    [Plain EXCEPT !.rules = <<Rule({"vsc-a"}, FALSE)>>] }
=============================================================================
