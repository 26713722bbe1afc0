----------------------------- MODULE MCService -----------------------------
(***************************************************************************)
(* Small instances of Service for TLC.                                     *)
(***************************************************************************)
EXTENDS Service, TLC

CONSTANTS c1, c2, e1

\* Containers whose t3 report the same id; one whose t3 reports none, so that
\* its short id is taken.
OneEnv   == [c \in Container |-> e1]
Unnamed  == [c \in Container |-> NoEnv]
ShortIds == [c \in Container |-> e1]

\* Nothing tells two containers or two addresses apart when all report one id.
Alike == Permutations(Container) \cup Permutations(Ip)

Loopback == [host |-> "127.0.0.1", port |-> 8787]
Lan      == [host |-> "10.0.0.7", port |-> 9090]
Addrs    == {Loopback, Lan}
NoAddrs  == {}
OnLan    == {Lan}

On      == [listen |-> Loopback, discovers |-> Container, t3 |-> Container, auto |-> TRUE]
T3Off   == [On EXCEPT !.t3 = {}]
Blind   == [On EXCEPT !.discovers = {}]

OnOnly     == {On}
OnBlindOff == {On, Blind, T3Off}
=============================================================================
