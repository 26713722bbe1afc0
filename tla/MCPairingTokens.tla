-------------------------- MODULE MCPairingTokens --------------------------
(***************************************************************************)
(* Small instances of PairingTokens for TLC.                               *)
(***************************************************************************)
EXTENDS PairingTokens, TLC

CONSTANTS e1, e2, c1, c2

\* Two environments, one container each.
Distinct == {<<e1, c1>>, <<e2, c2>>}

\* One environment that is served by c1 and, once rebuilt, by c2.
Rebuilt == {<<e1, c1>>, <<e1, c2>>}

\* Codes and tokens are interchangeable.
Symmetry == Permutations(Code) \cup Permutations(Token)
=============================================================================
