--------------------------- MODULE TokenAuthority ---------------------------
(***************************************************************************)
(* What the t3 gateway promises about pairing and authorization            *)
(* (src/internal/t3/gateway.go), without maps, mutex, store or steps: a    *)
(* code buys one grant before its end, and a request is let through only   *)
(* on a grant whose end is not before the request's arrival and that is    *)
(* good where the request goes: it was granted for the container that      *)
(* serves the request, or, since the last restart, its own container has   *)
(* served the environment asked for.  PairingTokens implements it.         *)
(***************************************************************************)
EXTENDS Naturals

CONSTANTS Env, Container, Routes, Code, Token, Proc, CodeTTL, TokenTTL

VARIABLES
  now,      \* the time
  codes,    \* codes that may still be traded
  grants,   \* tokens granted so far
  opens,    \* the environments that tokens open whoever serves them
  session   \* what each request that was let through was let through with

Nobody == [env |-> "none", cid |-> "none", tok |-> "none", at |-> 0]

Init ==
  /\ now = 0
  /\ codes = {}
  /\ grants = {}
  /\ opens = {}
  /\ session = [p \in Proc |-> Nobody]

\* A code is handed out that is not outstanding and was never traded.
Offer(e, k) ==
  /\ \A c \in codes : c.code # k
  /\ \A g \in grants : g.code # k
  /\ codes' = codes \cup {[code |-> k, env |-> e, exp |-> now + CodeTTL]}
  /\ UNCHANGED <<now, grants, opens, session>>

\* An outstanding code of e, not past its end, is traded for a new token.
Trade(e, c, k, t) ==
  /\ \E entry \in codes : /\ entry.code = k
                          /\ entry.env = e
                          /\ now <= entry.exp
                          /\ codes' = codes \ {entry}
  /\ \A g \in grants : g.tok # t
  /\ grants' = grants \cup
       {[tok |-> t, env |-> e, cid |-> c, exp |-> now + TokenTTL, code |-> k]}
  /\ UNCHANGED <<now, opens, session>>

\* The client has its token: it opens the environment of its code.
Deliver(g) ==
  /\ opens' = opens \cup {<<g.tok, g.env>>}
  /\ UNCHANGED <<now, codes, grants, session>>

\* A request for e, which c serves, that arrived at some time up to now is let
\* through.  If c is the token's own container, it opens e from now on.
Admit(p, e, c, t) ==
  /\ session[p] = Nobody
  /\ \E at \in 0..now, g \in grants :
       /\ g.tok = t
       /\ at <= g.exp
       /\ session' = [session EXCEPT ![p] = [env |-> e, cid |-> c, tok |-> t, at |-> at]]
       /\ \/ g.cid = c /\ opens' = opens \cup {<<t, e>>}
          \/ <<t, e>> \in opens /\ UNCHANGED opens
  /\ UNCHANGED <<now, codes, grants>>

\* A request ends.
Leave(p) ==
  /\ session' = [session EXCEPT ![p] = Nobody]
  /\ UNCHANGED <<now, codes, grants, opens>>

\* A restart ends all requests, drops all codes and closes what tokens have
\* opened, but takes back no grant.
Forget ==
  /\ codes' = {}
  /\ opens' = {}
  /\ session' = [p \in Proc |-> Nobody]
  /\ UNCHANGED <<now, grants>>

Tick ==
  /\ now' = now + 1
  /\ UNCHANGED <<codes, grants, opens, session>>

Next ==
  \/ Tick
  \/ Forget
  \/ \E e \in Env, k \in Code : Offer(e, k)
  \/ \E route \in Routes, k \in Code, t \in Token : Trade(route[1], route[2], k, t)
  \/ \E g \in grants : Deliver(g)
  \/ \E p \in Proc : Leave(p)
  \/ \E p \in Proc, e \in Env, c \in Container, t \in Token : Admit(p, e, c, t)

Spec == Init /\ [][Next]_<<now, codes, grants, opens, session>>
=============================================================================
