--------------------------- MODULE PairingTokens ---------------------------
(***************************************************************************)
(* Browser pairing and authorization of the t3 gateway                     *)
(* (src/internal/t3/gateway.go, src/internal/t3/token_store.go).           *)
(*                                                                         *)
(* A dashboard asks for a pairing code, a client trades the code for a     *)
(* bearer token, and every proxied request shows the token.  Codes and     *)
(* tokens live in two maps guarded by the mutex mu; tokens are also        *)
(* written to Postgres, one row per devcontainer, when a store is          *)
(* configured.  A request that misses the map reads the row WITHOUT mu and *)
(* takes mu again to put the token back into the map, so a pairing may     *)
(* fall between any two of its steps, and so may a crash of the manager.   *)
(*                                                                         *)
(* The Go maps and the table are sets of records with their key as a       *)
(* field.  Codes and tokens are random: a drawn token was never drawn      *)
(* before, a drawn code is neither outstanding nor was it ever spent.      *)
(***************************************************************************)
EXTENDS Naturals, FiniteSets

CONSTANTS
  Env,          \* environment ids
  Container,    \* devcontainer ids, the primary key of pairing_tokens
  Routes,       \* the <<env, container>> pairs the service may look up
  Code,         \* pairing codes that randomCode may return
  Token,        \* bearer tokens that randomToken may return
  Proc,         \* goroutines serving HTTP requests
  HasStore,     \* pairingTokens.postgresUrl is set
  StoreFaults,  \* a call to Postgres may return an error, and its statement
                \* may be carried out after that
  CodeTTL,      \* lifetime of a code: 5 minutes in the code
  TokenTTL,     \* lifetime of a token: 24 hours in the code
  MaxTime,      \* bound on the clock
  MaxLate       \* bound on the statements that outlive their calls

ASSUME PairingAssumption ==
  /\ Routes \subseteq Env \X Container
  /\ HasStore \in BOOLEAN
  /\ StoreFaults \in BOOLEAN
  /\ CodeTTL \in Nat
  /\ TokenTTL \in Nat
  /\ MaxTime \in Nat
  /\ MaxLate \in Nat

VARIABLES
  now,          \* time.Now(), in ticks
  mu,           \* holder of g.mu, as a set of at most one goroutine
  pairing,      \* g.pairing
  browserAuth,  \* g.browserAuth
  store,        \* the pairing_tokens table
  lateSave,     \* rows of Saves and
  lateDelete,   \* containers of Deletes whose calls have ended, and that
                \* Postgres may still carry out
  pc,           \* where each goroutine is
  req,          \* what each goroutine works on
  grant,        \* history: every token ever drawn, and what it was drawn for
  current,      \* history: per container the last token handed to a client,
                \* until the next pairing of the container begins
  raced,        \* history: containers whose last row was written while another
                \* statement about them was on its way
  opened        \* history: where each token entered browserAuth since the
                \* start, for a request that its own container served

postgres == <<store, lateSave, lateDelete>>
history == <<grant, current, raced, opened>>
vars    == <<now, mu, pairing, browserAuth, pc, req, postgres, history>>

(***************************************************************************)
(* The records kept in each map and table.                                 *)
(***************************************************************************)
pairingCode  == [code : Code, env : Env, exp : Nat]
browserToken == [tok : Token, env : Env, exp : Nat]
Row          == [cid : Container, tok : Token, exp : Nat]
Grant        == [tok : Token, env : Env, cid : Container, exp : Nat, code : Code]
Request      == [env : Env, cid : Container, tok : Token, exp : Nat, at : Nat]
NoRequest    == [env |-> "none", cid |-> "none", tok |-> "none", exp |-> 0, at |-> 0]
Entrance     == [tok : Token, env : Env, by : {"pairing", "row"}]

PCs == {"idle", "save", "saved", "get", "delete", "fill", "accepted"}

TypeOK ==
  /\ now \in Nat
  /\ mu \in SUBSET Proc
  /\ pairing \in SUBSET pairingCode
  /\ browserAuth \in SUBSET browserToken
  /\ store \in SUBSET Row
  /\ lateSave \in SUBSET Row
  /\ lateDelete \in SUBSET Container
  /\ pc \in [Proc -> PCs]
  /\ req \in [Proc -> Request \cup {NoRequest}]
  /\ \A p \in Proc : pc[p] # "idle" => req[p] \in Request
  /\ grant \in SUBSET Grant
  /\ current \in SUBSET Row
  /\ raced \in SUBSET Container
  /\ opened \in SUBSET Entrance

Init ==
  /\ now = 0
  /\ mu = {}
  /\ pairing = {}
  /\ browserAuth = {}
  /\ store = {}
  /\ lateSave = {}
  /\ lateDelete = {}
  /\ pc = [p \in Proc |-> "idle"]
  /\ req = [p \in Proc |-> NoRequest]
  /\ grant = {}
  /\ current = {}
  /\ raced = {}
  /\ opened = {}

(***************************************************************************)
(* Helpers.                                                                *)
(***************************************************************************)
Goto(p, label) == pc' = [pc EXCEPT ![p] = label]

\* The handler of p returns and its request is forgotten.
Return(p) ==
  /\ Goto(p, "idle")
  /\ req' = [req EXCEPT ![p] = NoRequest]

\* Mutant: a code that was traded stays good until its end.
deleteCodeForgotten(entry) == pairing

\* delete(g.pairing, code): the codes left once this one is spent.
deleteCode(entry) == pairing \ {entry}

\* Mutant: the replaced tokens of the environment stay.
deleteBrowserTokensForgotten(e) == browserAuth

\* deleteBrowserTokensLocked: the entries left once those of e are deleted.
deleteBrowserTokensLocked(e) == {b \in browserAuth : b.env # e}

\* INSERT ... ON CONFLICT (devcontainer_id) DO UPDATE.
Upsert(table, row) == {r \in table : r.cid # row.cid} \cup {row}

\* The bound on what Postgres still has to carry out.
LateBound == Cardinality(lateSave) + Cardinality(lateDelete) <= MaxLate

\* The row that the pairing of p saves.
SavedRow(p) == [cid |-> req[p].cid, tok |-> req[p].tok, exp |-> req[p].exp]

\* The token of p enters the map.  This is worth a note only if p was routed
\* to the container that the token was granted for.
Opening(p, by) ==
  IF \E g \in grant : g.tok = req[p].tok /\ g.cid = req[p].cid
    THEN {[tok |-> req[p].tok, env |-> req[p].env, by |-> by]} ELSE {}

\* A Delete about container c, or a Save that was given up, is on its way.
OnItsWay(c) ==
  \/ \E q \in Proc : pc[q] = "delete" /\ req[q].cid = c
  \/ c \in lateDelete
  \/ \E row \in lateSave : row.cid = c

\* Mutants: the end, or the environment, of a cached token is not looked at.
CachedForever(e, t)  == \E b \in browserAuth : b.tok = t /\ b.env = e
CachedForAnyEnv(e, t) == \E b \in browserAuth : b.tok = t /\ now < b.exp

\* The test of authorizedWithStore on the map: a token of this environment
\* that time.Now() is strictly before the end of.
Cached(e, t) ==
  \E b \in browserAuth : b.tok = t /\ b.env = e /\ now < b.exp

(***************************************************************************)
(* Pairing.                                                                *)
(***************************************************************************)
\* GeneratePairingCode, called by POST /api/environments/<id>/pairing-code.
GeneratePairingCode(e, k) ==
  /\ mu = {}
  /\ \A c \in pairing : c.code # k
  /\ \A g \in grant : g.code # k
  /\ pairing' = pairing \cup {[code |-> k, env |-> e, exp |-> now + CodeTTL]}
  /\ UNCHANGED <<now, mu, browserAuth, pc, req, postgres, history>>

\* Mutant: the end of the code is not looked at.
BootstrapClaimLate(p, e, c, k, t) ==
  /\ pc[p] = "idle"
  /\ mu = {}
  /\ \E entry \in pairing :
       /\ entry.code = k
       /\ entry.env = e
       /\ pairing' = deleteCode(entry)
  /\ \A g \in grant : g.tok # t
  /\ mu' = {p}
  /\ Goto(p, IF HasStore THEN "save" ELSE "saved")
  /\ req' = [req EXCEPT ![p] =
               [env |-> e, cid |-> c, tok |-> t, exp |-> now + TokenTTL, at |-> now]]
  /\ grant' = grant \cup
       {[tok |-> t, env |-> e, cid |-> c, exp |-> now + TokenTTL, code |-> k]}
  /\ current' = {r \in current : r.cid # c}
  /\ UNCHANGED <<now, browserAuth, postgres, raced, opened>>

\* handleBootstrap up to the call of Save: mu is taken and kept, the code is
\* checked and deleted, a token and its end are drawn.  A code that is
\* unknown, of another environment or too old changes nothing.
BootstrapClaim(p, e, c, k, t) ==
  /\ pc[p] = "idle"
  /\ mu = {}
  /\ \E entry \in pairing :
       /\ entry.code = k
       /\ entry.env = e
       /\ now <= entry.exp
       /\ pairing' = deleteCode(entry)
  /\ \A g \in grant : g.tok # t
  /\ mu' = {p}
  /\ Goto(p, IF HasStore THEN "save" ELSE "saved")
  /\ req' = [req EXCEPT ![p] =
               [env |-> e, cid |-> c, tok |-> t, exp |-> now + TokenTTL, at |-> now]]
  /\ grant' = grant \cup
       {[tok |-> t, env |-> e, cid |-> c, exp |-> now + TokenTTL, code |-> k]}
  /\ current' = {r \in current : r.cid # c}
  /\ UNCHANGED <<now, browserAuth, postgres, raced, opened>>

\* tokenStore.Save writes the row, mu is still held.
StoreSave(p) ==
  /\ pc[p] = "save"
  /\ store' = Upsert(store, SavedRow(p))
  /\ raced' = IF OnItsWay(req[p].cid) THEN raced \cup {req[p].cid}
                                      ELSE raced \ {req[p].cid}
  /\ Goto(p, "saved")
  /\ UNCHANGED <<now, mu, pairing, browserAuth, lateSave, lateDelete, req,
                 grant, current, opened>>

\* handleBootstrap from a successful Save (or from no store) to its end: the
\* other tokens of the environment go, the new one enters the map and is
\* sent to the client, mu is released.
BootstrapFinish(p) ==
  LET r == req[p]
  IN  /\ pc[p] = "saved"
      /\ browserAuth' = deleteBrowserTokensLocked(r.env) \cup
                          {[tok |-> r.tok, env |-> r.env, exp |-> r.exp]}
      /\ current' = Upsert(current, SavedRow(p))
      /\ opened' = opened \cup Opening(p, "pairing")
      /\ mu' = {}
      /\ Return(p)
      /\ UNCHANGED <<now, pairing, postgres, grant, raced>>

\* Mutant: the error path returns with mu held.
BootstrapSaveFailsLocked(p) ==
  /\ pc[p] \in {"save", "saved"}
  /\ HasStore /\ StoreFaults
  /\ Return(p)
  /\ UNCHANGED <<now, mu, pairing, browserAuth, postgres, history>>

\* handleBootstrap when Save returns an error: the code is spent, the map is
\* left alone.  An error (a cancelled request, a lost connection) does not
\* tell whether the row was written, will be, or never will be.
BootstrapSaveFails(p) ==
  /\ pc[p] \in {"save", "saved"}
  /\ HasStore /\ StoreFaults
  /\ lateSave' \in {lateSave, lateSave \cup {r \in {SavedRow(p)} : pc[p] = "save"}}
  /\ mu' = {}
  /\ Return(p)
  /\ UNCHANGED <<now, pairing, browserAuth, store, lateDelete, history>>
  /\ LateBound'

(***************************************************************************)
(* Authorization: authorizedWithStore, step by step.                       *)
(***************************************************************************)
\* A request that shows token t for environment e, served by container c,
\* finds it in the map and goes on to the proxy.
AuthorizeCached(p, e, c, t) ==
  /\ pc[p] = "idle"
  /\ mu = {}
  /\ Cached(e, t)
  /\ Goto(p, "accepted")
  /\ req' = [req EXCEPT ![p] =
               [env |-> e, cid |-> c, tok |-> t, exp |-> 0, at |-> now]]
  /\ UNCHANGED <<now, mu, pairing, browserAuth, postgres, history>>

\* The map does not have it: mu is released and the store will be asked.
\* Without a store the request is refused and nothing changes.
AuthorizeMiss(p, e, c, t) ==
  /\ pc[p] = "idle"
  /\ mu = {}
  /\ HasStore
  /\ ~ Cached(e, t)
  /\ Goto(p, "get")
  /\ req' = [req EXCEPT ![p] =
               [env |-> e, cid |-> c, tok |-> t, exp |-> 0, at |-> now]]
  /\ UNCHANGED <<now, mu, pairing, browserAuth, postgres, history>>

\* Mutant: the row is looked up by token instead of container.
StoreGetHitByToken(p) ==
  /\ pc[p] = "get"
  /\ \E r \in store :
       /\ r.tok = req[p].tok
       /\ now <= r.exp
       /\ req' = [req EXCEPT ![p] = [@ EXCEPT !.exp = r.exp]]
  /\ Goto(p, "fill")
  /\ UNCHANGED <<now, mu, pairing, browserAuth, postgres, history>>

\* tokenStore.Get finds the row of the container, with this token and not
\* past its end.
StoreGetHit(p) ==
  /\ pc[p] = "get"
  /\ \E r \in store :
       /\ r.cid = req[p].cid
       /\ r.tok = req[p].tok
       /\ now <= r.exp
       /\ req' = [req EXCEPT ![p] = [@ EXCEPT !.exp = r.exp]]
  /\ Goto(p, "fill")
  /\ UNCHANGED <<now, mu, pairing, browserAuth, postgres, history>>

\* Mutant: a row at its very end is taken for expired.
StoreGetExpiredEarly(p) ==
  /\ pc[p] = "get"
  /\ \E r \in store : r.cid = req[p].cid /\ now >= r.exp
  /\ Goto(p, "delete")
  /\ UNCHANGED <<now, mu, pairing, browserAuth, req, postgres, history>>

\* tokenStore.Get finds a row past its end, whatever its token: it will be
\* deleted before the request is refused.
StoreGetExpired(p) ==
  /\ pc[p] = "get"
  /\ \E r \in store : r.cid = req[p].cid /\ now > r.exp
  /\ Goto(p, "delete")
  /\ UNCHANGED <<now, mu, pairing, browserAuth, req, postgres, history>>

\* Mutant: the early return after a miss is left out and the zero row is used.
StoreGetMissGoesOn(p) ==
  /\ pc[p] = "get"
  /\ \A r \in store : r.cid = req[p].cid => r.tok # req[p].tok /\ now <= r.exp
  /\ Goto(p, "fill")
  /\ req' = [req EXCEPT ![p] = NoRequest]
  /\ UNCHANGED <<now, mu, pairing, browserAuth, postgres, history>>

\* tokenStore.Get finds no row, finds another token, or returns an error:
\* the request is refused.
StoreGetMiss(p) ==
  /\ pc[p] = "get"
  /\ \/ StoreFaults
     \/ \A r \in store : r.cid = req[p].cid => r.tok # req[p].tok /\ now <= r.exp
  /\ Return(p)
  /\ UNCHANGED <<now, mu, pairing, browserAuth, postgres, history>>

\* tokenStore.Delete removes the row of the container, whatever it holds by
\* now.  The request is refused.
StoreDelete(p) ==
  /\ pc[p] = "delete"
  /\ store' = {r \in store : r.cid # req[p].cid}
  /\ Return(p)
  /\ UNCHANGED <<now, mu, pairing, browserAuth, lateSave, lateDelete, history>>

\* An error of Delete is ignored: the row may go later, or never.
StoreDeleteFails(p) ==
  /\ pc[p] = "delete"
  /\ StoreFaults
  /\ lateDelete' \in {lateDelete, lateDelete \cup {req[p].cid}}
  /\ Return(p)
  /\ UNCHANGED <<now, mu, pairing, browserAuth, store, lateSave, history>>
  /\ LateBound'

\* Mutant: the refilled entry gets a new end.
CacheFillRenews(p) ==
  LET r == req[p]
  IN  /\ pc[p] = "fill"
      /\ mu = {}
      /\ browserAuth' = {b \in browserAuth : b.tok # r.tok} \cup
                          {[tok |-> r.tok, env |-> r.env, exp |-> now + TokenTTL]}
      /\ Goto(p, "accepted")
      /\ opened' = opened \cup Opening(p, "row")
      /\ UNCHANGED <<now, mu, pairing, req, postgres, grant, current, raced>>

\* The row read earlier enters the map under the requested environment.
CacheFill(p) ==
  LET r == req[p]
  IN  /\ pc[p] = "fill"
      /\ mu = {}
      /\ browserAuth' = {b \in browserAuth : b.tok # r.tok} \cup
                          {[tok |-> r.tok, env |-> r.env, exp |-> r.exp]}
      /\ Goto(p, "accepted")
      /\ opened' = opened \cup Opening(p, "row")
      /\ UNCHANGED <<now, mu, pairing, req, postgres, grant, current, raced>>

\* The proxied request ends.
Done(p) ==
  /\ pc[p] = "accepted"
  /\ Return(p)
  /\ UNCHANGED <<now, mu, pairing, browserAuth, postgres, history>>

(***************************************************************************)
(* Environment.                                                            *)
(***************************************************************************)
Tick ==
  /\ now < MaxTime
  /\ now' = now + 1
  /\ UNCHANGED <<mu, pairing, browserAuth, pc, req, postgres, history>>

\* Postgres carries out a statement whose call has ended.  Deletes of one
\* container count as one, so that there may be another.
LateSave(row) ==
  /\ row \in lateSave
  /\ store' = Upsert(store, row)
  /\ lateSave' = lateSave \ {row}
  /\ UNCHANGED <<now, mu, pairing, browserAuth, lateDelete, pc, req, history>>

LateDelete(c) ==
  /\ c \in lateDelete
  /\ store' = {r \in store : r.cid # c}
  /\ lateDelete' \in {lateDelete, lateDelete \ {c}}
  /\ UNCHANGED <<now, mu, pairing, browserAuth, lateSave, pc, req, history>>

\* The manager stops and starts again: newGateway makes empty maps.  A Save
\* or a Delete under way may be carried out all the same, now or later.
Restart ==
  /\ \E procs \in SUBSET {p \in Proc : StoreFaults} :
       /\ lateSave' = lateSave \cup {SavedRow(p) : p \in {q \in procs : pc[q] = "save"}}
       /\ lateDelete' = lateDelete \cup {req[p].cid : p \in {q \in procs : pc[q] = "delete"}}
  /\ mu' = {}
  /\ pairing' = {}
  /\ browserAuth' = {}
  /\ pc' = [p \in Proc |-> "idle"]
  /\ req' = [p \in Proc |-> NoRequest]
  /\ opened' = {}
  /\ UNCHANGED <<now, store, grant, current, raced>>
  /\ LateBound'

Step(p) ==
  \/ StoreSave(p)
  \/ BootstrapFinish(p)
  \/ BootstrapSaveFails(p)
  \/ StoreGetHit(p)
  \/ StoreGetExpired(p)
  \/ StoreGetMiss(p)
  \/ StoreDelete(p)
  \/ StoreDeleteFails(p)
  \/ CacheFill(p)
  \/ Done(p)

Arrive(p) ==
  \E route \in Routes, t \in Token :
    \/ \E k \in Code : BootstrapClaim(p, route[1], route[2], k, t)
    \/ AuthorizeCached(p, route[1], route[2], t)
    \/ AuthorizeMiss(p, route[1], route[2], t)

Next ==
  \/ Tick
  \/ Restart
  \/ \E row \in lateSave : LateSave(row)
  \/ \E c \in lateDelete : LateDelete(c)
  \/ \E e \in Env, k \in Code : GeneratePairingCode(e, k)
  \/ \E p \in Proc : Arrive(p) \/ Step(p)

Spec == Init /\ [][Next]_vars

\* A handler that has begun goes on: goroutines are scheduled, sync.Mutex
\* does not starve a waiter (hence SF for the step that takes mu) and a
\* Postgres call ends, with its context at the latest.  Of a statement whose
\* call has ended nothing is assumed.
Fairness ==
  \A p \in Proc : /\ WF_vars(Step(p))
                  /\ SF_vars(CacheFill(p))

LiveSpec == Spec /\ Fairness

-----------------------------------------------------------------------------
(***************************************************************************)
(* Properties.                                                             *)
(***************************************************************************)
\* A request for e served by t's own container has put t into the map.
Opened(t, e) == \E o \in opened : o.tok = t /\ o.env = e

\* No request that arrived after the end of a token is let through with it:
\* neither a row read just before its end nor the copy that CacheFill puts
\* into browserAuth makes a token live longer than handleBootstrap said.
ExpiredNeverAccepted ==
  \A p \in Proc : pc[p] = "accepted" =>
    \E g \in grant : g.tok = req[p].tok /\ req[p].at <= g.exp

\* A request is let through to the very container that its token was granted
\* for; to another one only if since the last start a request that the
\* token's own container served has put it into the map for the environment
\* asked for, whose container was replaced since.  browserAuth is keyed by
\* token, checked by environment, and refilled from rows keyed by container.
AcceptedTokenFitsRoute ==
  \A p \in Proc : pc[p] = "accepted" =>
    \E g \in grant :
      /\ g.tok = req[p].tok
      /\ g.cid = req[p].cid \/ Opened(g.tok, req[p].env)

\* A pairing code buys at most one token, however many clients post it at
\* once: handleBootstrap checks and deletes the code under one hold of mu.
CodeSingleUse ==
  \A g, h \in grant : g.code = h.code => g = h

\* Pairing again replaces the token of an environment: the map holds two
\* only if one of them was put back by a request that read its row before
\* (or under another container of the environment).  Without a store that
\* cannot be.
OneTokenPerEnv ==
  \A b, d \in browserAuth :
    b.env = d.env /\ b # d =>
      \E t \in {b.tok, d.tok} : [tok |-> t, env |-> b.env, by |-> "row"] \in opened

\* "paired dashboard/API clients survive DCM restarts"
\* (src/config.example.yaml:30-31): the token last handed to a client is in
\* the store until its end or the next pairing of its container, so that
\* authorizedWithStore finds it after a restart.
DurableToken ==
  \A r \in current : now <= r.exp => r \in store

\* With a store, only a statement that was on its way when the token's row was
\* written takes that promise away: the Delete of an older row, under way or
\* given up, or a Save that was given up; calls that are given up may be
\* carried out any time later.  Nothing that is done, fails or restarts after
\* the row was written loses the token.
DurableUnlessRaced ==
  \A r \in current : r.cid \notin raced /\ now <= r.exp => r \in store

\* A handler that has begun ends: it is not left waiting for mu by a pairing
\* that returned, on whatever path, without releasing it.
Answered ==
  \A p \in Proc : pc[p] # "idle" ~> pc[p] = "idle"

-----------------------------------------------------------------------------
(***************************************************************************)
(* The promise it implements.                                              *)
(***************************************************************************)
\* The session of a request that was let through, as the authority sees it.
Admitted ==
  [p \in Proc |-> IF pc[p] = "accepted"
                    THEN [env |-> req[p].env, cid |-> req[p].cid, tok |-> req[p].tok,
                          at |-> req[p].at]
                    ELSE [env |-> "none", cid |-> "none", tok |-> "none", at |-> 0]]

Authority == INSTANCE TokenAuthority
               WITH codes <- pairing, grants <- grant, session <- Admitted,
                    opens <- {<<o.tok, o.env>> : o \in opened}

\* Seen from outside, the mutex, the map, the table and the steps of
\* handleBootstrap and authorizedWithStore behave as one authority that
\* trades a code once before its end and admits a request only on a grant
\* that is good for it and that was granted for its container, or has opened
\* its environment.
ImplementsAuthority == Authority!Spec

-----------------------------------------------------------------------------
(***************************************************************************)
(* Inductive strengthenings, for the proofs.                               *)
(***************************************************************************)
Granted(t, c, x) == \E g \in grant : g.tok = t /\ g.cid = c /\ g.exp = x

CachedTokens ==
  \A b \in browserAuth :
    Opened(b.tok, b.env) /\ \E g \in grant : g.tok = b.tok /\ g.exp = b.exp

StoredTokens ==
  \A r \in store \cup lateSave : Granted(r.tok, r.cid, r.exp)

CarriedToken(p) ==
  /\ pc[p] \in {"save", "saved"} =>
       \E g \in grant : /\ g.tok = req[p].tok
                        /\ g.env = req[p].env
                        /\ g.cid = req[p].cid
                        /\ g.exp = req[p].exp
  /\ pc[p] = "fill" => Granted(req[p].tok, req[p].cid, req[p].exp)
  /\ pc[p] \in {"get", "fill"} => req[p].at <= now
  /\ pc[p] = "fill" => req[p].at <= req[p].exp
  /\ pc[p] = "accepted" =>
       \E g \in grant : /\ g.tok = req[p].tok
                        /\ req[p].at <= g.exp
                        /\ g.cid = req[p].cid \/ Opened(g.tok, req[p].env)

\* Every copy of a token that the gateway keeps or carries (an entry of
\* browserAuth, a row, a row that Postgres may still write, a request between
\* two of its steps) goes back to a pairing that granted it, with the end and
\* the container it was granted with: neither the trip through the store nor
\* a restart alters them.
TokenProvenance ==
  /\ CachedTokens
  /\ StoredTokens
  /\ \A p \in Proc : CarriedToken(p)

\* An outstanding code has one entry and has bought nothing yet.
CodesUnspent ==
  /\ \A c, d \in pairing : c.code = d.code => c = d
  /\ \A c \in pairing, g \in grant : c.code # g.code

\* Without a store no request ever reaches the steps that read it.
MemoryOnly ==
  HasStore \/ \A p \in Proc : pc[p] \in {"idle", "saved", "accepted"}

\* The rows that clients rely on, or are about to.
Promised == current \cup {SavedRow(p) : p \in {q \in Proc : pc[q] = "saved"}}

\* With a store: a container has one row, a pairing under way has mu to
\* itself and no current token, and of a promised row that was not raced, a
\* statement on its way finds only what is past its end.
DurableInv ==
  /\ \A r, s \in store : r.cid = s.cid => r = s
  /\ \A p \in Proc :
       pc[p] \in {"save", "saved"} => mu = {p} /\ \A r \in current : r.cid # req[p].cid
  /\ \A r \in Promised :
       r.cid \notin raced =>
         /\ now <= r.exp => r \in store
         /\ OnItsWay(r.cid) => now > r.exp /\ \A row \in lateSave : row.cid # r.cid
=============================================================================
