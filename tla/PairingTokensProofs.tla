------------------------ MODULE PairingTokensProofs ------------------------
(***************************************************************************)
(* Theorems about PairingTokens, for every value of its constants.         *)
(***************************************************************************)
EXTENDS PairingTokens, TLAPS

-----------------------------------------------------------------------------
(***************************************************************************)
(* Type correctness.                                                       *)
(***************************************************************************)
\* What a pairing saves is a row.
LEMMA SavedType ==
  ASSUME TypeOK, NEW p \in Proc, pc[p] # "idle"
  PROVE  SavedRow(p) \in Row /\ req[p].cid \in Container
BY DEF TypeOK, SavedRow, Row, Request

\* What is noted about a token that enters the map is an Entrance.
LEMMA OpeningType ==
  ASSUME TypeOK, NEW p \in Proc, pc[p] # "idle", NEW by \in {"pairing", "row"}
  PROVE  Opening(p, by) \subseteq Entrance
BY DEF TypeOK, Opening, Entrance, Request

LEMMA TypeStep == TypeOK /\ [Next]_vars => TypeOK'
<1> SUFFICES ASSUME TypeOK, [Next]_vars PROVE TypeOK'
  OBVIOUS
<1> USE PairingAssumption DEF postgres, history
<1>1. CASE Tick
  BY <1>1 DEF Tick, TypeOK
<1>2. CASE Restart
  <2>1. PICK procs \in SUBSET Proc :
          /\ lateSave' = lateSave \cup {SavedRow(p) : p \in {q \in procs : pc[q] = "save"}}
          /\ lateDelete' = lateDelete \cup
                             {req[p].cid : p \in {q \in procs : pc[q] = "delete"}}
    BY <1>2 DEF Restart
  <2>2. \A p \in Proc : pc[p] # "idle" => SavedRow(p) \in Row /\ req[p].cid \in Container
    BY SavedType
  <2>3. lateSave' \in SUBSET Row /\ lateDelete' \in SUBSET Container
    BY <2>1, <2>2 DEF TypeOK
  <2>4. QED
    BY <1>2, <2>3 DEF Restart, TypeOK, PCs
<1>3. ASSUME NEW e \in Env, NEW k \in Code, GeneratePairingCode(e, k)
      PROVE  TypeOK'
  BY <1>3 DEF GeneratePairingCode, TypeOK, pairingCode
<1>4. ASSUME NEW p \in Proc, NEW route \in Routes, NEW t \in Token, NEW k \in Code,
             BootstrapClaim(p, route[1], route[2], k, t)
      PROVE  TypeOK'
  BY <1>4 DEF BootstrapClaim, deleteCode, Goto, TypeOK, PCs, Request, Grant, Row
<1>5. ASSUME NEW p \in Proc, NEW route \in Routes, NEW t \in Token,
             \/ AuthorizeCached(p, route[1], route[2], t)
             \/ AuthorizeMiss(p, route[1], route[2], t)
      PROVE  TypeOK'
  BY <1>5 DEF AuthorizeCached, AuthorizeMiss, Goto, TypeOK, PCs, Request
<1>6. ASSUME NEW p \in Proc, BootstrapFinish(p)
      PROVE  TypeOK'
  <2>1. SavedRow(p) \in Row /\ Opening(p, "pairing") \subseteq Entrance
    BY <1>6, SavedType, OpeningType DEF BootstrapFinish
  <2>2. QED
    BY <1>6, <2>1 DEF BootstrapFinish, Return, Goto, deleteBrowserTokensLocked, Upsert,
                      TypeOK, PCs, Request, browserToken
<1>7. ASSUME NEW p \in Proc, BootstrapSaveFails(p)
      PROVE  TypeOK'
  <2>1. SavedRow(p) \in Row
    BY <1>7, SavedType DEF BootstrapSaveFails
  <2>2. QED
    BY <1>7, <2>1 DEF BootstrapSaveFails, Return, Goto, TypeOK, PCs
<1>8. ASSUME NEW p \in Proc, StoreGetHit(p)
      PROVE  TypeOK'
  BY <1>8 DEF StoreGetHit, Goto, TypeOK, PCs, Request, Row
<1>9. ASSUME NEW p \in Proc,
             \/ StoreGetExpired(p) \/ StoreGetMiss(p) \/ StoreDelete(p)
             \/ StoreDeleteFails(p) \/ Done(p)
      PROVE  TypeOK'
  <2>1. pc[p] # "idle" => req[p].cid \in Container
    BY SavedType
  <2>2. QED
    BY <1>9, <2>1 DEF StoreGetExpired, StoreGetMiss, StoreDelete, StoreDeleteFails, Done,
                      Return, Goto, TypeOK, PCs
<1>10. ASSUME NEW p \in Proc, CacheFill(p)
       PROVE  TypeOK'
  <2>1. Opening(p, "row") \subseteq Entrance
    BY <1>10, OpeningType DEF CacheFill
  <2>2. QED
    BY <1>10, <2>1 DEF CacheFill, Goto, TypeOK, PCs, Request, browserToken
<1>11. ASSUME NEW p \in Proc, StoreSave(p)
       PROVE  TypeOK'
  <2>1. SavedRow(p) \in Row /\ req[p].cid \in Container
    BY <1>11, SavedType DEF StoreSave
  <2>2. QED
    BY <1>11, <2>1 DEF StoreSave, Goto, Upsert, TypeOK, PCs
<1>12. ASSUME NEW row \in lateSave, LateSave(row)
       PROVE  TypeOK'
  BY <1>12 DEF LateSave, Upsert, TypeOK
<1>13. ASSUME NEW c \in lateDelete, LateDelete(c)
       PROVE  TypeOK'
  BY <1>13 DEF LateDelete, TypeOK
<1>14. CASE UNCHANGED vars
  BY <1>14 DEF vars, TypeOK
<1>15. QED
  BY <1>1, <1>2, <1>3, <1>4, <1>5, <1>6, <1>7, <1>8, <1>9, <1>10, <1>11, <1>12, <1>13,
     <1>14
     DEF Next, Arrive, Step

\* The maps, the table and the requests in flight hold what their types say,
\* whatever the interleaving of pairings, authorizations and restarts.
THEOREM TypeCorrect == Spec => []TypeOK
<1>1. Init => TypeOK
  BY PairingAssumption DEF Init, TypeOK, PCs
<1>2. QED
  BY <1>1, TypeStep, PTL DEF Spec

-----------------------------------------------------------------------------
(***************************************************************************)
(* Where tokens come from.                                                 *)
(***************************************************************************)
\* What a request carries stays right while the request itself rests: time
\* goes on, and grants and what tokens open are only added to.
LEMMA CarriedFrame ==
  ASSUME TypeOK, NEW q \in Proc, CarriedToken(q),
         pc'[q] = pc[q], req'[q] = req[q], grant \subseteq grant',
         opened \subseteq opened', now' \in Nat, now <= now'
  PROVE  CarriedToken(q)'
<1>1. pc[q] \in {"get", "fill"} => req[q].at \in Nat
  BY DEF TypeOK, Request
<1>2. pc[q] \in {"get", "fill"} => req[q].at <= now'
  BY <1>1 DEF TypeOK, CarriedToken
<1>3. pc'[q] \in {"save", "saved"} =>
        \E g \in grant' : /\ g.tok = req'[q].tok
                          /\ g.env = req'[q].env
                          /\ g.cid = req'[q].cid
                          /\ g.exp = req'[q].exp
  BY DEF CarriedToken
<1>4. pc'[q] = "fill" =>
        Granted(req[q].tok, req[q].cid, req[q].exp)' /\ req'[q].at <= req'[q].exp
  BY DEF CarriedToken, Granted
<1>5. pc'[q] = "accepted" =>
        \E g \in grant' : /\ g.tok = req'[q].tok
                          /\ req'[q].at <= g.exp
                          /\ \/ g.cid = req'[q].cid
                             \/ \E o \in opened' : o.tok = g.tok /\ o.env = req'[q].env
  <2>1. SUFFICES ASSUME pc'[q] = "accepted"
                 PROVE  \E g \in grant' :
                          /\ g.tok = req'[q].tok
                          /\ req'[q].at <= g.exp
                          /\ \/ g.cid = req'[q].cid
                             \/ \E o \in opened' : o.tok = g.tok /\ o.env = req'[q].env
    OBVIOUS
  <2>2. PICK g \in grant : /\ g.tok = req[q].tok
                           /\ req[q].at <= g.exp
                           /\ g.cid = req[q].cid \/ Opened(g.tok, req[q].env)
    BY <2>1 DEF CarriedToken
  <2>3. \/ g.cid = req'[q].cid
        \/ \E o \in opened' : o.tok = g.tok /\ o.env = req'[q].env
    BY <2>2 DEF Opened
  <2>4. QED
    BY <2>2, <2>3
<1>6. QED
  BY <1>2, <1>3, <1>4, <1>5 DEF CarriedToken, Opened

\* Copies of tokens stay right when none is added.
LEMMA CopiesFrame ==
  ASSUME CachedTokens, StoredTokens, grant \subseteq grant', opened \subseteq opened',
         browserAuth' \subseteq browserAuth,
         store' \cup lateSave' \subseteq store \cup lateSave
  PROVE  CachedTokens' /\ StoredTokens'
<1>1. CachedTokens'
  BY DEF CachedTokens, Opened
<1>2. StoredTokens'
  BY DEF StoredTokens, Granted
<1>3. QED
  BY <1>1, <1>2

\* A step that leaves the clock and grants alone, moves one goroutine p and
\* adds to the map and the table only tokens of known provenance.
LEMMA ProvenanceFrame ==
  ASSUME TypeOK, TokenProvenance, NEW p \in Proc,
         now' = now, grant' = grant, opened \subseteq opened',
         \A q \in Proc \ {p} : pc'[q] = pc[q] /\ req'[q] = req[q],
         CachedTokens', StoredTokens', CarriedToken(p)'
  PROVE  TokenProvenance'
<1>1. ASSUME NEW q \in Proc PROVE CarriedToken(q)'
  <2>1. CASE q = p
    BY <2>1
  <2>2. CASE q # p
    <3>1. pc'[q] = pc[q] /\ req'[q] = req[q] /\ now' \in Nat /\ now <= now'
      BY <2>2 DEF TypeOK
    <3>2. QED
      BY <3>1, CarriedFrame DEF TokenProvenance
  <2>3. QED
    BY <2>1, <2>2
<1>2. QED
  BY <1>1 DEF TokenProvenance

\* A row to be saved, or one that Postgres has yet to write, is of known
\* provenance, and so is the table once it is written.
LEMMA UpsertFrame ==
  ASSUME StoredTokens, NEW row, Granted(row.tok, row.cid, row.exp), grant' = grant,
         store' = Upsert(store, row), lateSave' \subseteq lateSave
  PROVE  StoredTokens'
BY DEF Upsert, StoredTokens, Granted

\* The token of a request that enters the map, at one of the two places where
\* one does, is of known provenance.
LEMMA CacheStep ==
  ASSUME TypeOK, CachedTokens, NEW p \in Proc, NEW by \in {"pairing", "row"},
         Granted(req[p].tok, req[p].cid, req[p].exp), grant' = grant,
         opened' = opened \cup Opening(p, by),
         NEW kept \in SUBSET browserAuth,
         browserAuth' = kept \cup
           {[tok |-> req[p].tok, env |-> req[p].env, exp |-> req[p].exp]}
  PROVE  CachedTokens'
<1>1. PICK g \in grant : g.tok = req[p].tok /\ g.cid = req[p].cid /\ g.exp = req[p].exp
  BY DEF Granted
<1>2. [tok |-> req[p].tok, env |-> req[p].env, by |-> by] \in opened'
  BY <1>1 DEF Opening
<1>3. \E o \in opened' : o.tok = req[p].tok /\ o.env = req[p].env
  BY <1>2
<1>4. ASSUME NEW b \in browserAuth'
      PROVE  /\ \E o \in opened' : o.tok = b.tok /\ o.env = b.env
             /\ \E h \in grant' : h.tok = b.tok /\ h.exp = b.exp
  <2>1. CASE b \in browserAuth
    BY <2>1 DEF CachedTokens, Opened
  <2>2. CASE b \notin browserAuth
    <3>1. b.tok = req[p].tok /\ b.env = req[p].env /\ b.exp = req[p].exp
      BY <2>2
    <3>2. QED
      BY <1>1, <1>3, <3>1
  <2>3. QED
    BY <2>1, <2>2
<1>5. QED
  BY <1>4 DEF CachedTokens, Opened

LEMMA ProvenanceStep ==
  TypeOK /\ TokenProvenance /\ [Next]_vars => TokenProvenance'
<1> SUFFICES ASSUME TypeOK, TokenProvenance, [Next]_vars PROVE TokenProvenance'
  OBVIOUS
<1> USE PairingAssumption DEF postgres, history
<1>0. now \in Nat /\ CachedTokens /\ StoredTokens /\ \A p \in Proc : CarriedToken(p)
  BY DEF TypeOK, TokenProvenance
<1>a. ASSUME NEW p \in Proc, pc[p] \in {"save", "saved"}
      PROVE  Granted(req[p].tok, req[p].cid, req[p].exp)
  BY <1>0, <1>a DEF CarriedToken, Granted
<1>1. CASE Tick
  <2>1. \A q \in Proc : CarriedToken(q)'
    BY <1>0, <1>1, CarriedFrame DEF Tick
  <2>2. CachedTokens' /\ StoredTokens'
    BY <1>0, <1>1, CopiesFrame DEF Tick
  <2>3. QED
    BY <2>1, <2>2 DEF TokenProvenance
<1>2. CASE Restart
  <2>1. PICK procs \in SUBSET Proc :
          lateSave' = lateSave \cup {SavedRow(p) : p \in {q \in procs : pc[q] = "save"}}
    BY <1>2 DEF Restart
  <2>2. ASSUME NEW r \in store' \cup lateSave'
        PROVE  Granted(r.tok, r.cid, r.exp)
    <3>1. CASE r \in store \cup lateSave
      BY <1>0, <3>1 DEF StoredTokens
    <3>2. CASE r \notin store \cup lateSave
      <4>1. PICK p \in Proc : pc[p] = "save" /\ r = SavedRow(p)
        BY <1>2, <2>1, <3>2 DEF Restart
      <4>2. QED
        BY <1>a, <4>1 DEF SavedRow
    <3>3. QED
      BY <3>1, <3>2
  <2>3. StoredTokens'
    BY <1>2, <2>2 DEF Restart, StoredTokens, Granted
  <2>4. \A q \in Proc : CarriedToken(q)'
    BY <1>2 DEF Restart, CarriedToken
  <2>5. QED
    BY <1>2, <2>3, <2>4 DEF Restart, TokenProvenance, CachedTokens
<1>3. ASSUME NEW e \in Env, NEW k \in Code, GeneratePairingCode(e, k)
      PROVE  TokenProvenance'
  <2>1. \A q \in Proc : CarriedToken(q)'
    BY <1>0, <1>3, CarriedFrame DEF GeneratePairingCode, TypeOK
  <2>2. CachedTokens' /\ StoredTokens'
    BY <1>0, <1>3, CopiesFrame DEF GeneratePairingCode
  <2>3. QED
    BY <2>1, <2>2 DEF TokenProvenance
<1>4. ASSUME NEW p \in Proc, NEW route \in Routes, NEW t \in Token, NEW k \in Code,
             BootstrapClaim(p, route[1], route[2], k, t)
      PROVE  TokenProvenance'
  <2>1. grant \subseteq grant' /\ now' = now /\ opened' = opened
    BY <1>4 DEF BootstrapClaim
  <2>2. CachedTokens' /\ StoredTokens'
    BY <1>0, <1>4, <2>1, CopiesFrame DEF BootstrapClaim
  <2>3. CarriedToken(p)'
    <3>1. /\ pc'[p] \in {"save", "saved"}
          /\ req'[p] = [env |-> route[1], cid |-> route[2], tok |-> t,
                        exp |-> now + TokenTTL, at |-> now]
      BY <1>4 DEF BootstrapClaim, Goto, TypeOK
    <3>2. \E g \in grant' : /\ g.tok = t
                            /\ g.env = route[1]
                            /\ g.cid = route[2]
                            /\ g.exp = now + TokenTTL
      <4> DEFINE g0 == [tok |-> t, env |-> route[1], cid |-> route[2],
                        exp |-> now + TokenTTL, code |-> k]
      <4>1. g0 \in grant' /\ g0.tok = t /\ g0.env = route[1] /\ g0.cid = route[2]
            /\ g0.exp = now + TokenTTL
        BY <1>4 DEF BootstrapClaim
      <4>2. QED
        BY <4>1
    <3>3. QED
      BY <3>1, <3>2 DEF CarriedToken
  <2>4. ASSUME NEW q \in Proc \ {p} PROVE CarriedToken(q)'
    <3>1. pc'[q] = pc[q] /\ req'[q] = req[q]
      BY <1>4 DEF BootstrapClaim, Goto, TypeOK
    <3>2. QED
      BY <1>0, <2>1, <3>1, CarriedFrame
  <2>5. QED
    BY <2>2, <2>3, <2>4 DEF TokenProvenance
<1>5. ASSUME NEW p \in Proc, NEW route \in Routes, NEW t \in Token,
             AuthorizeCached(p, route[1], route[2], t)
      PROVE  TokenProvenance'
  <2>1. PICK b \in browserAuth : b.tok = t /\ b.env = route[1] /\ now < b.exp
    BY <1>5 DEF AuthorizeCached, Cached
  <2>2. PICK g \in grant : g.tok = t /\ g.exp = b.exp
    BY <1>0, <2>1 DEF CachedTokens
  <2>3. now <= g.exp /\ \E o \in opened : o.tok = t /\ o.env = route[1]
    BY <1>0, <2>1, <2>2 DEF TypeOK, browserToken, CachedTokens, Opened
  <2>4. /\ pc'[p] = "accepted"
        /\ req'[p] = [env |-> route[1], cid |-> route[2], tok |-> t,
                      exp |-> 0, at |-> now]
    BY <1>5 DEF AuthorizeCached, Goto, TypeOK
  <2>5. CarriedToken(p)'
    <3>1. g \in grant' /\ opened' = opened
      BY <1>5 DEF AuthorizeCached
    <3>2. req'[p].tok = t /\ req'[p].env = route[1] /\ req'[p].at = now
      BY <2>4
    <3>3. \E h \in grant' : /\ h.tok = req'[p].tok
                            /\ req'[p].at <= h.exp
                            /\ \E o \in opened' : o.tok = h.tok /\ o.env = req'[p].env
      BY <2>2, <2>3, <3>1, <3>2
    <3>4. QED
      BY <2>4, <3>3 DEF CarriedToken, Opened
  <2>6. CachedTokens' /\ StoredTokens'
    BY <1>0, <1>5, CopiesFrame DEF AuthorizeCached
  <2>7. QED
    BY <1>5, <2>5, <2>6, ProvenanceFrame DEF AuthorizeCached, Goto, TypeOK
<1>6. ASSUME NEW p \in Proc, NEW route \in Routes, NEW t \in Token,
             AuthorizeMiss(p, route[1], route[2], t)
      PROVE  TokenProvenance'
  <2>1. /\ pc'[p] = "get"
        /\ req'[p] = [env |-> route[1], cid |-> route[2], tok |-> t,
                      exp |-> 0, at |-> now]
    BY <1>6 DEF AuthorizeMiss, Goto, TypeOK
  <2>2. CarriedToken(p)'
    BY <1>0, <1>6, <2>1 DEF AuthorizeMiss, CarriedToken
  <2>3. CachedTokens' /\ StoredTokens'
    BY <1>0, <1>6, CopiesFrame DEF AuthorizeMiss
  <2>4. QED
    BY <1>6, <2>2, <2>3, ProvenanceFrame DEF AuthorizeMiss, Goto, TypeOK
<1>7. ASSUME NEW p \in Proc, BootstrapFinish(p)
      PROVE  TokenProvenance'
  <2>1. Granted(req[p].tok, req[p].cid, req[p].exp)
    BY <1>a, <1>7 DEF BootstrapFinish
  <2>2. CachedTokens'
    <3>1. /\ deleteBrowserTokensLocked(req[p].env) \in SUBSET browserAuth
          /\ browserAuth' = deleteBrowserTokensLocked(req[p].env) \cup
               {[tok |-> req[p].tok, env |-> req[p].env, exp |-> req[p].exp]}
          /\ grant' = grant /\ opened' = opened \cup Opening(p, "pairing")
      BY <1>7 DEF BootstrapFinish, deleteBrowserTokensLocked
    <3>2. QED
      BY <1>0, <2>1, <3>1, CacheStep
  <2>3. StoredTokens'
    BY <1>0, <1>7 DEF BootstrapFinish, StoredTokens, Granted
  <2>4. CarriedToken(p)'
    BY <1>7 DEF BootstrapFinish, Return, Goto, TypeOK, CarriedToken
  <2>5. QED
    BY <1>7, <2>2, <2>3, <2>4, ProvenanceFrame DEF BootstrapFinish, Return, Goto, TypeOK
<1>8. ASSUME NEW p \in Proc, BootstrapSaveFails(p)
      PROVE  TokenProvenance'
  <2>1. Granted(SavedRow(p).tok, SavedRow(p).cid, SavedRow(p).exp)
    BY <1>a, <1>8 DEF BootstrapSaveFails, SavedRow
  <2>2. StoredTokens'
    BY <1>0, <1>8, <2>1 DEF BootstrapSaveFails, StoredTokens, Granted
  <2>3. CachedTokens'
    BY <1>0, <1>8 DEF BootstrapSaveFails, CachedTokens, Opened
  <2>4. CarriedToken(p)'
    BY <1>8 DEF BootstrapSaveFails, Return, Goto, TypeOK, CarriedToken
  <2>5. QED
    BY <1>8, <2>2, <2>3, <2>4, ProvenanceFrame DEF BootstrapSaveFails, Return, Goto, TypeOK
<1>9. ASSUME NEW p \in Proc, StoreGetHit(p)
      PROVE  TokenProvenance'
  <2>1. PICK r \in store : /\ r.cid = req[p].cid
                           /\ r.tok = req[p].tok
                           /\ now <= r.exp
                           /\ req' = [req EXCEPT ![p] = [@ EXCEPT !.exp = r.exp]]
    BY <1>9 DEF StoreGetHit
  <2>2. req[p] \in Request /\ r.exp \in Nat
    BY <1>9 DEF StoreGetHit, TypeOK, Row
  <2>3. /\ pc'[p] = "fill"
        /\ req'[p].env = req[p].env
        /\ req'[p].cid = req[p].cid
        /\ req'[p].tok = req[p].tok
        /\ req'[p].at = req[p].at
        /\ req'[p].exp = r.exp
    BY <1>9, <2>1, <2>2 DEF StoreGetHit, Goto, TypeOK, Request
  <2>4. Granted(r.tok, r.cid, r.exp)
    BY <1>0 DEF StoredTokens
  <2>5. req[p].at <= now
    BY <1>0, <1>9 DEF StoreGetHit, CarriedToken
  <2>6. req[p].at <= r.exp
    BY <1>0, <2>1, <2>2, <2>5 DEF Request
  <2>7. CarriedToken(p)'
    BY <1>9, <2>1, <2>3, <2>4, <2>5, <2>6 DEF StoreGetHit, CarriedToken, Granted
  <2>8. CachedTokens' /\ StoredTokens'
    BY <1>0, <1>9, CopiesFrame DEF StoreGetHit
  <2>9. QED
    BY <1>9, <2>1, <2>7, <2>8, ProvenanceFrame DEF StoreGetHit, Goto, TypeOK
<1>10. ASSUME NEW p \in Proc,
              \/ StoreGetExpired(p) \/ StoreGetMiss(p) \/ StoreDelete(p)
              \/ StoreDeleteFails(p) \/ Done(p)
       PROVE  TokenProvenance'
  <2>1. CachedTokens' /\ StoredTokens'
    BY <1>0, <1>10, CopiesFrame
       DEF StoreGetExpired, StoreGetMiss, StoreDelete, StoreDeleteFails, Done
  <2>2. CarriedToken(p)'
    BY <1>10 DEF StoreGetExpired, StoreGetMiss, StoreDelete, StoreDeleteFails, Done,
                 Return, Goto, TypeOK, CarriedToken
  <2>3. QED
    BY <1>10, <2>1, <2>2, ProvenanceFrame
       DEF StoreGetExpired, StoreGetMiss, StoreDelete, StoreDeleteFails, Done, Return,
           Goto, TypeOK
<1>11. ASSUME NEW p \in Proc, CacheFill(p)
       PROVE  TokenProvenance'
  <2>1. Granted(req[p].tok, req[p].cid, req[p].exp) /\ req[p].at <= req[p].exp
    BY <1>0, <1>11 DEF CacheFill, CarriedToken
  <2>2. CachedTokens'
    <3>1. PICK kept \in SUBSET browserAuth :
            browserAuth' = kept \cup
              {[tok |-> req[p].tok, env |-> req[p].env, exp |-> req[p].exp]}
      BY <1>11 DEF CacheFill
    <3>2. grant' = grant /\ opened' = opened \cup Opening(p, "row")
      BY <1>11 DEF CacheFill
    <3>3. QED
      BY <1>0, <2>1, <3>1, <3>2, CacheStep
  <2>3. StoredTokens'
    BY <1>0, <1>11 DEF CacheFill, StoredTokens, Granted
  <2>4. CarriedToken(p)'
    BY <1>11, <2>1 DEF CacheFill, Goto, TypeOK, CarriedToken, Granted
  <2>5. QED
    BY <1>11, <2>2, <2>3, <2>4, ProvenanceFrame DEF CacheFill, Goto, TypeOK
<1>12. ASSUME NEW p \in Proc, StoreSave(p)
       PROVE  TokenProvenance'
  <2>1. Granted(SavedRow(p).tok, SavedRow(p).cid, SavedRow(p).exp)
    BY <1>a, <1>12 DEF StoreSave, SavedRow
  <2>2. StoredTokens'
    BY <1>0, <1>12, <2>1, UpsertFrame DEF StoreSave
  <2>3. CachedTokens'
    BY <1>0, <1>12 DEF StoreSave, CachedTokens, Opened
  <2>4. CarriedToken(p)'
    BY <1>0, <1>12 DEF StoreSave, Goto, TypeOK, CarriedToken
  <2>5. QED
    BY <1>12, <2>2, <2>3, <2>4, ProvenanceFrame DEF StoreSave, Goto, TypeOK
<1>13. ASSUME NEW row \in lateSave, LateSave(row)
       PROVE  TokenProvenance'
  <2>1. Granted(row.tok, row.cid, row.exp)
    BY <1>0 DEF StoredTokens
  <2>2. StoredTokens'
    BY <1>0, <1>13, <2>1, UpsertFrame DEF LateSave
  <2>3. CachedTokens'
    BY <1>0, <1>13 DEF LateSave, CachedTokens, Opened
  <2>4. \A q \in Proc : CarriedToken(q)'
    BY <1>0, <1>13, CarriedFrame DEF LateSave, TypeOK
  <2>5. QED
    BY <2>2, <2>3, <2>4 DEF TokenProvenance
<1>14. ASSUME NEW c \in lateDelete, LateDelete(c)
       PROVE  TokenProvenance'
  <2>1. \A q \in Proc : CarriedToken(q)'
    BY <1>0, <1>14, CarriedFrame DEF LateDelete, TypeOK
  <2>2. CachedTokens' /\ StoredTokens'
    BY <1>0, <1>14, CopiesFrame DEF LateDelete
  <2>3. QED
    BY <2>1, <2>2 DEF TokenProvenance
<1>15. CASE UNCHANGED vars
  BY <1>0, <1>15 DEF vars, TokenProvenance, CachedTokens, StoredTokens, CarriedToken,
                     Granted, Opened
<1>16. QED
  BY <1>1, <1>2, <1>3, <1>4, <1>5, <1>6, <1>7, <1>8, <1>9, <1>10, <1>11, <1>12, <1>13,
     <1>14, <1>15
     DEF Next, Arrive, Step

\* No trip of a token through the store, and no restart, changes the end or
\* the container it was granted with.
THEOREM ProvenanceKept == Spec => []TokenProvenance
<1>1. Init => TokenProvenance
  BY DEF Init, TokenProvenance, CachedTokens, StoredTokens, CarriedToken
<1>2. QED
  BY <1>1, ProvenanceStep, TypeCorrect, PTL DEF Spec

\* A request let through by authorizedWithStore arrived before the end of
\* its token.
THEOREM ExpiryEnforced == Spec => []ExpiredNeverAccepted
<1>1. TokenProvenance => ExpiredNeverAccepted
  BY DEF TokenProvenance, CarriedToken, ExpiredNeverAccepted
<1>2. QED
  BY <1>1, ProvenanceKept, PTL

\* A request let through by authorizedWithStore goes to the container its
\* token was granted for, or to an environment that this container has served
\* with the token since the start.
THEOREM RouteEnforced == Spec => []AcceptedTokenFitsRoute
<1>1. TokenProvenance => AcceptedTokenFitsRoute
  BY DEF TokenProvenance, CarriedToken, AcceptedTokenFitsRoute
<1>2. QED
  BY <1>1, ProvenanceKept, PTL

-----------------------------------------------------------------------------
(***************************************************************************)
(* Pairing codes.                                                          *)
(***************************************************************************)
\* handleBootstrap spends a code at most once.
THEOREM CodesSpentOnce == Spec => []CodeSingleUse
<1> DEFINE Inv == CodesUnspent /\ CodeSingleUse
<1>1. Init => Inv
  BY DEF Init, CodesUnspent, CodeSingleUse
<1>2. Inv /\ [Next]_vars => Inv'
  <2> SUFFICES ASSUME CodesUnspent, CodeSingleUse, [Next]_vars PROVE Inv'
    OBVIOUS
  <2>1. ASSUME NEW e \in Env, NEW k \in Code, GeneratePairingCode(e, k)
        PROVE  Inv'
    BY <2>1 DEF GeneratePairingCode, history, CodesUnspent, CodeSingleUse
  <2>2. ASSUME NEW p \in Proc, NEW route \in Routes, NEW t \in Token, NEW k \in Code,
               BootstrapClaim(p, route[1], route[2], k, t)
        PROVE  Inv'
    BY <2>2 DEF BootstrapClaim, deleteCode, CodesUnspent, CodeSingleUse
  <2>3. CASE pairing' \subseteq pairing /\ grant' = grant
    BY <2>3 DEF CodesUnspent, CodeSingleUse
  <2>4. QED
    BY <2>1, <2>2, <2>3
       DEF Next, Arrive, Step, vars, history, Tick, Restart, LateSave, LateDelete,
           AuthorizeCached, AuthorizeMiss, StoreSave, BootstrapFinish,
           BootstrapSaveFails, StoreGetHit, StoreGetExpired, StoreGetMiss, StoreDelete,
           StoreDeleteFails, CacheFill, Done
<1>3. QED
  BY <1>1, <1>2, PTL DEF Spec

-----------------------------------------------------------------------------
(***************************************************************************)
(* What the map and the table hold.                                        *)
(***************************************************************************)
\* A pairing clears its environment's tokens before it adds its own, so two
\* tokens of one environment mean that CacheFill put one of them back.
THEOREM ReplacedUnlessRefilled == Spec => []OneTokenPerEnv
<1>1. Init => OneTokenPerEnv
  BY DEF Init, OneTokenPerEnv
<1>2. TokenProvenance /\ OneTokenPerEnv /\ [Next]_vars => OneTokenPerEnv'
  <2> SUFFICES ASSUME TokenProvenance, OneTokenPerEnv, [Next]_vars PROVE OneTokenPerEnv'
    OBVIOUS
  <2>1. ASSUME NEW p \in Proc, BootstrapFinish(p)
        PROVE  OneTokenPerEnv'
    BY <2>1 DEF BootstrapFinish, deleteBrowserTokensLocked, OneTokenPerEnv
  <2>2. ASSUME NEW p \in Proc, CacheFill(p)
        PROVE  OneTokenPerEnv'
    <3>1. \E g \in grant : g.tok = req[p].tok /\ g.cid = req[p].cid
      BY <2>2 DEF CacheFill, TokenProvenance, CarriedToken, Granted
    <3>2. opened \subseteq opened' /\
          [tok |-> req[p].tok, env |-> req[p].env, by |-> "row"] \in opened'
      BY <2>2, <3>1 DEF CacheFill, Opening
    <3>3. \A b \in browserAuth' :
            b \in browserAuth \/ (b.tok = req[p].tok /\ b.env = req[p].env)
      BY <2>2 DEF CacheFill
    <3>4. ASSUME NEW b \in browserAuth', NEW d \in browserAuth', b.env = d.env, b # d
          PROVE  \E t \in {b.tok, d.tok} :
                   [tok |-> t, env |-> b.env, by |-> "row"] \in opened'
      BY <3>2, <3>3, <3>4 DEF OneTokenPerEnv
    <3>5. QED
      BY <3>4 DEF OneTokenPerEnv
  <2>3. CASE Restart
    BY <2>3 DEF Restart, OneTokenPerEnv
  <2>4. CASE browserAuth' = browserAuth /\ opened' = opened
    BY <2>4 DEF OneTokenPerEnv
  <2>5. QED
    BY <2>1, <2>2, <2>3, <2>4
       DEF Next, Arrive, Step, vars, history, Tick, LateSave, LateDelete,
           GeneratePairingCode, BootstrapClaim, AuthorizeCached, AuthorizeMiss,
           StoreSave, BootstrapSaveFails, StoreGetHit, StoreGetExpired, StoreGetMiss,
           StoreDelete, StoreDeleteFails, Done
<1>3. QED
  BY <1>1, <1>2, ProvenanceKept, PTL DEF Spec

\* Without a store no request gets to CacheFill, hence pairing again always
\* replaces the token of an environment.
THEOREM MemoryReplaces ==
  ASSUME ~ HasStore
  PROVE  Spec => [](\A b, d \in browserAuth : b.env = d.env => b = d)
<1> DEFINE Inv == MemoryOnly /\ \A o \in opened : o.by = "pairing"
<1>1. Init => Inv
  BY DEF Init, MemoryOnly
<1>2. TypeOK /\ Inv /\ [Next]_vars => Inv'
  <2> SUFFICES ASSUME TypeOK, MemoryOnly, \A o \in opened : o.by = "pairing",
                      [Next]_vars
               PROVE  Inv'
    OBVIOUS
  <2> USE DEF postgres, history
  <2>1. ASSUME NEW p \in Proc,
               \/ StoreSave(p) \/ StoreGetHit(p) \/ StoreGetExpired(p)
               \/ StoreGetMiss(p) \/ StoreDelete(p) \/ StoreDeleteFails(p)
               \/ CacheFill(p)
        PROVE  FALSE
    BY <2>1 DEF StoreSave, StoreGetHit, StoreGetExpired, StoreGetMiss, StoreDelete,
                StoreDeleteFails, CacheFill, MemoryOnly
  <2>2. CASE Tick \/ Restart \/ UNCHANGED vars
    BY <2>2 DEF Tick, Restart, vars, MemoryOnly
  <2>3. ASSUME NEW e \in Env, NEW k \in Code, GeneratePairingCode(e, k)
        PROVE  Inv'
    BY <2>3 DEF GeneratePairingCode, MemoryOnly
  <2>4. ASSUME NEW p \in Proc, NEW route \in Routes, NEW t \in Token,
               \/ \E k \in Code : BootstrapClaim(p, route[1], route[2], k, t)
               \/ AuthorizeCached(p, route[1], route[2], t)
               \/ AuthorizeMiss(p, route[1], route[2], t)
        PROVE  Inv'
    BY <2>4 DEF BootstrapClaim, AuthorizeCached, AuthorizeMiss, Goto, TypeOK, MemoryOnly
  <2>5. ASSUME NEW p \in Proc, BootstrapSaveFails(p) \/ Done(p)
        PROVE  Inv'
    BY <2>5 DEF BootstrapSaveFails, Done, Return, Goto, TypeOK, MemoryOnly
  <2>6. ASSUME NEW p \in Proc, BootstrapFinish(p)
        PROVE  Inv'
    <3>1. \A o \in opened' : o.by = "pairing"
      BY <2>6 DEF BootstrapFinish, Opening
    <3>2. MemoryOnly'
      BY <2>6 DEF BootstrapFinish, Return, Goto, TypeOK, MemoryOnly
    <3>3. QED
      BY <3>1, <3>2
  <2>7. ASSUME NEW row \in lateSave, LateSave(row)
        PROVE  Inv'
    BY <2>7 DEF LateSave, MemoryOnly
  <2>8. ASSUME NEW c \in lateDelete, LateDelete(c)
        PROVE  Inv'
    BY <2>8 DEF LateDelete, MemoryOnly
  <2>9. QED
    BY <2>1, <2>2, <2>3, <2>4, <2>5, <2>6, <2>7, <2>8 DEF Next, Arrive, Step
<1>3. Inv /\ OneTokenPerEnv => \A b, d \in browserAuth : b.env = d.env => b = d
  BY DEF OneTokenPerEnv
<1>4. QED
  BY <1>1, <1>2, <1>3, TypeCorrect, ReplacedUnlessRefilled, PTL DEF Spec

-----------------------------------------------------------------------------
(***************************************************************************)
(* What the table keeps.                                                   *)
(***************************************************************************)
\* The first two parts of DurableInv, and the third for one row.
OneRowEach == \A r, s \in store : r.cid = s.cid => r = s

PairsAlone ==
  \A p \in Proc :
    pc[p] \in {"save", "saved"} => mu = {p} /\ \A r \in current : r.cid # req[p].cid

Kept(r) ==
  r.cid \notin raced =>
    /\ now <= r.exp => r \in store
    /\ OnItsWay(r.cid) => now > r.exp /\ \A row \in lateSave : row.cid # r.cid

LEMMA DurableParts ==
  DurableInv <=> OneRowEach /\ PairsAlone /\ \A r \in Promised : Kept(r)
BY DEF DurableInv, OneRowEach, PairsAlone, Kept

\* A promised row stays kept when nothing new is on its way and neither the
\* clock nor the table nor what is raced changes.
LEMMA KeptFrame ==
  ASSUME NEW r, Kept(r), now' = now, store' = store, raced' = raced,
         lateSave' \subseteq lateSave,
         OnItsWay(r.cid)' => OnItsWay(r.cid)
  PROVE  Kept(r)'
BY DEF Kept

\* Only an abandoned or unfinished statement about a container is on its way.
LEMMA OnItsWayFrame ==
  ASSUME NEW c, lateSave' \subseteq lateSave, lateDelete' \subseteq lateDelete,
         \A q \in Proc : pc'[q] = "delete" => pc[q] = "delete" /\ req'[q] = req[q],
         OnItsWay(c)'
  PROVE  OnItsWay(c)
BY DEF OnItsWay

\* What is promised is a row.
LEMMA PromisedType ==
  ASSUME TypeOK, NEW r \in Promised
  PROVE  r \in Row /\ r.exp \in Nat /\ r.cid \in Container
<1>1. r \in Row
  BY SavedType DEF Promised, TypeOK
<1>2. QED
  BY <1>1 DEF Row

\* Nothing is promised anew by a step that hands out no token.
LEMMA PromisedFrame ==
  ASSUME current' \subseteq current,
         \A q \in Proc : pc'[q] = "saved" => pc[q] = "saved" /\ req'[q] = req[q]
  PROVE  Promised' \subseteq Promised
BY DEF Promised, SavedRow

\* A step that only moves a request on, or ends it.
LEMMA DurableFrame ==
  ASSUME DurableInv, current' \subseteq current, now' = now, store' = store,
         raced' = raced, lateSave' = lateSave, lateDelete' = lateDelete,
         \A q \in Proc : /\ pc'[q] \in {"save", "saved", "delete"} =>
                              pc'[q] = pc[q] /\ req'[q] = req[q]
                         /\ pc'[q] \in {"save", "saved"} => mu' = mu
  PROVE  DurableInv'
<1>1. OneRowEach /\ PairsAlone /\ \A r \in Promised : Kept(r)
  BY DurableParts
<1>2. OneRowEach' /\ PairsAlone'
  BY <1>1 DEF OneRowEach, PairsAlone
<1>3. Promised' \subseteq Promised
  BY PromisedFrame
<1>4. ASSUME NEW r \in Promised' PROVE Kept(r)'
  <2>1. Kept(r)
    BY <1>1, <1>3
  <2>2. OnItsWay(r.cid)' => OnItsWay(r.cid)
    BY OnItsWayFrame
  <2>3. QED
    BY <2>1, <2>2, KeptFrame
<1>5. QED
  BY <1>2, <1>4 DEF DurableInv, OneRowEach, PairsAlone, Kept

\* With a store, a client's token stays in the table until its end or the
\* next pairing, whatever calls to Postgres fail, whenever a statement that
\* was given up is carried out, and however often the manager restarts,
\* unless a Delete or an abandoned Save of the container was on its way when
\* the row was written.  The run PairingRace shows that case.
THEOREM DurableButForRaces ==
  ASSUME HasStore
  PROVE  Spec => []DurableUnlessRaced
<1>1. Init => DurableInv
  BY DEF Init, DurableInv, Promised
<1>2. TypeOK /\ DurableInv /\ [Next]_vars => DurableInv'
  <2> SUFFICES ASSUME TypeOK, DurableInv, [Next]_vars
               PROVE  DurableInv'
    OBVIOUS
  <2> USE DEF postgres, history
  <2>a. OneRowEach /\ PairsAlone /\ \A r \in Promised : Kept(r)
    BY DurableParts
  <2>b. SUFFICES OneRowEach' /\ PairsAlone' /\ \A r \in Promised' : Kept(r)'
    BY DEF DurableInv, OneRowEach, PairsAlone, Kept
  <2>c. DurableInv' => OneRowEach' /\ PairsAlone' /\ \A r \in Promised' : Kept(r)'
    BY DEF DurableInv, OneRowEach, PairsAlone, Kept
  <2>d. now \in Nat
    BY DEF TypeOK
  <2>1. CASE Tick
    <3>1. OneRowEach' /\ PairsAlone'
      BY <2>1, <2>a DEF Tick, OneRowEach, PairsAlone
    <3>2. ASSUME NEW r \in Promised' PROVE Kept(r)'
      <4>1. r \in Promised /\ Kept(r) /\ r.exp \in Nat
        BY <2>1, <2>a, PromisedType, PromisedFrame DEF Tick
      <4>2. OnItsWay(r.cid)' => OnItsWay(r.cid)
        BY <2>1, OnItsWayFrame DEF Tick
      <4>3. (now' <= r.exp => now <= r.exp) /\ (now > r.exp => now' > r.exp)
        BY <2>1, <2>d, <4>1 DEF Tick
      <4>4. QED
        BY <2>1, <4>1, <4>2, <4>3 DEF Tick, Kept
    <3>3. QED
      BY <3>1, <3>2
  <2>2. CASE Restart
    <3>1. OneRowEach' /\ PairsAlone'
      BY <2>2, <2>a DEF Restart, OneRowEach, PairsAlone
    <3>2. ASSUME NEW r \in Promised' PROVE Kept(r)'
      <4>1. r \in current /\ Kept(r)
        BY <2>2, <2>a, <3>2 DEF Restart, Promised
      <4>2. \A row \in lateSave' : row.cid = r.cid => row \in lateSave
        BY <2>2, <2>a, <4>1 DEF Restart, SavedRow, PairsAlone
      <4>3. OnItsWay(r.cid)' => OnItsWay(r.cid)
        BY <2>2, <4>2 DEF Restart, OnItsWay
      <4>4. now' = now /\ store' = store /\ raced' = raced
        BY <2>2 DEF Restart
      <4>5. QED
        BY <4>1, <4>2, <4>3, <4>4 DEF Kept
    <3>3. QED
      BY <3>1, <3>2
  <2>3. ASSUME NEW e \in Env, NEW k \in Code, GeneratePairingCode(e, k)
        PROVE  DurableInv'
    BY <2>3, DurableFrame DEF GeneratePairingCode
  <2>4. ASSUME NEW p \in Proc, NEW route \in Routes, NEW t \in Token, NEW k \in Code,
               BootstrapClaim(p, route[1], route[2], k, t)
        PROVE  OneRowEach' /\ PairsAlone' /\ \A r \in Promised' : Kept(r)'
    <3>1. /\ pc'[p] = "save" /\ req'[p].cid = route[2]
          /\ \A q \in Proc \ {p} : pc'[q] = pc[q] /\ req'[q] = req[q]
          /\ mu' = {p} /\ \A r \in current' : r \in current /\ r.cid # route[2]
      BY <2>4 DEF BootstrapClaim, Goto, TypeOK
    <3>2. \A q \in Proc \ {p} : pc'[q] \notin {"save", "saved"}
      BY <2>4, <2>a, <3>1 DEF BootstrapClaim, PairsAlone
    <3>3. OneRowEach' /\ PairsAlone'
      BY <2>4, <2>a, <3>1, <3>2 DEF BootstrapClaim, OneRowEach, PairsAlone
    <3>4. ASSUME NEW r \in Promised' PROVE Kept(r)'
      <4>1. Kept(r)
        BY <2>a, <3>1, <3>2, PromisedFrame
      <4>2. OnItsWay(r.cid)' => OnItsWay(r.cid)
        <5>1. \A q \in Proc : pc'[q] = "delete" => pc[q] = "delete" /\ req'[q] = req[q]
          BY <3>1
        <5>2. QED
          BY <2>4, <5>1, OnItsWayFrame DEF BootstrapClaim
      <4>3. QED
        BY <2>4, <4>1, <4>2, KeptFrame DEF BootstrapClaim
    <3>5. QED
      BY <3>3, <3>4
  <2>5. ASSUME NEW p \in Proc, NEW route \in Routes, NEW t \in Token,
               \/ AuthorizeCached(p, route[1], route[2], t)
               \/ AuthorizeMiss(p, route[1], route[2], t)
        PROVE  DurableInv'
    BY <2>5, DurableFrame DEF AuthorizeCached, AuthorizeMiss, Goto, TypeOK
  <2>6. ASSUME NEW p \in Proc, StoreSave(p)
        PROVE  OneRowEach' /\ PairsAlone' /\ \A r \in Promised' : Kept(r)'
    <3>1. /\ pc[p] = "save" /\ pc'[p] = "saved" /\ req' = req
          /\ \A q \in Proc \ {p} : pc'[q] = pc[q]
          /\ now' = now /\ mu' = mu /\ current' = current
          /\ lateSave' = lateSave /\ lateDelete' = lateDelete
          /\ store' = Upsert(store, SavedRow(p))
          /\ raced' = IF OnItsWay(req[p].cid) THEN raced \cup {req[p].cid}
                                              ELSE raced \ {req[p].cid}
      BY <2>6 DEF StoreSave, Goto, TypeOK
    <3>2. \A q \in Proc \ {p} : pc[q] \notin {"save", "saved"}
      BY <2>a, <3>1 DEF PairsAlone
    <3>3. SavedRow(p).cid = req[p].cid
      BY DEF SavedRow
    <3>4. OneRowEach'
      BY <2>a, <3>1 DEF Upsert, OneRowEach
    <3>5. PairsAlone'
      BY <2>a, <3>1, <3>2 DEF PairsAlone
    <3>6. ASSUME NEW c PROVE OnItsWay(c)' => OnItsWay(c)
      BY <3>1, OnItsWayFrame
    <3>7. ASSUME NEW r \in Promised' PROVE Kept(r)'
      <4>1. CASE r \in current
        <5>1. Kept(r) /\ r.cid # req[p].cid
          BY <2>a, <3>1, <4>1 DEF Promised, PairsAlone
        <5>2. r \in store => r \in store'
          BY <3>1, <3>3, <5>1 DEF Upsert
        <5>3. r.cid \notin raced' => r.cid \notin raced
          BY <3>1, <5>1
        <5>4. QED
          BY <3>1, <3>6, <5>1, <5>2, <5>3 DEF Kept
      <4>2. CASE r \notin current
        <5>1. r = SavedRow(p)
          <6>1. PICK q \in Proc : pc'[q] = "saved" /\ r = SavedRow(q)'
            BY <3>1, <4>2 DEF Promised
          <6>2. q = p
            BY <3>1, <3>2, <6>1
          <6>3. QED
            BY <3>1, <6>1, <6>2 DEF SavedRow
        <5>2. r \in store'
          BY <3>1, <5>1 DEF Upsert
        <5>3. r.cid \notin raced' => ~ OnItsWay(r.cid)
          BY <3>1, <3>3, <5>1
        <5>4. QED
          BY <3>6, <5>2, <5>3 DEF Kept
      <4>3. QED
        BY <4>1, <4>2
    <3>8. QED
      BY <3>4, <3>5, <3>7
  <2>7. ASSUME NEW p \in Proc, BootstrapFinish(p)
        PROVE  OneRowEach' /\ PairsAlone' /\ \A r \in Promised' : Kept(r)'
    <3>1. /\ pc[p] = "saved" /\ pc'[p] = "idle"
          /\ \A q \in Proc \ {p} : pc'[q] = pc[q] /\ req'[q] = req[q]
          /\ now' = now /\ store' = store /\ raced' = raced
          /\ lateSave' = lateSave /\ lateDelete' = lateDelete
          /\ current' = Upsert(current, SavedRow(p))
      BY <2>7 DEF BootstrapFinish, Return, Goto, TypeOK
    <3>2. \A q \in Proc : pc'[q] \notin {"save", "saved"}
      BY <2>a, <3>1 DEF PairsAlone
    <3>3. OneRowEach' /\ PairsAlone'
      BY <2>a, <3>1, <3>2 DEF OneRowEach, PairsAlone
    <3>4. ASSUME NEW r \in Promised' PROVE Kept(r)'
      <4>1. r \in current'
        BY <3>2 DEF Promised
      <4>2. r \in Promised
        BY <3>1, <4>1 DEF Upsert, Promised
      <4>3. OnItsWay(r.cid)' => OnItsWay(r.cid)
        <5>1. \A q \in Proc : pc'[q] = "delete" => pc[q] = "delete" /\ req'[q] = req[q]
          BY <3>1
        <5>2. QED
          BY <3>1, <5>1, OnItsWayFrame
      <4>4. QED
        BY <2>a, <3>1, <4>2, <4>3, KeptFrame
    <3>5. QED
      BY <3>3, <3>4
  <2>8. ASSUME NEW p \in Proc, BootstrapSaveFails(p)
        PROVE  OneRowEach' /\ PairsAlone' /\ \A r \in Promised' : Kept(r)'
    <3>1. /\ pc[p] \in {"save", "saved"} /\ pc'[p] = "idle"
          /\ \A q \in Proc \ {p} : pc'[q] = pc[q] /\ req'[q] = req[q]
          /\ now' = now /\ store' = store /\ raced' = raced /\ current' = current
          /\ lateDelete' = lateDelete
          /\ lateSave' \subseteq lateSave \cup {SavedRow(p)}
      BY <2>8 DEF BootstrapSaveFails, Return, Goto, TypeOK
    <3>2. \A q \in Proc : pc'[q] \notin {"save", "saved"}
      BY <2>a, <3>1 DEF PairsAlone
    <3>3. OneRowEach' /\ PairsAlone'
      BY <2>a, <3>1, <3>2 DEF OneRowEach, PairsAlone
    <3>4. ASSUME NEW r \in Promised' PROVE Kept(r)'
      <4>1. r \in current /\ r.cid # req[p].cid /\ Kept(r)
        BY <2>a, <3>1, <3>2 DEF Promised, PairsAlone
      <4>2. \A row \in lateSave' : row.cid = r.cid => row \in lateSave
        BY <3>1, <4>1 DEF SavedRow
      <4>3. OnItsWay(r.cid)' => OnItsWay(r.cid)
        BY <3>1, <4>2 DEF OnItsWay
      <4>4. QED
        BY <3>1, <4>1, <4>2, <4>3 DEF Kept
    <3>5. QED
      BY <3>3, <3>4
  <2>9. ASSUME NEW p \in Proc, StoreGetExpired(p)
        PROVE  OneRowEach' /\ PairsAlone' /\ \A r \in Promised' : Kept(r)'
    <3>1. PICK old \in store : old.cid = req[p].cid /\ now > old.exp
      BY <2>9 DEF StoreGetExpired
    <3>2. /\ pc[p] = "get" /\ pc'[p] = "delete" /\ req' = req
          /\ \A q \in Proc \ {p} : pc'[q] = pc[q]
          /\ now' = now /\ mu' = mu /\ store' = store /\ raced' = raced
          /\ current' = current /\ lateSave' = lateSave /\ lateDelete' = lateDelete
      BY <2>9 DEF StoreGetExpired, Goto, TypeOK
    <3>3. OneRowEach' /\ PairsAlone'
      BY <2>a, <3>2 DEF OneRowEach, PairsAlone
    <3>4. ASSUME NEW r \in Promised' PROVE Kept(r)'
      <4>1. r \in Promised /\ Kept(r) /\ r.exp \in Nat
        BY <2>a, <3>2, PromisedType, PromisedFrame
      <4>2. CASE r.cid = req[p].cid
        <5>1. r.cid \notin raced => now > r.exp
          <6>1. SUFFICES ASSUME r.cid \notin raced, now <= r.exp PROVE FALSE
            BY <2>d, <4>1
          <6>2. r = old
            BY <2>a, <3>1, <4>1, <4>2, <6>1 DEF Kept, OneRowEach
          <6>3. QED
            BY <2>d, <3>1, <4>1, <6>1, <6>2
        <5>2. r.cid \notin raced => \A row \in lateSave : row.cid # r.cid
          BY <4>1 DEF Kept, OnItsWay
        <5>3. QED
          BY <3>2, <4>1, <5>1, <5>2 DEF Kept
      <4>3. CASE r.cid # req[p].cid
        <5>1. OnItsWay(r.cid)' => OnItsWay(r.cid)
          BY <3>2, <4>3 DEF OnItsWay
        <5>2. QED
          BY <3>2, <4>1, <5>1, KeptFrame
      <4>4. QED
        BY <4>2, <4>3
    <3>5. QED
      BY <3>3, <3>4
  <2>10. ASSUME NEW c \in Container, OnItsWay(c),
                now' = now, raced' = raced, current' = current, lateSave' = lateSave,
                store' = {r \in store : r.cid # c},
                \A q \in Proc : /\ pc'[q] \in {"save", "saved", "delete"} =>
                                     pc'[q] = pc[q] /\ req'[q] = req[q]
                                /\ mu' = mu,
                lateDelete' \subseteq lateDelete
         PROVE  OneRowEach' /\ PairsAlone' /\ \A r \in Promised' : Kept(r)'
    <3>1. OneRowEach' /\ PairsAlone'
      BY <2>a, <2>10 DEF OneRowEach, PairsAlone
    <3>2. ASSUME NEW r \in Promised' PROVE Kept(r)'
      <4>1. r \in Promised /\ Kept(r) /\ r.exp \in Nat
        BY <2>a, <2>10, PromisedType, PromisedFrame
      <4>2. OnItsWay(r.cid)' => OnItsWay(r.cid)
        BY <2>10, OnItsWayFrame
      <4>3. r.cid \notin raced /\ r \in store /\ now <= r.exp => r \in store'
        BY <2>d, <2>10, <4>1 DEF Kept
      <4>4. QED
        BY <2>10, <4>1, <4>2, <4>3 DEF Kept
    <3>3. QED
      BY <3>1, <3>2
  <2>11. ASSUME NEW p \in Proc, StoreDelete(p)
         PROVE  OneRowEach' /\ PairsAlone' /\ \A r \in Promised' : Kept(r)'
    <3>1. pc[p] = "delete" /\ req[p].cid \in Container /\ OnItsWay(req[p].cid)
      BY <2>11, SavedType DEF StoreDelete, OnItsWay
    <3>2. \A q \in Proc : pc'[q] \in {"save", "saved", "delete"} =>
                            pc'[q] = pc[q] /\ req'[q] = req[q]
      BY <2>11 DEF StoreDelete, Return, Goto, TypeOK
    <3>3. QED
      BY <2>10, <2>11, <3>1, <3>2 DEF StoreDelete
  <2>12. ASSUME NEW c \in lateDelete, LateDelete(c)
         PROVE  OneRowEach' /\ PairsAlone' /\ \A r \in Promised' : Kept(r)'
    <3>1. c \in Container /\ OnItsWay(c)
      BY DEF TypeOK, OnItsWay
    <3>2. lateDelete' \subseteq lateDelete
      BY <2>12 DEF LateDelete
    <3>3. QED
      BY <2>10, <2>12, <3>1, <3>2 DEF LateDelete
  <2>13. ASSUME NEW p \in Proc, StoreDeleteFails(p)
         PROVE  OneRowEach' /\ PairsAlone' /\ \A r \in Promised' : Kept(r)'
    <3>1. /\ pc[p] = "delete" /\ pc'[p] = "idle"
          /\ \A q \in Proc \ {p} : pc'[q] = pc[q] /\ req'[q] = req[q]
          /\ now' = now /\ mu' = mu /\ store' = store /\ raced' = raced
          /\ current' = current /\ lateSave' = lateSave
          /\ lateDelete' \subseteq lateDelete \cup {req[p].cid}
      BY <2>13 DEF StoreDeleteFails, Return, Goto, TypeOK
    <3>2. OneRowEach' /\ PairsAlone'
      BY <2>a, <3>1 DEF OneRowEach, PairsAlone
    <3>3. ASSUME NEW r \in Promised' PROVE Kept(r)'
      <4>1. Kept(r)
        BY <2>a, <3>1, PromisedFrame
      <4>2. OnItsWay(r.cid)' => OnItsWay(r.cid)
        BY <3>1 DEF OnItsWay
      <4>3. QED
        BY <3>1, <4>1, <4>2, KeptFrame
    <3>4. QED
      BY <3>2, <3>3
  <2>14. ASSUME NEW row \in lateSave, LateSave(row)
         PROVE  OneRowEach' /\ PairsAlone' /\ \A r \in Promised' : Kept(r)'
    <3>1. OneRowEach'
      BY <2>14, <2>a DEF LateSave, Upsert, OneRowEach
    <3>2. PairsAlone'
      BY <2>14, <2>a DEF LateSave, PairsAlone
    <3>3. ASSUME NEW r \in Promised' PROVE Kept(r)'
      <4>1. Kept(r)
        BY <2>14, <2>a, PromisedFrame DEF LateSave
      <4>2. OnItsWay(r.cid)' => OnItsWay(r.cid)
        BY <2>14, OnItsWayFrame DEF LateSave
      <4>3. r.cid \notin raced => r.cid # row.cid
        BY <4>1 DEF Kept, OnItsWay
      <4>4. r.cid \notin raced /\ r \in store => r \in store'
        BY <2>14, <4>3 DEF LateSave, Upsert
      <4>5. QED
        BY <2>14, <4>1, <4>2, <4>4 DEF LateSave, Kept
    <3>4. QED
      BY <3>1, <3>2, <3>3
  <2>15. ASSUME NEW p \in Proc,
                StoreGetHit(p) \/ StoreGetMiss(p) \/ CacheFill(p) \/ Done(p)
         PROVE  DurableInv'
    BY <2>15, DurableFrame
       DEF StoreGetHit, StoreGetMiss, CacheFill, Done, Return, Goto, TypeOK
  <2>16. CASE UNCHANGED vars
    <3>1. DurableInv'
      BY <2>16, DurableFrame DEF vars
    <3>2. QED
      BY <2>c, <3>1
  <2>17. QED
    BY <2>c, <2>1, <2>2, <2>3, <2>4, <2>5, <2>6, <2>7, <2>8, <2>9, <2>11, <2>12, <2>13,
       <2>14, <2>15, <2>16
       DEF Next, Arrive, Step
<1>3. DurableInv => DurableUnlessRaced
  BY DEF DurableInv, DurableUnlessRaced, Promised
<1>4. QED
  BY <1>1, <1>2, <1>3, TypeCorrect, PTL DEF Spec

-----------------------------------------------------------------------------
(***************************************************************************)
(* The authority it implements.                                            *)
(***************************************************************************)
\* What the tokens open, as the authority sees it.
Opens == {<<o.tok, o.env>> : o \in opened}

\* One more entrance opens one more environment at most.
LEMMA OpensStep ==
  ASSUME NEW t, NEW e, NEW by, opened' = opened \cup {[tok |-> t, env |-> e, by |-> by]}
  PROVE  Opens' = Opens \cup {<<t, e>>}
<1> DEFINE new == [tok |-> t, env |-> e, by |-> by]
<1>1. new.tok = t /\ new.env = e
  OBVIOUS
<1>2. ASSUME NEW x PROVE x \in Opens' <=> x \in Opens \cup {<<t, e>>}
  <2>1. x \in Opens' <=> \E o \in opened' : x = <<o.tok, o.env>>
    BY DEF Opens
  <2>2. x \in Opens <=> \E o \in opened : x = <<o.tok, o.env>>
    BY DEF Opens
  <2>3. opened' = opened \cup {new}
    OBVIOUS
  <2>4. HIDE DEF new
  <2>5. QED
    BY <1>1, <2>1, <2>2, <2>3
<1>3. QED
  BY <1>2

\* Steps that leave the clock, the codes, the grants and what is open alone
\* and let no request through are invisible to the authority.
LEMMA AuthorityFrame ==
  ASSUME TypeOK, NEW p \in Proc, now' = now, pairing' = pairing, grant' = grant,
         opened' = opened, pc' \in [Proc -> PCs],
         \A q \in Proc \ {p} : pc'[q] = pc[q] /\ req'[q] = req[q],
         pc[p] # "accepted", pc'[p] # "accepted"
  PROVE  UNCHANGED <<now, pairing, grant, Opens, Admitted>>
<1>1. Admitted' = Admitted
  BY DEF Admitted
<1>2. QED
  BY <1>1 DEF Opens

\* A step of p that lets its request through on a grant good for it.
LEMMA AdmitStep ==
  ASSUME TypeOK, NEW p \in Proc, NEW e \in Env, NEW c \in Container, NEW t \in Token,
         NEW at \in 0..now, NEW g \in grant, g.tok = t, at <= g.exp,
         \/ g.cid = c /\ Opens' = Opens \cup {<<t, e>>}
         \/ <<t, e>> \in Opens /\ Opens' = Opens,
         now' = now, pairing' = pairing, grant' = grant,
         \A q \in Proc \ {p} : pc'[q] = pc[q] /\ req'[q] = req[q],
         pc[p] # "accepted", pc'[p] = "accepted",
         req'[p].env = e, req'[p].cid = c, req'[p].tok = t, req'[p].at = at
  PROVE  Authority!Next
<1>1. Admitted[p] = Authority!Nobody
  BY DEF Admitted, Authority!Nobody
<1>2. Admitted' = [Admitted EXCEPT ![p] =
                     [env |-> e, cid |-> c, tok |-> t, at |-> at]]
  BY DEF Admitted
<1>3. Authority!Admit(p, e, c, t)
  BY <1>1, <1>2 DEF Authority!Admit, Opens
<1>4. QED
  BY <1>3 DEF Authority!Next

\* handleBootstrap and authorizedWithStore, with their steps, the mutex, the
\* map, the table, failing calls, their late effects and restarts, do nothing
\* that the authority of TokenAuthority would not do.
THEOREM AuthorityImplemented == Spec => ImplementsAuthority
<1>1. Init => Authority!Init
  BY DEF Init, Authority!Init, Admitted, Authority!Nobody
<1>2. TypeOK /\ TypeOK' /\ TokenProvenance /\ [Next]_vars =>
        [Authority!Next]_<<now, pairing, grant, Opens, Admitted>>
  <2> SUFFICES ASSUME TypeOK, TypeOK', TokenProvenance, [Next]_vars
               PROVE  Authority!Next \/ UNCHANGED <<now, pairing, grant, Opens, Admitted>>
    OBVIOUS
  <2> USE PairingAssumption DEF postgres, history
  <2>1. CASE Tick
    <3>1. Admitted' = Admitted
      BY <2>1 DEF Tick, Admitted
    <3>2. Authority!Tick
      BY <2>1, <3>1 DEF Tick, Authority!Tick
    <3>3. QED
      BY <3>2 DEF Authority!Next
  <2>2. CASE Restart
    <3>1. Admitted' = [p \in Proc |-> Authority!Nobody]
      BY <2>2 DEF Restart, Admitted, Authority!Nobody
    <3>2. Authority!Forget
      BY <2>2, <3>1 DEF Restart, Authority!Forget
    <3>3. QED
      BY <3>2 DEF Authority!Next
  <2>3. ASSUME NEW e \in Env, NEW k \in Code, GeneratePairingCode(e, k)
        PROVE  Authority!Next
    <3>1. Admitted' = Admitted
      BY <2>3 DEF GeneratePairingCode, Admitted
    <3>2. Authority!Offer(e, k)
      BY <2>3, <3>1 DEF GeneratePairingCode, Authority!Offer
    <3>3. QED
      BY <3>2 DEF Authority!Next
  <2>4. ASSUME NEW p \in Proc, NEW route \in Routes, NEW t \in Token, NEW k \in Code,
               BootstrapClaim(p, route[1], route[2], k, t)
        PROVE  Authority!Next
    <3>1. Admitted' = Admitted
      BY <2>4 DEF BootstrapClaim, Goto, TypeOK, Admitted
    <3>2. Authority!Trade(route[1], route[2], k, t)
      BY <2>4, <3>1 DEF BootstrapClaim, deleteCode, Authority!Trade
    <3>3. QED
      BY <3>2 DEF Authority!Next
  <2>5. ASSUME NEW p \in Proc, NEW route \in Routes, NEW t \in Token,
               AuthorizeCached(p, route[1], route[2], t)
        PROVE  Authority!Next
    <3>1. PICK b \in browserAuth : b.tok = t /\ b.env = route[1] /\ now < b.exp
      BY <2>5 DEF AuthorizeCached, Cached
    <3>2. PICK g \in grant : g.tok = t /\ g.exp = b.exp
      BY <3>1 DEF TokenProvenance, CachedTokens
    <3>3. PICK o \in opened : o.tok = t /\ o.env = route[1]
      BY <3>1 DEF TokenProvenance, CachedTokens, Opened
    <3>4. now \in 0..now /\ now <= g.exp /\ route[1] \in Env /\ route[2] \in Container
      BY <3>1, <3>2 DEF TypeOK, browserToken
    <3>5. <<t, route[1]>> \in Opens /\ Opens' = Opens
      BY <2>5, <3>3 DEF AuthorizeCached, Opens
    <3>6. /\ pc[p] = "idle" /\ pc'[p] = "accepted"
          /\ req'[p].env = route[1] /\ req'[p].cid = route[2]
          /\ req'[p].tok = t /\ req'[p].at = now
          /\ \A q \in Proc \ {p} : pc'[q] = pc[q] /\ req'[q] = req[q]
          /\ now' = now /\ pairing' = pairing /\ grant' = grant
      BY <2>5 DEF AuthorizeCached, Goto, TypeOK
    <3>7. QED
      BY <3>2, <3>4, <3>5, <3>6, AdmitStep
  <2>6. ASSUME NEW p \in Proc, NEW route \in Routes, NEW t \in Token,
               AuthorizeMiss(p, route[1], route[2], t)
        PROVE  UNCHANGED <<now, pairing, grant, Opens, Admitted>>
    BY <2>6, AuthorityFrame DEF AuthorizeMiss, Goto, TypeOK
  <2>7. ASSUME NEW p \in Proc,
               \/ StoreSave(p) \/ BootstrapSaveFails(p) \/ StoreGetHit(p)
               \/ StoreGetExpired(p) \/ StoreGetMiss(p) \/ StoreDelete(p)
               \/ StoreDeleteFails(p)
        PROVE  UNCHANGED <<now, pairing, grant, Opens, Admitted>>
    <3>1. /\ now' = now /\ pairing' = pairing /\ grant' = grant /\ opened' = opened
          /\ pc[p] # "accepted" /\ pc'[p] # "accepted"
          /\ \A q \in Proc \ {p} : pc'[q] = pc[q] /\ req'[q] = req[q]
      BY <2>7 DEF StoreSave, BootstrapSaveFails, StoreGetHit, StoreGetExpired,
                  StoreGetMiss, StoreDelete, StoreDeleteFails, Return, Goto, TypeOK
    <3>2. QED
      BY <3>1, AuthorityFrame DEF TypeOK
  <2>8. ASSUME NEW p \in Proc, BootstrapFinish(p)
        PROVE  Authority!Next
    <3>1. /\ pc[p] = "saved" /\ pc'[p] = "idle"
          /\ \A q \in Proc \ {p} : pc'[q] = pc[q] /\ req'[q] = req[q]
          /\ now' = now /\ pairing' = pairing /\ grant' = grant
          /\ opened' = opened \cup Opening(p, "pairing")
      BY <2>8 DEF BootstrapFinish, Return, Goto, TypeOK
    <3>2. PICK g \in grant : /\ g.tok = req[p].tok
                             /\ g.env = req[p].env
                             /\ g.cid = req[p].cid
      BY <3>1 DEF TokenProvenance, CarriedToken
    <3>3. Opening(p, "pairing") =
            {[tok |-> req[p].tok, env |-> req[p].env, by |-> "pairing"]}
      BY <3>2 DEF Opening
    <3>4. Opens' = Opens \cup {<<g.tok, g.env>>}
      BY <3>1, <3>2, <3>3, OpensStep
    <3>5. Admitted' = Admitted
      BY <3>1 DEF Admitted
    <3>6. Authority!Deliver(g)
      BY <3>1, <3>4, <3>5 DEF Authority!Deliver, Opens
    <3>7. QED
      BY <3>6 DEF Authority!Next
  <2>9. ASSUME NEW p \in Proc, CacheFill(p)
        PROVE  Authority!Next
    <3>1. /\ Granted(req[p].tok, req[p].cid, req[p].exp)
          /\ req[p].at <= req[p].exp
          /\ req[p].at <= now
      BY <2>9 DEF CacheFill, TokenProvenance, CarriedToken
    <3>2. PICK g \in grant : g.tok = req[p].tok /\ g.cid = req[p].cid /\ g.exp = req[p].exp
      BY <3>1 DEF Granted
    <3>3. /\ pc[p] = "fill" /\ pc'[p] = "accepted" /\ req' = req
          /\ \A q \in Proc \ {p} : pc'[q] = pc[q]
          /\ now' = now /\ pairing' = pairing /\ grant' = grant
          /\ opened' = opened \cup Opening(p, "row")
      BY <2>9 DEF CacheFill, Goto, TypeOK
    <3>4. /\ req[p].env \in Env /\ req[p].cid \in Container
          /\ req[p].tok \in Token /\ req[p].at \in Nat
      BY <3>3 DEF TypeOK, Request
    <3>5. req[p].at \in 0..now
      BY <3>1, <3>4 DEF TypeOK
    <3>6. Opening(p, "row") = {[tok |-> req[p].tok, env |-> req[p].env, by |-> "row"]}
      BY <3>2 DEF Opening
    <3>7. Opens' = Opens \cup {<<req[p].tok, req[p].env>>}
      BY <3>3, <3>6, OpensStep
    <3>8. /\ pc[p] # "accepted" /\ req[p].at <= g.exp
          /\ \A q \in Proc \ {p} : pc'[q] = pc[q] /\ req'[q] = req[q]
          /\ req'[p].env = req[p].env /\ req'[p].cid = req[p].cid
          /\ req'[p].tok = req[p].tok /\ req'[p].at = req[p].at
      BY <3>1, <3>2, <3>3
    <3>9. ASSUME NEW e \in Env, NEW c \in Container, NEW t \in Token, NEW at \in 0..now,
                 e = req[p].env, c = req[p].cid, t = req[p].tok, at = req[p].at
          PROVE  Authority!Next
      <4>1. /\ g.tok = t /\ at <= g.exp /\ g.cid = c /\ Opens' = Opens \cup {<<t, e>>}
            /\ req'[p].env = e /\ req'[p].cid = c /\ req'[p].tok = t /\ req'[p].at = at
        BY <3>2, <3>7, <3>8, <3>9
      <4>2. QED
        BY <3>3, <3>8, <4>1, AdmitStep
    <3>10. QED
      BY <3>4, <3>5, <3>9
  <2>10. ASSUME NEW p \in Proc, Done(p)
         PROVE  Authority!Next
    <3>1. Admitted' = [Admitted EXCEPT ![p] = Authority!Nobody]
      BY <2>10 DEF Done, Return, Goto, TypeOK, Admitted, Authority!Nobody
    <3>2. Authority!Leave(p)
      BY <2>10, <3>1 DEF Done, Authority!Leave
    <3>3. QED
      BY <3>2 DEF Authority!Next
  <2>11. ASSUME \/ \E row \in lateSave : LateSave(row)
                \/ \E c \in lateDelete : LateDelete(c)
                \/ UNCHANGED vars
         PROVE  UNCHANGED <<now, pairing, grant, Opens, Admitted>>
    BY <2>11 DEF LateSave, LateDelete, vars, Opens, Admitted
  <2>12. QED
    BY <2>1, <2>2, <2>3, <2>4, <2>5, <2>6, <2>7, <2>8, <2>9, <2>10, <2>11
       DEF Next, Arrive, Step
<1>3. QED
  BY <1>1, <1>2, TypeCorrect, ProvenanceKept, PTL
     DEF Spec, ImplementsAuthority, Authority!Spec, Opens
=============================================================================
