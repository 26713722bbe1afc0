------------------------ MODULE SyncControllerProofs ------------------------
(***************************************************************************)
(* Theorems about SyncController, for every value of its constants.        *)
(***************************************************************************)
EXTENDS SyncController, TLAPS

-----------------------------------------------------------------------------
(***************************************************************************)
(* Type correctness.                                                       *)
(***************************************************************************)
LEMMA WishesTyped == Wishes \subseteq [Name -> Wish]
BY DEF Wishes

LEMMA InitType == Init => TypeOK
<1> SUFFICES ASSUME Init PROVE TypeOK
  OBVIOUS
<1>1. sessions \in SUBSET Session
  BY SyncAssumption DEF Init, Leftovers, Session
<1>2. want \in [Name -> Wish] /\ enabled \in BOOLEAN /\ daemon \in BOOLEAN
  BY WishesTyped DEF Init
<1>3. serial \in Nat /\ budget \in Nat
  BY SyncAssumption DEF Init
<1>4. published \in [Name -> Status] /\ out \in [Loop -> [Name -> Status]]
  BY DEF Init, Silent, Status
<1>5. /\ conn \in BOOLEAN
      /\ phase \in [Loop -> Phases]
      /\ input \in [Loop -> [Name -> Wish]]
      /\ avail \in [Loop -> BOOLEAN]
      /\ cut \in SUBSET Loop
      /\ met \in SUBSET Loop
      /\ failed \in SUBSET Loop
  BY DEF Init, Wish, Phases
<1>6. /\ live \in [Loop -> SUBSET Session]
      /\ todo \in [Loop -> SUBSET Name]
  BY DEF Init
<1>7. /\ op \in [Loop -> Op]
      /\ \A r \in Loop : op[r].kind # "list" => op[r].name \in Name
  BY DEF Init, NoOp, Op
<1>8. QED
  BY <1>1, <1>2, <1>3, <1>4, <1>5, <1>6, <1>7 DEF TypeOK

\* The parts of TypeOK that calls to the daemon and their callers change.
ClientOK ==
  /\ sessions \in SUBSET Session
  /\ serial \in Nat
  /\ budget \in Nat
  /\ conn \in BOOLEAN
  /\ cut \in SUBSET Loop
  /\ met \in SUBSET Loop
  /\ failed \in SUBSET Loop

LoopsOK ==
  /\ phase \in [Loop -> Phases]
  /\ input \in [Loop -> [Name -> Wish]]
  /\ avail \in [Loop -> BOOLEAN]
  /\ live \in [Loop -> SUBSET Session]
  /\ todo \in [Loop -> SUBSET Name]
  /\ op \in [Loop -> Op]
  /\ out \in [Loop -> [Name -> Status]]
  /\ \A r \in Loop : op[r].kind # "list" => op[r].name \in Name

OutsideOK ==
  /\ want \in [Name -> Wish]
  /\ enabled \in BOOLEAN
  /\ daemon \in BOOLEAN
  /\ published \in [Name -> Status]

LEMMA TypeParts == TypeOK <=> ClientOK /\ LoopsOK /\ OutsideOK
BY DEF TypeOK, ClientOK, LoopsOK, OutsideOK

LEMMA SpendType == budget \in Nat /\ (Spend \/ UNCHANGED budget) => budget' \in Nat
BY DEF Spend

\* What a call that the daemon carries out leaves behind.
LEMMA ApplyType ==
  ASSUME ClientOK, LoopsOK, NEW r \in Loop, Apply(op[r])
  PROVE  sessions' \in SUBSET Session /\ serial' \in Nat
<1>1. CASE op[r].kind \in {"pause", "resume"}
  <2>1. op[r].name \in Name
    BY <1>1 DEF LoopsOK
  <2>2. PICK flag \in BOOLEAN : sessions' = Switched(op[r].name, flag) /\ serial' = serial
    BY <1>1 DEF Apply
  <2>3. QED
    BY <2>1, <2>2 DEF ClientOK, Switched, Session
<1>2. CASE op[r].kind = "create"
  <2>1. op[r].name \in Name
    BY <1>2 DEF LoopsOK
  <2>2. /\ serial' = serial + 1
        /\ sessions' = sessions \cup
             {[id |-> serial + 1, name |-> op[r].name, paused |-> FALSE]}
    BY <1>2 DEF Apply
  <2>3. [id |-> serial + 1, name |-> op[r].name, paused |-> FALSE] \in Session
    BY <2>1 DEF ClientOK, Session
  <2>4. sessions' \in SUBSET Session
    <3>1. \A s \in sessions' :
            s \in sessions \/ s = [id |-> serial + 1, name |-> op[r].name, paused |-> FALSE]
      BY <2>2
    <3>2. QED
      BY <2>3, <3>1 DEF ClientOK
  <2>5. serial' \in Nat
    BY <2>2 DEF ClientOK
  <2>6. QED
    BY <2>4, <2>5
<1>3. CASE op[r].kind \in {"list", "terminate"}
  BY <1>3 DEF Apply, ClientOK
<1>4. QED
  BY <1>1, <1>2, <1>3 DEF Apply

LEMMA FinishType ==
  ASSUME LoopsOK, NEW r \in Loop, NEW ok \in BOOLEAN, Finish(r, ok),
         live' \in [Loop -> SUBSET Session]
  PROVE  LoopsOK'
<1>1. desiredNames(r) \in SUBSET Name
  BY DEF desiredNames
<1>2. todo' \in [Loop -> SUBSET Name] /\ phase' \in [Loop -> Phases]
  BY <1>1 DEF LoopsOK, Finish, Phases
<1>3. avail' \in [Loop -> BOOLEAN]
  BY DEF LoopsOK, Finish
<1>4. out' \in [Loop -> [Name -> Status]]
  <2>1. CASE op[r].kind = "create"
    BY <2>1 DEF LoopsOK, Finish, Status
  <2>2. CASE op[r].kind # "create"
    BY <2>2 DEF LoopsOK, Finish
  <2>3. QED
    BY <2>1, <2>2
<1>5. QED
  BY <1>2, <1>3, <1>4 DEF LoopsOK, Finish

LEMMA InvokeType ==
  ASSUME LoopsOK, NEW r \in Loop, NEW n \in Name, NEW id \in Nat,
         NEW kind \in {"pause", "resume", "create", "terminate"}, Invoke(r, kind, n, id)
  PROVE  /\ op' \in [Loop -> Op]
         /\ phase' \in [Loop -> Phases]
         /\ \A s \in Loop : op'[s].kind # "list" => op'[s].name \in Name
BY DEF LoopsOK, Invoke, Op, Phases

LEMMA EntryType ==
  ASSUME ClientOK, LoopsOK, NEW r \in Loop, NEW n \in Name,
         \/ EntryStopped(r, n) \/ EntryInvalid(r, n) \/ EntryUnavailable(r, n)
         \/ EntryLive(r, n) \/ EntryNew(r, n)
  PROVE  ClientOK' /\ LoopsOK'
<1>1. AtEntry(r, n)
  BY DEF EntryStopped, EntryInvalid, EntryUnavailable, EntryLive, EntryNew
<1>2. budget' \in Nat
  BY SpendType DEF ClientOK, EntryStopped, EntryInvalid, EntryUnavailable, EntryLive,
                   ReportLive, EntryNew, PassedUnread
<1>3. ClientOK'
  BY <1>1, <1>2 DEF ClientOK, AtEntry
<1>4. out' \in [Loop -> [Name -> Status]]
  <2>1. ASSUME NEW status \in Status, Report(r, n, status)
        PROVE  out' \in [Loop -> [Name -> Status]]
    BY <2>1 DEF Report, LoopsOK
  <2>2. \A s : mutagenStatus(s) \subseteq Status
    BY DEF mutagenStatus, Status
  <2>3. CASE EntryLive(r, n)
    <3>1. PICK s \in Named(live[r], n) : ReportLive(r, s)
      BY <2>3 DEF EntryLive
    <3>2. PICK status \in Status : Report(r, n, status)
      BY <3>1, <2>2 DEF ReportLive, Named
    <3>3. QED
      BY <2>1, <3>2
  <2>4. QED
    BY <2>1, <2>3 DEF EntryStopped, EntryInvalid, EntryUnavailable, EntryNew,
                      Status, LoopsOK
<1>5. /\ op' \in [Loop -> Op]
      /\ phase' \in [Loop -> Phases]
      /\ \A s \in Loop : op'[s].kind # "list" => op'[s].name \in Name
  <2>1. CASE Skip
    BY <2>1 DEF Skip, LoopsOK
  <2>2. CASE \E kind \in {"pause", "resume", "create", "terminate"} : Invoke(r, kind, n, 0)
    BY <2>2, InvokeType
  <2>3. QED
    BY <2>1, <2>2 DEF EntryStopped, EntryInvalid, EntryUnavailable, EntryLive, EntryNew
<1>6. QED
  BY <1>1, <1>3, <1>4, <1>5 DEF AtEntry, LoopsOK

LEMMA LoopsFrame ==
  LoopsOK /\ UNCHANGED <<phase, input, avail, live, todo, op, out>> => LoopsOK'
BY DEF LoopsOK

LEMMA TypeStep == TypeOK /\ [Next]_vars => TypeOK'
<1> SUFFICES ASSUME ClientOK, LoopsOK, OutsideOK, [Next]_vars
             PROVE  ClientOK' /\ LoopsOK' /\ OutsideOK'
  BY DEF TypeOK, ClientOK, LoopsOK, OutsideOK
<1>1. CASE UNCHANGED vars
  <2>1. ClientOK' /\ OutsideOK'
    BY <1>1 DEF vars, ClientOK, OutsideOK
  <2>2. LoopsOK'
    BY <1>1, LoopsFrame DEF vars
  <2>3. QED
    BY <2>1, <2>2
<1>2. ASSUME NEW r \in Loop, Step(r) PROVE ClientOK' /\ LoopsOK' /\ OutsideOK'
  <2>1. CASE Start(r)
    <3>1. met' \in SUBSET Loop
      BY <2>1 DEF Start, Busy, ClientOK
    <3>2. QED
      BY <2>1, <3>1 DEF Start, ClientOK, LoopsOK, OutsideOK, world, Phases
  <2>2. CASE StartDisabled(r)
    BY <2>2, LoopsFrame DEF StartDisabled, ClientOK, OutsideOK, world, Silent, Status
  <2>3. CASE Connect(r)
    BY <2>3 DEF Connect, ensureConnected, ClientOK, LoopsOK, OutsideOK, NoOp, Op, Phases
  <2>4. CASE ConnectFails(r)
    <3>1. budget' \in Nat
      BY <2>4, SpendType DEF ConnectFails, ensureFails, ClientOK
    <3>2. QED
      BY <2>4, <3>1 DEF ConnectFails, ensureFails, ClientOK, LoopsOK, OutsideOK, Phases,
                        desiredNames
  <2>5. CASE Ensure(r)
    BY <2>5 DEF Ensure, ensureConnected, ClientOK, LoopsOK, OutsideOK, Phases
  <2>6. CASE EnsureFails(r) \/ hostFails(r) \/ reset(r)
    <3>1. LoopsOK'
      BY <2>6, FinishType DEF EnsureFails, hostFails, reset, LoopsOK
    <3>2. budget' \in Nat
      BY <2>6, SpendType DEF EnsureFails, ensureFails, hostFails, reset, ClientOK
    <3>3. QED
      BY <2>6, <3>1, <3>2 DEF EnsureFails, ensureFails, hostFails, reset, Finish, ClientOK,
                              OutsideOK
  <2>7. CASE hostPrompter(r)
    BY <2>7 DEF hostPrompter, ClientOK, LoopsOK, OutsideOK, world, Phases
  <2>8. CASE Call(r) \/ CallInvalid(r)
    <3>1. sessions' \in SUBSET Session /\ serial' \in Nat
      BY <2>8, ApplyType DEF Call, CallInvalid
    <3>2. live' \in [Loop -> SUBSET Session]
      BY <2>8 DEF Call, CallInvalid, LoopsOK, ClientOK
    <3>3. LoopsOK'
      BY <2>8, <3>2, FinishType DEF Call, CallInvalid
    <3>4. budget' \in Nat
      BY <2>8, SpendType DEF Call, CallInvalid, ClientOK
    <3>5. QED
      BY <2>8, <3>1, <3>3, <3>4 DEF Call, CallInvalid, Finish, ClientOK, OutsideOK
  <2>9. CASE CallFails(r)
    <3>1. sessions' \in SUBSET Session /\ serial' \in Nat
      BY <2>9, ApplyType DEF CallFails, ClientOK
    <3>2. budget' \in Nat
      BY <2>9, SpendType DEF CallFails, ClientOK
    <3>3. QED
      BY <2>9, <3>1, <3>2 DEF CallFails, ClientOK, LoopsOK, OutsideOK, Phases
  <2>10. ASSUME NEW n \in Name,
                \/ EntryStopped(r, n) \/ EntryInvalid(r, n) \/ EntryUnavailable(r, n)
                \/ EntryLive(r, n) \/ EntryNew(r, n)
         PROVE  ClientOK' /\ LoopsOK' /\ OutsideOK'
    BY <2>10, EntryType DEF EntryStopped, EntryInvalid, EntryUnavailable, EntryLive,
                            EntryNew, AtEntry, OutsideOK
  <2>11. ASSUME NEW n \in Name, Terminate(r, n)
         PROVE  ClientOK' /\ LoopsOK' /\ OutsideOK'
    <3>1. PICK s \in live[r] : Invoke(r, "terminate", n, s.id)
      BY <2>11 DEF Terminate, Named
    <3>2. s.id \in Nat
      BY DEF LoopsOK, Session
    <3>3. /\ op' \in [Loop -> Op]
          /\ phase' \in [Loop -> Phases]
          /\ \A q \in Loop : op'[q].kind # "list" => op'[q].name \in Name
      BY <3>1, <3>2, InvokeType
    <3>4. QED
      BY <2>11, <3>3 DEF Terminate, ClientOK, LoopsOK, OutsideOK, world
  <2>12. CASE Sweep(r)
    BY <2>12 DEF Sweep, ClientOK, LoopsOK, OutsideOK, world, Phases, Session
  <2>13. CASE Publish(r)
    BY <2>13 DEF Publish, ClientOK, LoopsOK, OutsideOK, world, Phases, Silent, Status
  <2>14. QED
    BY <1>2, <2>1, <2>2, <2>3, <2>4, <2>5, <2>6, <2>7, <2>8, <2>9, <2>10, <2>11, <2>12,
       <2>13 DEF Step
<1>3. ASSUME Reborn, budget' \in Nat PROVE ClientOK' /\ LoopsOK' /\ OutsideOK'
  BY <1>3 DEF Reborn, ClientOK, LoopsOK, OutsideOK, Silent, Status, Wish, Phases, NoOp, Op
<1>4. ASSUME NEW r \in Loop, Panic(r) PROVE ClientOK' /\ LoopsOK' /\ OutsideOK'
  BY <1>3, <1>4 DEF Panic, ClientOK
<1>5. CASE Environment
  <2>1. budget' \in Nat
    BY <1>5, SpendType DEF Environment, Restart, WantChanges, SwitchSync, DaemonStops,
                           DaemonStarts, ClientOK
  <2>2. CASE Restart
    BY <1>3, <2>1, <2>2 DEF Restart
  <2>3. CASE UNCHANGED inner
    <3>1. ClientOK' /\ LoopsOK' /\ published' = published
      BY <2>1, <2>3, LoopsFrame DEF inner, ClientOK
    <3>2. QED
      BY <1>5, <2>2, <3>1, WishesTyped DEF Environment, WantChanges, SwitchSync, DaemonStops,
                              DaemonStarts, OutsideOK
  <2>4. QED
    BY <1>5, <2>2, <2>3 DEF Environment, WantChanges, SwitchSync, DaemonStops, DaemonStarts
<1>6. QED
  BY <1>1, <1>2, <1>4, <1>5 DEF Next

\* Every variable of the controller, its client and the daemon keeps its type.
THEOREM TypeCorrect == Spec => []TypeOK
<1>1. QED
  BY InitType, TypeStep, PTL DEF Spec

-----------------------------------------------------------------------------
(***************************************************************************)
(* Only what has no entry is terminated.                                   *)
(***************************************************************************)
\* Sessions are those of before, under their names, and newly numbered ones.
Traced ==
  /\ serial' >= serial
  /\ \A t \in sessions' :
       t.id > serial \/ \E s \in sessions : s.id = t.id /\ s.name = t.name

LEMMA SessionType ==
  ASSUME ClientOK, NEW s \in sessions
  PROVE  s.id \in Nat /\ s.name \in Name
BY DEF ClientOK, Session

LEMMA UnchangedIds ==
  ASSUME ClientOK, OneSessionPerId, UNCHANGED <<sessions, serial>>
  PROVE  OneSessionPerId' /\ Traced
BY DEF ClientOK, OneSessionPerId, Traced

LEMMA ApplyIds ==
  ASSUME ClientOK, LoopsOK, OneSessionPerId, NEW r \in Loop, Apply(op[r])
  PROVE  OneSessionPerId' /\ Traced
<1>1. CASE op[r].kind = "list"
  BY <1>1, UnchangedIds DEF Apply
<1>2. CASE op[r].kind \in {"pause", "resume"}
  <2>1. PICK flag : sessions' = Switched(op[r].name, flag) /\ serial' = serial
    BY <1>2 DEF Apply
  <2>2. ASSUME NEW t \in sessions'
        PROVE  \E s \in sessions :
                 /\ t = IF s.name = op[r].name
                          THEN [id |-> s.id, name |-> op[r].name, paused |-> flag] ELSE s
                 /\ s.id = t.id
                 /\ s.name = t.name
    BY <2>1, <2>2 DEF Switched
  <2>3. OneSessionPerId'
    BY <2>1, <2>2 DEF OneSessionPerId
  <2>4. Traced
    BY <2>1, <2>2 DEF Traced, ClientOK
  <2>5. QED
    BY <2>3, <2>4
<1>3. CASE op[r].kind = "create"
  <2> DEFINE new == [id |-> serial + 1, name |-> op[r].name, paused |-> FALSE]
  <2>1. serial' = serial + 1 /\ sessions' = sessions \cup {new}
    BY <1>3 DEF Apply
  <2>2. new.id = serial + 1 /\ serial \in Nat
    BY DEF ClientOK
  <2> HIDE DEF new
  <2>3. \A t \in sessions' : t \in sessions \/ t = new
    BY <2>1
  <2>4. \A t \in sessions : t.id \in Nat /\ t.id <= serial
    BY SessionType DEF OneSessionPerId
  <2>5. Traced
    BY <2>1, <2>2, <2>3, <2>4 DEF Traced
  <2>6. OneSessionPerId'
    BY <2>1, <2>2, <2>3, <2>4 DEF OneSessionPerId
  <2>7. QED
    BY <2>5, <2>6
<1>4. CASE op[r].kind = "terminate"
  BY <1>4 DEF Apply, OneSessionPerId, Traced, ClientOK
<1>5. QED
  BY <1>1, <1>2, <1>3, <1>4 DEF Apply

\* The listed sessions of q keep their names, whatever else happens.
LEMMA ListedFrame ==
  ASSUME ClientOK, LoopsOK, Traced, serial' \in Nat, NEW q \in Loop, SweepsAbsent(q),
         live'[q] = live[q]
  PROVE  /\ \A s \in live'[q] : s.id <= serial'
         /\ \A s \in live'[q], t \in sessions' : s.id = t.id => s.name = t.name
<1>1. \A s \in live[q] : s.id \in Nat /\ s.id <= serial
  BY DEF LoopsOK, Session, SweepsAbsent
<1>2. \A s \in live'[q] : s.id <= serial'
  BY <1>1 DEF Traced, ClientOK
<1>3. ASSUME NEW s \in live[q], NEW t \in sessions', s.id = t.id PROVE s.name = t.name
  <2>1. ~ t.id > serial
    BY <1>1, <1>3 DEF ClientOK
  <2>2. PICK u \in sessions : u.id = t.id /\ u.name = t.name
    BY <2>1 DEF Traced
  <2>3. QED
    BY <1>3, <2>2 DEF SweepsAbsent
<1>4. QED
  BY <1>2, <1>3

\* So does the session that q is about to terminate.
LEMMA TargetFrame ==
  ASSUME ClientOK, LoopsOK, Traced, serial' \in Nat, NEW q \in Loop, SweepsAbsent(q),
         InCall(q), op[q].kind = "terminate"
  PROVE  /\ op[q].id <= serial'
         /\ \A s \in sessions' : s.id = op[q].id => s.name = op[q].name
<1>1. op[q].id \in Nat /\ op[q].id <= serial
  BY DEF LoopsOK, Op, SweepsAbsent
<1>2. op[q].id <= serial'
  BY <1>1 DEF Traced, ClientOK
<1>3. ASSUME NEW s \in sessions', s.id = op[q].id PROVE s.name = op[q].name
  <2>1. ~ s.id > serial
    BY <1>1, <1>3 DEF ClientOK
  <2>2. PICK u \in sessions : u.id = s.id /\ u.name = s.name
    BY <2>1 DEF Traced
  <2>3. QED
    BY <1>3, <2>2 DEF SweepsAbsent
<1>4. QED
  BY <1>2, <1>3

\* A step of loop r changes nothing of what another loop keeps.
LEMMA OthersFrame ==
  ASSUME LoopsOK, NEW r \in Loop, Step(r), NEW q \in Loop, q # r
  PROVE  /\ phase'[q] = phase[q] /\ input'[q] = input[q] /\ avail'[q] = avail[q]
         /\ live'[q] = live[q] /\ todo'[q] = todo[q] /\ op'[q] = op[q]
         /\ out'[q] = out[q]
<1>1. CASE \/ Start(r) \/ StartDisabled(r) \/ Connect(r) \/ ConnectFails(r) \/ Ensure(r)
           \/ hostPrompter(r) \/ CallFails(r) \/ Sweep(r) \/ Publish(r)
  BY <1>1 DEF Start, StartDisabled, Connect, ConnectFails, Ensure, hostPrompter, CallFails,
              Sweep, Publish, LoopsOK
<1>2. CASE EnsureFails(r) \/ hostFails(r) \/ Call(r) \/ CallInvalid(r) \/ reset(r)
  <2>1. PICK ok \in BOOLEAN : Finish(r, ok)
    BY <1>2 DEF EnsureFails, hostFails, Call, CallInvalid, reset
  <2>2. /\ phase'[q] = phase[q] /\ input'[q] = input[q] /\ avail'[q] = avail[q]
        /\ todo'[q] = todo[q] /\ op'[q] = op[q] /\ out'[q] = out[q]
    BY <2>1 DEF Finish, LoopsOK
  <2>3. live'[q] = live[q]
    BY <1>2 DEF EnsureFails, hostFails, Call, CallInvalid, reset, LoopsOK
  <2>4. QED
    BY <2>2, <2>3
<1>3. ASSUME NEW n \in Name,
             \/ EntryStopped(r, n) \/ EntryInvalid(r, n) \/ EntryUnavailable(r, n)
             \/ EntryLive(r, n) \/ EntryNew(r, n) \/ Terminate(r, n)
      PROVE  /\ phase'[q] = phase[q] /\ input'[q] = input[q] /\ avail'[q] = avail[q]
             /\ live'[q] = live[q] /\ todo'[q] = todo[q] /\ op'[q] = op[q]
             /\ out'[q] = out[q]
  <2>1. /\ UNCHANGED <<input, avail, live>>
        /\ todo' = [todo EXCEPT ![r] = @ \ {n}]
    BY <1>3 DEF EntryStopped, EntryInvalid, EntryUnavailable, EntryLive, EntryNew, AtEntry,
                Terminate
  <2>2. Skip \/ \E kind, id : Invoke(r, kind, n, id)
    BY <1>3 DEF EntryStopped, EntryInvalid, EntryUnavailable, EntryLive, EntryNew, Terminate
  <2>3. phase'[q] = phase[q] /\ op'[q] = op[q]
    BY <1>3, <2>2 DEF Skip, Invoke, LoopsOK
  <2>4. out' = out \/ \E status : Report(r, n, status)
    <3>1. CASE EntryLive(r, n)
      BY <3>1 DEF EntryLive, ReportLive, Named
    <3>2. CASE \/ EntryStopped(r, n) \/ EntryInvalid(r, n) \/ EntryUnavailable(r, n)
               \/ EntryNew(r, n) \/ Terminate(r, n)
      BY <3>2 DEF EntryStopped, EntryInvalid, EntryUnavailable, EntryNew, Terminate
    <3>3. QED
      BY <1>3, <3>1, <3>2
  <2>5. out'[q] = out[q]
    BY <2>4 DEF Report, LoopsOK
  <2>6. QED
    BY <2>1, <2>3, <2>5 DEF LoopsOK
<1>4. QED
  BY <1>1, <1>2, <1>3 DEF Step

LEMMA SweepFrame ==
  ASSUME ClientOK, LoopsOK, Traced, serial' \in Nat, NEW q \in Loop, SweepsAbsent(q),
         live'[q] = live[q], todo'[q] = todo[q], op'[q] = op[q], input'[q] = input[q],
         phase'[q] = phase[q]
  PROVE  SweepsAbsent(q)'
BY ListedFrame, TargetFrame DEF SweepsAbsent, InCall

LEMMA SweepInit == Init => SweepInv
BY SyncAssumption DEF Init, SweepInv, OneSessionPerId, SweepsAbsent, Leftovers, InCall

\* A step of loop r, split into what it does to r and to the other loops.
LEMMA SweepStep ==
  ASSUME ClientOK, LoopsOK, ClientOK', SweepInv, NEW r \in Loop, Step(r)
  PROVE  SweepInv'
<1>1. OneSessionPerId' /\ Traced
  <2>1. CASE UNCHANGED <<sessions, serial>>
    BY <2>1, UnchangedIds DEF SweepInv
  <2>2. CASE Apply(op[r])
    BY <2>2, ApplyIds DEF SweepInv
  <2>3. QED
    BY <2>1, <2>2
       DEF Step, Start, StartDisabled, Connect, ConnectFails, Ensure, EnsureFails,
           hostPrompter, hostFails, Call, CallInvalid, CallFails, reset, EntryStopped,
           EntryInvalid, EntryUnavailable, EntryLive, EntryNew, AtEntry, Terminate, Sweep,
           Publish
<1>2. serial' \in Nat /\ SweepsAbsent(r)
  BY DEF ClientOK, SweepInv
<1>3. ASSUME NEW q \in Loop, q # r PROVE SweepsAbsent(q)'
  BY <1>1, <1>2, <1>3, OthersFrame, SweepFrame DEF SweepInv
<1>4. SweepsAbsent(r)'
  <2>1. CASE Start(r)
    <3>1. live'[r] = live[r] /\ ~ InCall(r)' /\ phase'[r] # "sweep"
      BY <2>1 DEF Start, InCall, LoopsOK
    <3>2. QED
      BY <1>1, <1>2, <3>1, ListedFrame DEF SweepsAbsent
  <2>2. CASE StartDisabled(r)
    BY <1>1, <1>2, <2>2, SweepFrame DEF StartDisabled
  <2>3. CASE Connect(r) \/ ConnectFails(r)
    <3>1. /\ live'[r] = live[r]
          /\ phase'[r] \in {"ensure", "pass"}
          /\ phase'[r] = "ensure" => op'[r].kind = "list"
      <4>1. CASE Connect(r)
        BY <4>1 DEF Connect, NoOp, LoopsOK
      <4>2. CASE ConnectFails(r)
        BY <4>2 DEF ConnectFails, LoopsOK
      <4>3. QED
        BY <2>3, <4>1, <4>2
    <3>2. QED
      BY <1>1, <1>2, <3>1, ListedFrame DEF SweepsAbsent, InCall
  <2>4. CASE Ensure(r) \/ hostPrompter(r) \/ CallFails(r)
    <3>1. /\ live'[r] = live[r] /\ todo'[r] = todo[r] /\ op'[r] = op[r]
          /\ input'[r] = input[r] /\ phase'[r] # "sweep" /\ InCall(r)
      BY <2>4 DEF Ensure, hostPrompter, CallFails, InCall, LoopsOK
    <3>2. QED
      BY <1>1, <1>2, <3>1, ListedFrame, TargetFrame DEF SweepsAbsent
  <2>5. ASSUME NEW ok, Finish(r, ok), InCall(r),
               /\ \A s \in live'[r] : s.id <= serial'
               /\ \A s \in live'[r], t \in sessions' : s.id = t.id => s.name = t.name
        PROVE  SweepsAbsent(r)'
    <3>1. /\ phase'[r] \in {"sweep", "pass"}
          /\ phase'[r] = "sweep" => op[r].kind = "terminate" /\ todo'[r] = todo[r]
          /\ input'[r] = input[r]
      BY <2>5 DEF Finish, LoopsOK
    <3>2. QED
      BY <1>2, <2>5, <3>1 DEF SweepsAbsent, InCall
  <2>6. CASE EnsureFails(r) \/ hostFails(r) \/ reset(r) \/ CallInvalid(r)
    <3>1. live'[r] = live[r] /\ Finish(r, FALSE) /\ InCall(r)
      BY <2>6 DEF EnsureFails, hostFails, reset, CallInvalid, InCall
    <3>2. QED
      BY <1>1, <1>2, <2>5, <3>1, ListedFrame
  <2>7. CASE Call(r)
    <3>1. CASE op[r].kind # "list"
      BY <1>1, <1>2, <2>5, <2>7, <3>1, ListedFrame DEF Call, InCall
    <3>2. CASE op[r].kind = "list"
      <4>1. live'[r] \subseteq sessions /\ sessions' = sessions /\ serial' = serial
        BY <2>7, <3>2 DEF Call, Apply, LoopsOK
      <4>2. /\ \A s \in live'[r] : s.id <= serial'
            /\ \A s \in live'[r], t \in sessions' : s.id = t.id => s.name = t.name
        BY <4>1 DEF SweepInv, OneSessionPerId
      <4>3. QED
        BY <2>5, <2>7, <4>2 DEF Call, InCall
    <3>3. QED
      BY <3>1, <3>2
  <2>8. ASSUME NEW n \in Name,
               \/ EntryStopped(r, n) \/ EntryInvalid(r, n) \/ EntryUnavailable(r, n)
               \/ EntryLive(r, n) \/ EntryNew(r, n)
        PROVE  SweepsAbsent(r)'
    <3>1. live'[r] = live[r] /\ phase[r] = "pass"
      BY <2>8 DEF EntryStopped, EntryInvalid, EntryUnavailable, EntryLive, EntryNew, AtEntry
    <3>2. phase'[r] = "pass" \/ (phase'[r] = "ensure" /\ op'[r].kind # "terminate")
      BY <2>8, <3>1 DEF EntryStopped, EntryInvalid, EntryUnavailable, EntryLive, EntryNew,
                        Invoke, Skip, LoopsOK
    <3>3. QED
      BY <1>1, <1>2, <3>1, <3>2, ListedFrame DEF SweepsAbsent, InCall
  <2>9. ASSUME NEW n \in Name, Terminate(r, n) PROVE SweepsAbsent(r)'
    <3>1. PICK s \in live[r] : s.name = n /\ Invoke(r, "terminate", n, s.id)
      BY <2>9 DEF Terminate, Named
    <3>2. /\ phase'[r] = "ensure" /\ op'[r] = [kind |-> "terminate", name |-> n, id |-> s.id]
          /\ todo'[r] = todo[r] \ {n} /\ n \in todo[r] /\ phase[r] = "sweep"
          /\ input'[r] = input[r] /\ live'[r] = live[r]
          /\ serial' = serial /\ sessions' = sessions
      BY <2>9, <3>1 DEF Terminate, Invoke, LoopsOK
    <3>3. QED
      BY <1>2, <3>1, <3>2 DEF SweepsAbsent, InCall
  <2>10. CASE Sweep(r)
    <3>1. /\ phase'[r] = "sweep" /\ input'[r] = input[r] /\ live'[r] = live[r]
          /\ \A n \in todo'[r] : n \in Name \ desiredNames(r)
      BY <2>10 DEF Sweep, LoopsOK, Session
    <3>2. QED
      BY <1>1, <1>2, <3>1, ListedFrame DEF SweepsAbsent, InCall, desiredNames
  <2>11. CASE Publish(r)
    BY <2>11 DEF Publish, SweepsAbsent, InCall, LoopsOK
  <2>12. QED
    BY <2>1, <2>2, <2>3, <2>4, <2>6, <2>7, <2>8, <2>9, <2>10, <2>11 DEF Step
<1>5. QED
  BY <1>1, <1>3, <1>4 DEF SweepInv

LEMMA SweepInvariant == Spec => []SweepInv
<1>1. TypeOK /\ TypeOK' /\ SweepInv /\ [Next]_vars => SweepInv'
  <2> SUFFICES ASSUME ClientOK, ClientOK', LoopsOK, SweepInv, [Next]_vars PROVE SweepInv'
    BY DEF TypeOK, ClientOK, LoopsOK
  <2>1. CASE \E r \in Loop : Step(r)
    BY <2>1, SweepStep
  <2>2. CASE Reborn
    <3>1. OneSessionPerId' /\ serial' \in Nat
      BY <2>2, UnchangedIds DEF Reborn, SweepInv, ClientOK
    <3>2. QED
      BY <2>2, <3>1 DEF Reborn, SweepInv, SweepsAbsent, InCall
  <2>3. CASE UNCHANGED inner
    BY <2>3 DEF inner, SweepInv, OneSessionPerId, SweepsAbsent, InCall
  <2>4. CASE UNCHANGED vars
    BY <2>3, <2>4 DEF vars, inner
  <2>5. QED
    BY <2>1, <2>2, <2>3, <2>4
       DEF Next, Panic, Environment, Restart, WantChanges, SwitchSync, DaemonStops,
           DaemonStarts
<1>2. QED
  BY <1>1, SweepInit, TypeCorrect, PTL DEF Spec

\* However many loops reconcile at once, and whatever fails, a session ends
\* only by a Reconcile that found no entry for its name.
THEOREM UndesiredTerminated == Spec => OnlyUndesiredTerminated
<1> DEFINE Ends ==
      \A s \in sessions :
        \/ \E t \in sessions' : t.id = s.id
        \/ \E r \in Loop : /\ phase[r] = "call"
                          /\ op[r].kind = "terminate"
                          /\ input[r][s.name] = "absent"
<1>1. TypeOK /\ SweepInv /\ [Next]_vars => [Ends]_vars
  <2> SUFFICES ASSUME LoopsOK, SweepInv, Next PROVE Ends
    BY DEF TypeOK, LoopsOK
  <2>1. CASE UNCHANGED sessions
    BY <2>1
  <2>2. ASSUME NEW r \in Loop, Apply(op[r]), phase[r] = "call" PROVE Ends
    <3>1. CASE op[r].kind \in {"pause", "resume"}
      <4>1. PICK flag : sessions' = Switched(op[r].name, flag)
        BY <2>2, <3>1 DEF Apply
      <4>2. ASSUME NEW s \in sessions PROVE \E t \in sessions' : t.id = s.id
        <5>1. CASE s.name = op[r].name
          <6>1. [id |-> s.id, name |-> op[r].name, paused |-> flag] \in sessions'
            BY <4>1, <5>1 DEF Switched
          <6>2. QED
            BY <6>1
        <5>2. CASE s.name # op[r].name
          BY <4>1, <5>2 DEF Switched
        <5>3. QED
          BY <5>1, <5>2
      <4>3. QED
        BY <4>2
    <3>2. CASE op[r].kind \in {"list", "create"}
      BY <2>2, <3>2 DEF Apply
    <3>3. CASE op[r].kind = "terminate"
      BY <2>2, <3>3 DEF Apply, SweepInv, SweepsAbsent, InCall
    <3>4. QED
      BY <2>2, <3>1, <3>2, <3>3 DEF Apply
  <2>3. ASSUME NEW r \in Loop, Step(r)
        PROVE  sessions' = sessions \/ (Apply(op[r]) /\ phase[r] = "call")
    BY <2>3
       DEF Step, Start, StartDisabled, Connect, ConnectFails, Ensure, EnsureFails,
           hostPrompter, hostFails, Call, CallInvalid, CallFails, reset, EntryStopped,
           EntryInvalid, EntryUnavailable, EntryLive, EntryNew, AtEntry, Terminate, Sweep,
           Publish
  <2>4. QED
    BY <2>1, <2>2, <2>3
       DEF Next, Panic, Reborn, Environment, Restart, WantChanges, SwitchSync, DaemonStops,
           DaemonStarts, inner
<1>2. QED
  BY <1>1, SweepInvariant, TypeCorrect, PTL DEF Spec, OnlyUndesiredTerminated

-----------------------------------------------------------------------------
(***************************************************************************)
(* Reconciles that run alone and Reconciles that meet.                     *)
(***************************************************************************)
\* How a step of loop r moves it, and what becomes of the connection.
LEMMA StepShape ==
  ASSUME LoopsOK, NEW r \in Loop, Step(r)
  PROVE  /\ \/ Start(r)
            \/ Publish(r)
            \/ met' = met /\ phase[r] # "idle" /\ phase'[r] # "idle"
            \/ UNCHANGED <<met, phase, cut, conn>>
         /\ \/ cut' = Loop /\ phase'[r] \notin {"host", "call"}
            \/ cut \ {r} \subseteq cut' /\ cut' \subseteq cut /\ (conn => conn')
         /\ phase'[r] \in {"host", "call"} /\ phase'[r] # phase[r] =>
              conn' /\ (r \notin cut' \/ phase[r] = "host")
<1> DEFINE Shape ==
      /\ \/ Start(r)
         \/ Publish(r)
         \/ met' = met /\ phase[r] # "idle" /\ phase'[r] # "idle"
         \/ UNCHANGED <<met, phase, cut, conn>>
      /\ \/ cut' = Loop /\ phase'[r] \notin {"host", "call"}
         \/ cut \ {r} \subseteq cut' /\ cut' \subseteq cut /\ (conn => conn')
      /\ phase'[r] \in {"host", "call"} /\ phase'[r] # phase[r] =>
           conn' /\ (r \notin cut' \/ phase[r] = "host")
<1>1. CASE \/ Start(r) \/ StartDisabled(r) \/ Sweep(r) \/ Publish(r)
  BY <1>1 DEF Start, StartDisabled, Sweep, Publish, LoopsOK
<1>2. CASE Connect(r) \/ ConnectFails(r)
  BY <1>2 DEF Connect, ConnectFails, ensureConnected, ensureFails, LoopsOK
<1>3. CASE Ensure(r) \/ hostPrompter(r) \/ CallFails(r)
  BY <1>3 DEF Ensure, hostPrompter, CallFails, ensureConnected, LoopsOK
<1>4. CASE EnsureFails(r) \/ hostFails(r) \/ Call(r) \/ CallInvalid(r) \/ reset(r)
  <2>1. phase[r] # "idle" /\ phase'[r] \in {"pass", "sweep"} /\ met' = met
    BY <1>4 DEF EnsureFails, hostFails, Call, CallInvalid, reset, Finish, LoopsOK
  <2>2. cut' = Loop \/ UNCHANGED <<cut, conn>>
    BY <1>4 DEF EnsureFails, ensureFails, hostFails, Call, CallInvalid, reset
  <2>3. QED
    BY <2>1, <2>2
<1>5. ASSUME NEW n \in Name,
             \/ EntryStopped(r, n) \/ EntryInvalid(r, n) \/ EntryUnavailable(r, n)
             \/ EntryLive(r, n) \/ EntryNew(r, n) \/ Terminate(r, n)
      PROVE  Shape
  <2>1. phase[r] \in {"pass", "sweep"} /\ UNCHANGED <<met, cut, conn>>
    BY <1>5 DEF EntryStopped, EntryInvalid, EntryUnavailable, EntryLive, EntryNew, AtEntry,
                Terminate
  <2>2. phase'[r] \in {"pass", "sweep", "ensure"}
    BY <1>5, <2>1 DEF EntryStopped, EntryInvalid, EntryUnavailable, EntryLive, EntryNew,
                      Terminate, Invoke, Skip, LoopsOK
  <2>3. QED
    BY <2>1, <2>2
<1>6. QED
  BY <1>1, <1>2, <1>3, <1>4, <1>5 DEF Step

LEMMA MeetStep ==
  ASSUME LoopsOK, ClientOK, MeetInv, NEW r \in Loop, Step(r)
  PROVE  MeetInv'
<1>1. \A q \in Loop : q # r => phase'[q] = phase[q]
  BY OthersFrame
<1>2. ASSUME NEW q \in Loop PROVE ConnectionHeld(q)'
  <2>1. CASE cut' = Loop
    BY <2>1 DEF ConnectionHeld
  <2>2. CASE cut \ {r} \subseteq cut' /\ (conn => conn') /\ phase'[q] = phase[q]
    <3>1. CASE q # r
      BY <2>2, <3>1 DEF MeetInv, ConnectionHeld
    <3>2. CASE q = r /\ q \notin cut
      BY <2>2, <3>2 DEF MeetInv, ConnectionHeld
    <3>3. CASE q = r /\ q \in cut /\ q \notin cut' /\ phase'[q] \in {"host", "call"}
      <4>1. Connect(r) \/ Ensure(r)
        BY <3>3
           DEF Step, Start, StartDisabled, ConnectFails, EnsureFails, ensureFails,
               hostPrompter, hostFails, Call, CallInvalid, CallFails, reset, EntryStopped,
               EntryInvalid, EntryUnavailable, EntryLive, EntryNew, AtEntry, Terminate,
               Sweep, Publish
      <4>2. QED
        BY <4>1 DEF Connect, Ensure, ensureConnected, ConnectionHeld
    <3>4. QED
      BY <3>1, <3>2, <3>3 DEF ConnectionHeld
  <2>3. QED
    BY <1>1, <2>1, <2>2, StepShape DEF ConnectionHeld
<1>3. ASSUME NEW q \in Loop PROVE Alone(q)'
  <2>1. CASE Start(r)
    <3>1. /\ phase' = [phase EXCEPT ![r] = "connect"] /\ phase[r] = "idle"
          /\ met' = IF Busy = {} THEN met ELSE met \cup Busy \cup {r}
      BY <2>1 DEF Start
    <3>2. CASE Busy = {}
      BY <3>1, <3>2 DEF Busy, MeetInv, Alone, LoopsOK
    <3>3. CASE Busy # {}
      BY <3>1, <3>3 DEF Busy, MeetInv, Alone, LoopsOK
    <3>4. QED
      BY <3>2, <3>3
  <2>2. CASE Publish(r)
    BY <2>2 DEF Publish, MeetInv, Alone, LoopsOK
  <2>3. CASE UNCHANGED <<met, phase, cut, conn>>
    BY <2>3 DEF MeetInv, Alone
  <2>4. CASE met' = met /\ phase[r] # "idle" /\ phase'[r] # "idle"
    <3>1. CASE q # r
      BY <1>1, <2>4, <3>1 DEF MeetInv, Alone
    <3>2. CASE q = r
      <4>1. r \notin met => (r \in cut' => phase'[r] \notin {"host", "call"})
        BY StepShape DEF MeetInv, Alone
      <4>2. QED
        BY <1>1, <2>4, <3>2, <4>1 DEF MeetInv, Alone
    <3>3. QED
      BY <3>1, <3>2
  <2>5. QED
    BY <2>1, <2>2, <2>3, <2>4, StepShape
<1>4. QED
  BY <1>2, <1>3 DEF MeetInv

LEMMA MeetInvariant == Spec => []MeetInv
<1>1. Init => MeetInv
  BY DEF Init, MeetInv, Alone, ConnectionHeld
<1>2. TypeOK /\ MeetInv /\ [Next]_vars => MeetInv'
  <2> SUFFICES ASSUME LoopsOK, ClientOK, MeetInv, [Next]_vars PROVE MeetInv'
    BY DEF TypeOK, LoopsOK, ClientOK
  <2>1. CASE \E r \in Loop : Step(r)
    BY <2>1, MeetStep
  <2>2. CASE Reborn
    BY <2>2 DEF Reborn, MeetInv, Alone, ConnectionHeld
  <2>3. CASE UNCHANGED inner
    BY <2>3 DEF inner, MeetInv, Alone, ConnectionHeld
  <2>4. CASE UNCHANGED vars
    BY <2>3, <2>4 DEF vars, inner
  <2>5. QED
    BY <2>1, <2>2, <2>3, <2>4
       DEF Next, Panic, Environment, Restart, WantChanges, SwitchSync, DaemonStops,
           DaemonStarts
<1>3. QED
  BY <1>1, <1>2, TypeCorrect, PTL DEF Spec

\* One loop meets nobody, so that what follows holds without exception while
\* only one reconciles.
THEOREM NobodyMet ==
  ASSUME NEW r, Loop = {r}
  PROVE  Spec => [](met = {})
<1>1. Init => met = {}
  BY DEF Init
<1>2. met = {} /\ TypeOK /\ [Next]_vars => (met = {})'
  <2> SUFFICES ASSUME met = {}, LoopsOK, [Next]_vars PROVE met' = {}
    BY DEF TypeOK, LoopsOK
  <2>1. CASE Start(r)
    BY <2>1 DEF Start, Busy
  <2>2. CASE Publish(r)
    BY <2>2 DEF Publish
  <2>3. CASE UNCHANGED met
    BY <2>3
  <2>4. CASE Reborn
    BY <2>4 DEF Reborn
  <2>5. CASE Step(r)
    BY <2>1, <2>2, <2>3, <2>5, StepShape
  <2>6. CASE UNCHANGED inner \/ UNCHANGED vars
    BY <2>3, <2>6 DEF inner, vars
  <2>7. QED
    BY <2>4, <2>5, <2>6
       DEF Next, Panic, Environment, Restart, WantChanges, SwitchSync, DaemonStops,
           DaemonStarts
<1>3. QED
  BY <1>1, <1>2, TypeCorrect, PTL DEF Spec

\* However many loops reconcile, a call goes through a nil client only in a
\* Reconcile that has met another, after its connection was closed.
THEOREM ClientThere == Spec => []NilNeverUsed
<1>1. MeetInv => NilNeverUsed
  BY DEF MeetInv, Alone, ConnectionHeld, NilNeverUsed
<1>2. QED
  BY <1>1, MeetInvariant, PTL

\* What a call that the daemon carries out does to the names in use.
LEMMA ApplyNames ==
  ASSUME ClientOK, LoopsOK, SweepInv, NEW r \in Loop, Apply(op[r]), phase[r] = "call",
         NEW n \in Name
  PROVE  /\ Named(sessions, n) = {} /\ ~ (op[r].kind = "create" /\ n = op[r].name) =>
              Named(sessions', n) = {}
         /\ Named(sessions, n) # {} /\ input[r][n] # "absent" => Named(sessions', n) # {}
         /\ op[r].kind = "create" /\ n = op[r].name => Named(sessions', n) # {}
<1>1. CASE op[r].kind = "list"
  BY <1>1 DEF Apply
<1>2. CASE op[r].kind \in {"pause", "resume"}
  <2>1. PICK flag : sessions' = Switched(op[r].name, flag)
    BY <1>2 DEF Apply
  <2>2. ASSUME NEW t \in sessions' PROVE \E s \in sessions : s.name = t.name
    BY <2>1 DEF Switched
  <2>3. ASSUME NEW s \in sessions PROVE \E t \in sessions' : t.name = s.name
    <3>1. CASE s.name = op[r].name
      <4>1. [id |-> s.id, name |-> op[r].name, paused |-> flag] \in sessions'
        BY <2>1, <3>1 DEF Switched
      <4>2. QED
        BY <3>1, <4>1
    <3>2. CASE s.name # op[r].name
      BY <2>1, <3>2 DEF Switched
    <3>3. QED
      BY <3>1, <3>2
  <2>4. QED
    BY <1>2, <2>2, <2>3 DEF Named
<1>3. CASE op[r].kind = "create"
  <2> DEFINE new == [id |-> serial + 1, name |-> op[r].name, paused |-> FALSE]
  <2>1. sessions' = sessions \cup {new} /\ new.name = op[r].name
    BY <1>3 DEF Apply
  <2> HIDE DEF new
  <2>2. QED
    BY <1>3, <2>1 DEF Named
<1>4. CASE op[r].kind = "terminate"
  <2>1. sessions' = {s \in sessions : s.id # op[r].id}
    BY <1>4 DEF Apply
  <2>2. \A s \in sessions : s.id = op[r].id => input[r][s.name] = "absent"
    BY <1>4 DEF SweepInv, SweepsAbsent, InCall
  <2>3. QED
    BY <1>4, <2>1, <2>2 DEF Named
<1>5. QED
  BY <1>1, <1>2, <1>3, <1>4 DEF Apply

\* A step that touches no session and moves the loop between two phases of
\* one call, or does nothing.
LEMMA AloneFrame ==
  ASSUME NEW r \in Loop, LoopsOK, CreatesMissing(r), KeepsDesired(r),
         UNCHANGED <<sessions, live, todo, op, out, input, avail>>,
         \/ phase'[r] = phase[r]
         \/ InCall(r) /\ phase'[r] \in {"host", "call"} /\ phase[r] # "reset"
  PROVE  CreatesMissing(r)' /\ KeepsDesired(r)'
BY DEF CreatesMissing, KeepsDesired, InCall

\* The loop goes on after a call.  The premises say what the call left.
LEMMA AloneFinish ==
  ASSUME NEW r \in Loop, LoopsOK, CreatesMissing(r), KeepsDesired(r), InCall(r),
         NEW ok \in BOOLEAN, Finish(r, ok),
         \A n \in todo'[r] : avail'[r] /\ Named(live'[r], n) = {} /\ op[r].kind # "terminate" =>
            Named(sessions', n) = {},
         \A n \in Name : input[r][n] # "absent" /\ Named(sessions, n) # {} =>
            Named(sessions', n) # {},
         ok /\ op[r].kind = "create" => Named(sessions', op[r].name) # {},
         \A s \in live'[r] : input[r][s.name] # "absent" => Named(sessions', s.name) # {}
  PROVE  CreatesMissing(r)' /\ KeepsDesired(r)'
<1>1. /\ phase'[r] \in {"pass", "sweep"}
      /\ phase'[r] = "pass" => op[r].kind # "terminate"
      /\ input' = input
  BY DEF Finish, LoopsOK
<1>2. CreatesMissing(r)'
  BY <1>1 DEF CreatesMissing, InCall
<1>3. ASSUME NEW n \in Name, out'[r][n] = "ready"
      PROVE  input[r][n] # "absent" /\ Named(sessions', n) # {}
  <2>1. CASE out[r][n] = "ready"
    BY <2>1 DEF KeepsDesired
  <2>2. CASE out[r][n] # "ready"
    <3>1. ok /\ op[r].kind = "create" /\ n = op[r].name
      <4>1. op[r].kind = "create"
        BY <1>3, <2>2 DEF Finish
      <4>2. op[r].name \in Name
        BY <4>1 DEF LoopsOK
      <4>3. out' = [out EXCEPT ![r][op[r].name] = IF ok THEN "ready" ELSE "create-error"]
        BY <4>1 DEF Finish
      <4>4. QED
        BY <1>3, <2>2, <4>1, <4>2, <4>3 DEF LoopsOK
    <3>2. QED
      BY <3>1 DEF KeepsDesired
  <2>3. QED
    BY <2>1, <2>2
<1>4. KeepsDesired(r)'
  BY <1>1, <1>3 DEF KeepsDesired, InCall
<1>5. QED
  BY <1>2, <1>4

LEMMA AloneEntry ==
  ASSUME NEW r \in Loop, LoopsOK, CreatesMissing(r), KeepsDesired(r), NEW n \in Name,
         \/ EntryStopped(r, n) \/ EntryInvalid(r, n) \/ EntryUnavailable(r, n)
         \/ EntryLive(r, n) \/ EntryNew(r, n)
  PROVE  CreatesMissing(r)' /\ KeepsDesired(r)'
<1>1. /\ phase[r] = "pass" /\ n \in todo[r] /\ todo'[r] = todo[r] \ {n}
      /\ UNCHANGED <<sessions, input, avail, live>>
      /\ input[r][n] # "absent"
  BY DEF EntryStopped, EntryInvalid, EntryUnavailable, EntryLive, EntryNew, AtEntry, LoopsOK
<1>2. \/ phase'[r] = "pass"
      \/ /\ phase'[r] = "ensure" /\ avail[r]
         /\ op'[r].name = n
         /\ op'[r].kind = "create" => Named(live[r], n) = {}
  BY <1>1 DEF EntryStopped, EntryInvalid, EntryUnavailable, EntryLive, EntryNew, Invoke,
              Skip, LoopsOK
<1>3. CreatesMissing(r)'
  BY <1>1, <1>2 DEF CreatesMissing, InCall
<1>4. ASSUME NEW m \in Name, out'[r][m] = "ready"
      PROVE  input[r][m] # "absent" /\ Named(sessions, m) # {}
  <2>1. CASE out[r][m] = "ready"
    BY <2>1 DEF KeepsDesired
  <2>2. CASE out[r][m] # "ready"
    <3>1. m = n /\ Named(live[r], n) # {}
      <4>1. ASSUME NEW status, Report(r, n, status) PROVE m = n /\ status = "ready"
        BY <1>4, <2>2, <4>1 DEF Report, LoopsOK
      <4>2. ~ Report(r, n, "paused") /\ ~ Report(r, n, "configuration-error")
            /\ ~ Report(r, n, "mutagen-daemon-unavailable") /\ out' # out
        BY <1>4, <2>2, <4>1
      <4>3. EntryLive(r, n)
        BY <4>2 DEF EntryStopped, EntryInvalid, EntryUnavailable, EntryNew
      <4>4. PICK s \in Named(live[r], n) : ReportLive(r, s)
        BY <4>3 DEF EntryLive
      <4>5. s.name = n /\ \E status : Report(r, n, status)
        BY <4>4 DEF ReportLive, Named
      <4>6. QED
        BY <4>1, <4>4, <4>5
    <3>2. QED
      BY <1>1, <3>1 DEF KeepsDesired, Named
  <2>3. QED
    BY <2>1, <2>2
<1>5. KeepsDesired(r)'
  BY <1>1, <1>2, <1>4 DEF KeepsDesired, InCall
<1>6. QED
  BY <1>3, <1>5

LEMMA AloneOwnStep ==
  ASSUME NEW r \in Loop, ClientOK, LoopsOK, SweepInv, Rests(r), CreatesMissing(r),
         KeepsDesired(r), Step(r)
  PROVE  CreatesMissing(r)' /\ KeepsDesired(r)'
<1>1. CASE Start(r)
  <2>1. /\ phase'[r] = "connect" /\ live[r] = {} /\ out[r] = Silent
        /\ ~ avail[r] /\ UNCHANGED <<live, out, avail>>
    BY <1>1 DEF Start, Rests, LoopsOK
  <2>2. QED
    BY <2>1 DEF CreatesMissing, KeepsDesired, InCall, Silent
<1>2. CASE StartDisabled(r)
  BY <1>2, AloneFrame DEF StartDisabled
<1>3. CASE Connect(r)
  <2>1. phase'[r] = "ensure" /\ op'[r].kind = "list"
    BY <1>3 DEF Connect, NoOp, LoopsOK
  <2>2. QED
    BY <1>3, <2>1 DEF Connect, CreatesMissing, KeepsDesired, InCall
<1>4. CASE ConnectFails(r)
  <2>1. phase'[r] = "pass" /\ ~ avail[r] /\ phase[r] = "connect"
    BY <1>4 DEF ConnectFails, CreatesMissing, LoopsOK
  <2>2. QED
    BY <1>4, <2>1 DEF ConnectFails, CreatesMissing, KeepsDesired, InCall
<1>5. CASE Ensure(r) \/ hostPrompter(r)
  <2>1. /\ UNCHANGED <<sessions, live, todo, op, out, input, avail>>
        /\ InCall(r) /\ phase'[r] \in {"host", "call"} /\ phase[r] # "reset"
    BY <1>5 DEF Ensure, hostPrompter, InCall, LoopsOK
  <2>2. QED
    BY <2>1, AloneFrame
<1>6. ASSUME NEW ok \in BOOLEAN, Finish(r, ok), op[r].kind = "list"
      PROVE  avail'[r] = ok
  BY <1>6 DEF Finish, LoopsOK
<1>7. ASSUME NEW ok \in BOOLEAN, Finish(r, ok), op[r].kind # "list"
      PROVE  todo'[r] = todo[r]
  BY <1>7 DEF Finish, LoopsOK
<1>8. CASE EnsureFails(r) \/ hostFails(r) \/ reset(r)
  <2>1. Finish(r, FALSE) /\ InCall(r) /\ UNCHANGED <<sessions, live>>
    BY <1>8 DEF EnsureFails, hostFails, reset, InCall
  <2>2. ASSUME NEW n \in todo'[r], avail'[r], Named(live'[r], n) = {},
               op[r].kind # "terminate"
        PROVE  Named(sessions', n) = {}
    BY <1>6, <1>7, <2>1, <2>2 DEF CreatesMissing
  <2>3. \A s \in live'[r] : input[r][s.name] # "absent" => Named(sessions', s.name) # {}
    BY <2>1 DEF KeepsDesired
  <2>4. QED
    BY <2>1, <2>2, <2>3, AloneFinish
<1>9. ASSUME Apply(op[r]), phase[r] = "call", op[r].kind \notin {"list", "terminate"},
             NEW n \in todo[r], Named(live[r], n) = {}
      PROVE  Named(sessions', n) = {}
  <2>1. n \in Name /\ Named(sessions, n) = {} /\ ~ (op[r].kind = "create" /\ n = op[r].name)
    BY <1>9 DEF CreatesMissing, InCall, LoopsOK
  <2>2. QED
    BY <1>9, <2>1, ApplyNames
<1>10. ASSUME Apply(op[r]), phase[r] = "call"
       PROVE  /\ \A n \in Name : input[r][n] # "absent" /\ Named(sessions, n) # {} =>
                   Named(sessions', n) # {}
              /\ op[r].kind = "create" => Named(sessions', op[r].name) # {}
              /\ \A s \in live[r] : input[r][s.name] # "absent" =>
                   Named(sessions', s.name) # {}
  <2>1. \A n \in Name : input[r][n] # "absent" /\ Named(sessions, n) # {} =>
          Named(sessions', n) # {}
    BY <1>10, ApplyNames
  <2>2. op[r].kind = "create" => Named(sessions', op[r].name) # {}
    BY <1>10, ApplyNames DEF LoopsOK
  <2>3. \A s \in live[r] : s.name \in Name
    BY DEF LoopsOK, Session
  <2>4. QED
    BY <2>1, <2>2, <2>3 DEF KeepsDesired
<1>11. CASE CallInvalid(r) \/ (Call(r) /\ op[r].kind # "list")
  <2>1. PICK ok \in BOOLEAN : Finish(r, ok) /\ (op[r].kind = "list" => ok = FALSE)
    BY <1>11 DEF CallInvalid, Call
  <2>2. InCall(r) /\ phase[r] = "call" /\ live' = live /\ Apply(op[r])
    BY <1>11 DEF CallInvalid, Call, InCall
  <2>3. ASSUME NEW n \in todo'[r], avail'[r], Named(live'[r], n) = {},
               op[r].kind # "terminate"
        PROVE  Named(sessions', n) = {}
    BY <1>6, <1>7, <1>9, <2>1, <2>2, <2>3
  <2>4. QED
    BY <1>10, <2>1, <2>2, <2>3, AloneFinish
<1>12. CASE Call(r) /\ op[r].kind = "list"
  <2>1. PICK m \in SUBSET sessions : Listing(m) /\ live' = [live EXCEPT ![r] = m]
    BY <1>12 DEF Call
  <2>2. live'[r] = m /\ sessions' = sessions /\ Finish(r, TRUE) /\ InCall(r)
    BY <1>12, <2>1 DEF Call, Apply, InCall, LoopsOK
  <2>3. \A n : Named(m, n) = {} => Named(sessions, n) = {}
    BY <2>1 DEF Listing, Named
  <2>4. \A s \in m : Named(sessions, s.name) # {}
    BY DEF Named
  <2>5. QED
    BY <1>12, <2>2, <2>3, <2>4, AloneFinish
<1>13. CASE CallFails(r)
  <2>1. /\ phase'[r] = "reset" /\ phase[r] = "call"
        /\ UNCHANGED <<input, avail, live, todo, op, out>>
    BY <1>13 DEF CallFails, LoopsOK
  <2>2. sessions' = sessions \/ Apply(op[r])
    BY <1>13 DEF CallFails
  <2>3. CreatesMissing(r)'
    BY <1>9, <2>1, <2>2 DEF CreatesMissing, InCall
  <2>4. KeepsDesired(r)'
    BY <1>10, <2>1, <2>2 DEF KeepsDesired, InCall
  <2>5. QED
    BY <2>3, <2>4
<1>14. ASSUME NEW n \in Name, Terminate(r, n) PROVE CreatesMissing(r)' /\ KeepsDesired(r)'
  <2>1. /\ phase'[r] = "ensure" /\ op'[r].kind = "terminate"
        /\ UNCHANGED <<sessions, input, avail, live, out>>
    BY <1>14 DEF Terminate, Invoke, LoopsOK
  <2>2. QED
    BY <2>1 DEF CreatesMissing, KeepsDesired, InCall
<1>15. CASE Sweep(r)
  BY <1>15 DEF Sweep, CreatesMissing, KeepsDesired, InCall, LoopsOK
<1>16. CASE Publish(r)
  BY <1>16 DEF Publish, CreatesMissing, KeepsDesired, InCall, LoopsOK, Silent
<1>17. QED
  BY <1>1, <1>2, <1>3, <1>4, <1>5, <1>8, <1>11, <1>12, <1>13, <1>14, <1>15, <1>16,
     AloneEntry DEF Step

LEMMA IdleAlone ==
  ASSUME NEW r \in Loop, Rests(r), phase[r] = "idle"
  PROVE  CreatesMissing(r) /\ KeepsDesired(r)
BY DEF Rests, CreatesMissing, KeepsDesired, InCall, Silent

LEMMA AloneStep ==
  ASSUME ClientOK, LoopsOK, LoopsOK', SweepInv, MeetInv, AloneInv, NEW r \in Loop, Step(r)
  PROVE  AloneInv'
<1>1. ASSUME NEW q \in Loop PROVE Rests(q)'
  <2>1. CASE q # r
    BY <2>1, OthersFrame DEF AloneInv, Rests
  <2>2. CASE q = r /\ phase'[r] = "idle"
    <3>1. CASE Publish(r)
      BY <2>2, <3>1 DEF Publish, Rests, LoopsOK
    <3>2. CASE phase[r] = "idle"
      <4>1. Start(r) \/ StartDisabled(r)
        BY <3>2 DEF Step, Connect, ConnectFails, Ensure, EnsureFails, hostPrompter,
                    hostFails, Call, CallInvalid, CallFails, reset, EntryStopped,
                    EntryInvalid, EntryUnavailable, EntryLive, EntryNew, AtEntry,
                    Terminate, Sweep, Publish
      <4>2. QED
        BY <2>2, <3>2, <4>1 DEF Start, StartDisabled, AloneInv, Rests, LoopsOK
    <3>3. CASE Start(r)
      BY <3>2, <3>3 DEF Start
    <3>4. QED
      BY <2>2, <3>1, <3>2, <3>3, StepShape
  <2>3. QED
    BY <2>1, <2>2 DEF Rests
<1>2. ASSUME NEW q \in Loop, q \notin met', phase'[q] # "idle"
      PROVE  CreatesMissing(q)' /\ KeepsDesired(q)'
  <2>1. q \notin met
    <3>1. ~ (Publish(r) /\ q = r)
      BY <1>2 DEF Publish, LoopsOK
    <3>2. met \ {r} \subseteq met' /\ (Publish(r) \/ met \subseteq met')
      BY StepShape DEF Start, Publish
    <3>3. QED
      BY <1>2, <3>1, <3>2
  <2>2. Rests(q) /\ CreatesMissing(q) /\ KeepsDesired(q)
    BY <2>1 DEF AloneInv
  <2>3. CASE q = r
    BY <2>2, <2>3, AloneOwnStep
  <2>4. CASE q # r
    <3>1. phase[q] # "idle" /\ phase[r] = "idle"
      BY <1>2, <2>1, <2>4, OthersFrame DEF MeetInv, Alone
    <3>2. Start(r) \/ StartDisabled(r)
      BY <3>1 DEF Step, Connect, ConnectFails, Ensure, EnsureFails, hostPrompter,
                  hostFails, Call, CallInvalid, CallFails, reset, EntryStopped,
                  EntryInvalid, EntryUnavailable, EntryLive, EntryNew, AtEntry,
                  Terminate, Sweep, Publish
    <3>3. ~ Start(r)
      BY <1>2, <3>1 DEF Start, Busy
    <3>4. QED
      BY <2>2, <3>2, <3>3, AloneFrame DEF StartDisabled
  <2>5. QED
    BY <2>3, <2>4
<1>3. ASSUME NEW q \in Loop, phase'[q] = "idle" PROVE CreatesMissing(q)' /\ KeepsDesired(q)'
  BY <1>1, <1>3 DEF Rests, CreatesMissing, KeepsDesired, InCall, Silent
<1>4. QED
  BY <1>1, <1>2, <1>3 DEF AloneInv

LEMMA AloneInvariant == Spec => []AloneInv
<1>1. Init => AloneInv
  BY IdleAlone DEF Init, AloneInv, Rests
<1>2. TypeOK /\ TypeOK' /\ SweepInv /\ MeetInv /\ AloneInv /\ [Next]_vars => AloneInv'
  <2> SUFFICES ASSUME ClientOK, LoopsOK, LoopsOK', SweepInv, MeetInv, AloneInv, [Next]_vars
               PROVE  AloneInv'
    BY DEF TypeOK, ClientOK, LoopsOK
  <2>1. CASE \E r \in Loop : Step(r)
    BY <2>1, AloneStep
  <2>2. CASE Reborn
    BY <2>2 DEF Reborn, AloneInv, Rests, CreatesMissing, KeepsDesired, InCall, Silent
  <2>3. CASE UNCHANGED inner
    BY <2>3 DEF inner, AloneInv, Rests, CreatesMissing, KeepsDesired, InCall
  <2>4. CASE UNCHANGED vars
    BY <2>3, <2>4 DEF vars, inner
  <2>5. QED
    BY <2>1, <2>2, <2>3, <2>4
       DEF Next, Panic, Environment, Restart, WantChanges, SwitchSync, DaemonStops,
           DaemonStarts
<1>3. QED
  BY <1>1, <1>2, TypeCorrect, SweepInvariant, MeetInvariant, PTL DEF Spec

\* However many loops reconcile, what a Reconcile that has met no other
\* reports as ready exists.
THEOREM ReadyExists == Spec => []ReadyIsReal
<1>1. AloneInv => ReadyIsReal
  BY DEF AloneInv, KeepsDesired, ReadyIsReal
<1>2. QED
  BY <1>1, AloneInvariant, PTL

\* However many loops reconcile, a second session of a name is made by no
\* Reconcile but one that has met another.
THEOREM SingleSessions == Spec => NeverDuplicates
<1> DEFINE Adds ==
      \A s \in sessions' :
        \/ \E t \in sessions : t.id = s.id
        \/ \A t \in sessions : t.name # s.name
        \/ \E r \in met : phase[r] = "call" /\ op[r].kind = "create"
<1>1. TypeOK /\ AloneInv /\ [Next]_vars => [Adds]_vars
  <2> SUFFICES ASSUME LoopsOK, AloneInv, Next PROVE Adds
    BY DEF TypeOK, LoopsOK
  <2>1. CASE UNCHANGED sessions
    BY <2>1
  <2>2. ASSUME NEW r \in Loop, Apply(op[r]), phase[r] = "call" PROVE Adds
    <3>1. CASE op[r].kind \in {"pause", "resume"}
      <4>1. PICK flag : sessions' = Switched(op[r].name, flag)
        BY <2>2, <3>1 DEF Apply
      <4>2. QED
        BY <4>1 DEF Switched
    <3>2. CASE op[r].kind = "create"
      <4> DEFINE new == [id |-> serial + 1, name |-> op[r].name, paused |-> FALSE]
      <4>1. sessions' = sessions \cup {new} /\ new.name = op[r].name
        BY <2>2, <3>2 DEF Apply
      <4>2. r \in met \/ Named(sessions, op[r].name) = {}
        BY <2>2, <3>2 DEF AloneInv, CreatesMissing
      <4> HIDE DEF new
      <4>3. QED
        BY <2>2, <3>2, <4>1, <4>2 DEF Named
    <3>3. CASE op[r].kind \in {"list", "terminate"}
      BY <2>2, <3>3 DEF Apply
    <3>4. QED
      BY <2>2, <3>1, <3>2, <3>3 DEF Apply
  <2>3. ASSUME NEW r \in Loop, Step(r)
        PROVE  sessions' = sessions \/ (Apply(op[r]) /\ phase[r] = "call")
    BY <2>3
       DEF Step, Start, StartDisabled, Connect, ConnectFails, Ensure, EnsureFails,
           hostPrompter, hostFails, Call, CallInvalid, CallFails, reset, EntryStopped,
           EntryInvalid, EntryUnavailable, EntryLive, EntryNew, AtEntry, Terminate, Sweep,
           Publish
  <2>4. QED
    BY <2>1, <2>2, <2>3
       DEF Next, Panic, Reborn, Environment, Restart, WantChanges, SwitchSync, DaemonStops,
           DaemonStarts, inner
<1>2. QED
  BY <1>1, AloneInvariant, TypeCorrect, PTL DEF Spec, NeverDuplicates

-----------------------------------------------------------------------------
(***************************************************************************)
(* What a Reconcile has done by the time it returns.                       *)
(***************************************************************************)
LEMMA ListedStep ==
  ASSUME LoopsOK, ListedOnce, NEW r \in Loop, Step(r)
  PROVE  ListedOnce'
<1>1. \A q \in Loop : q # r => live'[q] = live[q]
  BY OthersFrame
<1>2. live'[r] = live[r] \/ live'[r] = {} \/ \E m : Listing(m) /\ live'[r] = m
  BY DEF Step, Start, StartDisabled, Connect, ConnectFails, Ensure, EnsureFails,
         hostPrompter, hostFails, Call, CallInvalid, CallFails, reset, EntryStopped,
         EntryInvalid, EntryUnavailable, EntryLive, EntryNew, AtEntry, Terminate, Sweep,
         Publish, LoopsOK
<1>3. QED
  BY <1>1, <1>2 DEF ListedOnce, Listing

\* A call leaves the sessions of other names alone, and of every entry if it
\* is a Terminate.
LEMMA ApplyOthers ==
  ASSUME SweepInv, NEW r \in Loop, Apply(op[r]), phase[r] = "call", NEW n \in Name,
         op[r].kind = "list" \/ n # op[r].name \/ op[r].kind = "terminate",
         op[r].kind = "terminate" => input[r][n] # "absent"
  PROVE  Named(sessions', n) = Named(sessions, n)
<1>1. CASE op[r].kind = "list"
  BY <1>1 DEF Apply
<1>2. CASE op[r].kind \in {"pause", "resume"}
  <2>1. PICK flag : sessions' = Switched(op[r].name, flag)
    BY <1>2 DEF Apply
  <2>2. n # op[r].name
    BY <1>2
  <2>3. QED
    BY <2>1, <2>2 DEF Named, Switched
<1>3. CASE op[r].kind = "create"
  <2> DEFINE new == [id |-> serial + 1, name |-> op[r].name, paused |-> FALSE]
  <2>1. sessions' = sessions \cup {new} /\ new.name = op[r].name /\ n # op[r].name
    BY <1>3 DEF Apply
  <2> HIDE DEF new
  <2>2. QED
    BY <2>1 DEF Named
<1>4. CASE op[r].kind = "terminate"
  <2>1. sessions' = {s \in sessions : s.id # op[r].id}
    BY <1>4 DEF Apply
  <2>2. \A s \in sessions : s.id = op[r].id => input[r][s.name] = "absent"
    BY <1>4 DEF SweepInv, SweepsAbsent, InCall
  <2>3. QED
    BY <1>4, <2>1, <2>2 DEF Named
<1>5. QED
  BY <1>1, <1>2, <1>3, <1>4 DEF Apply

\* What a call does to the sessions of its own name.
LEMMA ApplyOwn ==
  ASSUME NEW r \in Loop, Apply(op[r])
  PROVE  /\ op[r].kind = "pause" => \A s \in Named(sessions', op[r].name) : s.paused
         /\ op[r].kind = "resume" => \A s \in Named(sessions', op[r].name) : ~ s.paused
         /\ op[r].kind = "create" /\ Named(sessions, op[r].name) = {} =>
              \A s \in Named(sessions', op[r].name) : ~ s.paused
<1>1. ASSUME NEW flag, sessions' = Switched(op[r].name, flag), NEW s \in Named(sessions', op[r].name)
      PROVE  s.paused = flag
  BY <1>1 DEF Switched, Named
<1>2. CASE op[r].kind = "pause"
  <2>1. sessions' = Switched(op[r].name, TRUE)
    BY <1>2 DEF Apply
  <2>2. QED
    BY <1>1, <1>2, <2>1
<1>3. CASE op[r].kind = "resume"
  <2>1. sessions' = Switched(op[r].name, FALSE)
    BY <1>3 DEF Apply
  <2>2. QED
    BY <1>1, <1>3, <2>1
<1>4. CASE op[r].kind = "create"
  <2> DEFINE new == [id |-> serial + 1, name |-> op[r].name, paused |-> FALSE]
  <2>1. sessions' = sessions \cup {new} /\ ~ new.paused
    BY <1>4 DEF Apply
  <2> HIDE DEF new
  <2>2. QED
    BY <1>4, <2>1 DEF Named
<1>5. QED
  BY <1>2, <1>3, <1>4

\* A session that is gone does not come back.
LEMMA GoneStays ==
  ASSUME ClientOK, ClientOK', Traced, NEW s, s.id \in Nat, s.id <= serial, Gone(s)
  PROVE  Gone(s)'
<1>1. SUFFICES ASSUME NEW t \in sessions', t.id = s.id PROVE FALSE
  BY DEF Gone
<1>2. ~ t.id > serial
  BY <1>1 DEF ClientOK
<1>3. PICK u \in sessions : u.id = t.id
  BY <1>2 DEF Traced
<1>4. QED
  BY <1>1, <1>3 DEF Gone

LEMMA CarriedStays ==
  ASSUME NEW r \in Loop, NEW n \in Name, Carried(r, n), input'[r] = input[r],
         out'[r][n] = out[r][n], Named(sessions', n) = Named(sessions, n)
  PROVE  Carried(r, n)'
BY DEF Carried

LEMMA CallName ==
  ASSUME LoopsOK, NEW r \in Loop, op[r].kind # "list"
  PROVE  op[r].name \in Name
BY DEF LoopsOK

\* The loop goes on after a call that worked or had nothing to select.
LEMMA CarryFinish ==
  ASSUME NEW r \in Loop, LoopsOK, CarriesOut(r), InCall(r), op[r].kind # "list",
         NEW ok \in BOOLEAN, Finish(r, ok), live' = live,
         \A n \in desiredNames(r) : op[r].kind = "terminate" \/ n # op[r].name =>
           Named(sessions', n) = Named(sessions, n),
         op[r].kind # "terminate" => Carried(r, op[r].name)',
         \A s \in live[r] : Gone(s) => Gone(s)',
         op[r].kind = "terminate" => \A s \in live[r] : s.id = op[r].id => Gone(s)'
  PROVE  CarriesOut(r)'
<1>1. /\ phase'[r] = IF op[r].kind = "terminate" THEN "sweep" ELSE "pass"
      /\ avail'[r] = avail[r] /\ todo'[r] = todo[r] /\ input' = input /\ op' = op
  BY DEF Finish, LoopsOK
<1>2. \A n \in Name : op[r].kind # "create" \/ n # op[r].name => out'[r][n] = out[r][n]
  BY DEF Finish, LoopsOK
<1>3. avail[r] /\ CallFits(r)
  BY DEF CarriesOut
<1>4. ASSUME NEW n \in Name, input'[r][n] = "absent" PROVE out'[r][n] = ""
  <2>1. out[r][n] = ""
    BY <1>1, <1>4 DEF CarriesOut
  <2>2. op[r].kind # "create" \/ n # op[r].name
    BY <1>1, <1>3, <1>4 DEF CallFits
  <2>3. QED
    BY <1>2, <2>1, <2>2
<1>5. desiredNames(r)' = desiredNames(r) /\ desiredNames(r) \subseteq Name
  BY <1>1 DEF desiredNames
<1>6. ASSUME op[r].kind # "terminate", NEW n \in desiredNames(r) \ todo[r]
      PROVE  Carried(r, n)'
  <2>1. CASE n = op[r].name
    BY <1>1, <1>6, <2>1 DEF Carried
  <2>2. CASE n # op[r].name
    <3>1. Carried(r, n)
      BY <1>6, <2>2 DEF CarriesOut
    <3>2. Named(sessions', n) = Named(sessions, n) /\ out'[r][n] = out[r][n]
      BY <1>2, <1>5, <1>6, <2>2
    <3>3. QED
      BY <1>1, <1>5, <1>6, <3>1, <3>2, CarriedStays
  <2>3. QED
    BY <2>1, <2>2
<1>7. ASSUME op[r].kind = "terminate", NEW n \in desiredNames(r)
      PROVE  Carried(r, n)'
  <2>1. Carried(r, n)
    BY <1>7 DEF CarriesOut
  <2>2. Named(sessions', n) = Named(sessions, n) /\ out'[r][n] = out[r][n]
    BY <1>2, <1>5, <1>7
  <2>3. QED
    BY <1>1, <1>5, <1>7, <2>1, <2>2, CarriedStays
<1>8. ASSUME op[r].kind = "terminate", NEW s \in live[r], input[r][s.name] = "absent"
      PROVE  s.name \in todo[r] \/ Gone(s)'
  BY <1>8 DEF CarriesOut
<1>9. ~ InCall(r)' /\ phase'[r] # "reset"
  BY <1>1 DEF InCall
<1>10. phase'[r] = "pass" => \A n \in desiredNames(r)' \ todo'[r] : Carried(r, n)'
  BY <1>1, <1>5, <1>6
<1>11. phase'[r] = "sweep" =>
         /\ \A n \in desiredNames(r)' : Carried(r, n)'
         /\ \A s \in live'[r] : input'[r][s.name] = "absent" => s.name \in todo'[r] \/ Gone(s)'
  BY <1>1, <1>5, <1>7, <1>8
<1>12. QED
  BY <1>1, <1>3, <1>4, <1>9, <1>10, <1>11 DEF CarriesOut

\* Two phases of one call, or nothing: no session and no entry is touched.
LEMMA CarryFrame ==
  ASSUME NEW r \in Loop, LoopsOK, CarriesOut(r),
         UNCHANGED <<sessions, live, todo, op, out, input, avail>>,
         \/ phase'[r] = phase[r]
         \/ InCall(r) /\ phase'[r] \in {"host", "call"} /\ phase[r] # "reset"
         \/ InCall(r) /\ phase'[r] = "reset" /\ Unmatched(r)
  PROVE  CarriesOut(r)'
<1>1. InCall(r)' = InCall(r) /\ (phase'[r] \in {"pass", "sweep"} => phase'[r] = phase[r])
  BY DEF InCall
<1>2. /\ \A n : Carried(r, n)' = Carried(r, n)
      /\ \A s : Gone(s)' = Gone(s)
      /\ CallFits(r)' = CallFits(r)
      /\ Unmatched(r)' = Unmatched(r)
      /\ desiredNames(r)' = desiredNames(r)
  BY DEF Carried, Gone, CallFits, Unmatched, desiredNames
<1>3. QED
  BY <1>1, <1>2 DEF CarriesOut, InCall

\* The entry n has its turn.
LEMMA CarryEntry ==
  ASSUME NEW r \in Loop, LoopsOK, CarriesOut(r), NEW n \in Name,
         \/ EntryStopped(r, n) \/ EntryInvalid(r, n) \/ EntryUnavailable(r, n)
         \/ EntryLive(r, n) \/ EntryNew(r, n)
  PROVE  CarriesOut(r)'
<1>1. /\ phase[r] = "pass" /\ n \in todo[r] /\ todo'[r] = todo[r] \ {n}
      /\ UNCHANGED <<sessions, input, avail, live>>
      /\ input[r][n] # "absent"
  BY DEF EntryStopped, EntryInvalid, EntryUnavailable, EntryLive, EntryNew, AtEntry, LoopsOK
<1>2. avail[r] /\ ~ InCall(r)
  BY <1>1 DEF CarriesOut, InCall
<1>3. \/ /\ phase'[r] = "pass"
         /\ EntryInvalid(r, n)
      \/ /\ phase'[r] = "ensure" /\ op'[r].name = n
         /\ \/ EntryStopped(r, n) /\ op'[r].kind = "pause"
            \/ EntryLive(r, n) /\ op'[r].kind = "resume"
            \/ EntryNew(r, n) /\ op'[r].kind = "create"
  BY <1>1, <1>2 DEF EntryStopped, EntryInvalid, EntryUnavailable, EntryLive, EntryNew, Invoke,
              Skip, LoopsOK
<1>4. \A m \in Name : m # n => out'[r][m] = out[r][m]
  <2>1. out' = out \/ \E status : Report(r, n, status)
    <3>1. CASE EntryLive(r, n)
      BY <3>1 DEF EntryLive, ReportLive, Named
    <3>2. QED
      BY <3>1 DEF EntryStopped, EntryInvalid, EntryUnavailable, EntryNew
  <2>2. QED
    BY <2>1 DEF Report, LoopsOK
<1>5. \A m \in Name : input'[r][m] = "absent" => out'[r][m] = ""
  BY <1>1, <1>4 DEF CarriesOut
<1>6. desiredNames(r)' = desiredNames(r) /\ desiredNames(r) \subseteq Name
  BY <1>1 DEF desiredNames
<1>7. ASSUME NEW m \in desiredNames(r) \ todo'[r], m # n PROVE Carried(r, m)'
  <2>1. Carried(r, m)
    BY <1>1, <1>2, <1>7 DEF CarriesOut
  <2>2. QED
    BY <1>1, <1>4, <1>6, <1>7, <2>1, CarriedStays
<1>8. EntryInvalid(r, n) => Carried(r, n)'
  <2>1. SUFFICES ASSUME EntryInvalid(r, n) PROVE Carried(r, n)'
    OBVIOUS
  <2>2. input'[r][n] = "running" /\ out'[r][n] = "configuration-error"
    BY <1>1, <2>1 DEF EntryInvalid, Report, LoopsOK
  <2>3. QED
    BY <2>2 DEF Carried
<1>9. phase'[r] = "ensure" => CallFits(r)'
  <2>1. CASE EntryStopped(r, n) /\ op'[r].kind = "pause" /\ op'[r].name = n
    BY <1>1, <2>1 DEF EntryStopped, Report, CallFits, LoopsOK
  <2>2. CASE EntryLive(r, n) /\ op'[r].kind = "resume" /\ op'[r].name = n
    <3>1. PICK s \in Named(live[r], n) : ReportLive(r, s)
      BY <2>2 DEF EntryLive
    <3>2. PICK status \in mutagenStatus(s) : Report(r, n, status)
      BY <3>1 DEF ReportLive, Named
    <3>3. status # ""
      BY <3>2 DEF mutagenStatus
    <3>4. out'[r][n] # ""
      BY <3>2, <3>3 DEF Report, LoopsOK
    <3>5. QED
      BY <1>1, <2>2, <3>1, <3>4 DEF EntryLive, CallFits
  <2>3. CASE EntryNew(r, n) /\ op'[r].kind = "create" /\ op'[r].name = n
    BY <1>1, <2>3 DEF EntryNew, CallFits
  <2>4. QED
    BY <1>3, <2>1, <2>2, <2>3 DEF EntryInvalid
<1>10. \A m \in desiredNames(r)' \ todo'[r] :
         Carried(r, m)' \/ (InCall(r)' /\ m = op'[r].name)
  <2>1. InCall(r)' <=> phase'[r] = "ensure"
    BY <1>3 DEF InCall
  <2>2. QED
    BY <1>3, <1>6, <1>7, <1>8, <2>1
<1>11. QED
  BY <1>1, <1>2, <1>3, <1>5, <1>9, <1>10 DEF CarriesOut, InCall

\* The call of loop r is carried out.
LEMMA CarryCall ==
  ASSUME NEW r \in Loop, ClientOK, ClientOK', LoopsOK, SweepInv, CreatesMissing(r),
         KeepsDesired(r), CarriesOut(r), Call(r), op[r].kind # "list"
  PROVE  CarriesOut(r)'
<1>1. /\ phase[r] = "call" /\ InCall(r) /\ Apply(op[r]) /\ Finish(r, TRUE)
      /\ live' = live /\ input' = input /\ op' = op
  BY DEF Call, InCall, Finish
<1>2. op[r].name \in Name /\ CallFits(r)
  BY <1>1, CallName DEF CarriesOut
<1>3. ASSUME NEW n \in desiredNames(r), op[r].kind = "terminate" \/ n # op[r].name
      PROVE  Named(sessions', n) = Named(sessions, n)
  BY <1>1, <1>3, ApplyOthers DEF desiredNames
<1>4. ASSUME op[r].kind # "terminate" PROVE Carried(r, op[r].name)'
  <2> DEFINE n == op[r].name
  <2>1. CASE op[r].kind = "pause"
    <3>1. \A s \in Named(sessions', n) : s.paused
      BY <1>1, <2>1, ApplyOwn
    <3>2. out'[r][n] = "paused" /\ input'[r][n] = "stopped" /\ op'[r].name = n
      BY <1>1, <1>2, <2>1 DEF CallFits, Finish
    <3> HIDE DEF n
    <3>3. QED
      BY <3>1, <3>2 DEF Carried
  <2>2. CASE op[r].kind = "resume"
    <3>1. \A s \in Named(sessions', n) : ~ s.paused
      BY <1>1, <2>2, ApplyOwn
    <3>2. out'[r][n] # "" /\ input'[r][n] = "running" /\ op'[r].name = n
      BY <1>1, <1>2, <2>2 DEF CallFits, Finish
    <3>3. Named(sessions, n) # {}
      BY <1>2, <2>2, <3>2, <1>1 DEF CallFits, KeepsDesired, Named
    <3>4. Named(sessions', n) # {}
      BY <1>1, <1>2, <3>2, <3>3, ApplyNames
    <3> HIDE DEF n
    <3>5. QED
      BY <3>1, <3>2, <3>4 DEF Carried
  <2>3. CASE op[r].kind = "create"
    <3>1. Named(sessions, n) = {}
      BY <1>1, <2>3 DEF CreatesMissing
    <3>2. \A s \in Named(sessions', n) : ~ s.paused
      BY <1>1, <2>3, <3>1, ApplyOwn
    <3>3. Named(sessions', n) # {}
      BY <1>1, <1>2, <2>3, ApplyNames
    <3>4. out'[r][n] = "ready" /\ input'[r][n] = "running" /\ op'[r].name = n
      BY <1>1, <1>2, <2>3 DEF CallFits, Finish, LoopsOK
    <3> HIDE DEF n
    <3>5. QED
      BY <3>2, <3>3, <3>4 DEF Carried
  <2>4. QED
    BY <1>1, <1>4, <2>1, <2>2, <2>3 DEF Apply
<1>5. Traced
  BY <1>1, ApplyIds DEF SweepInv
<1>6. \A s \in live[r] : s.id \in Nat /\ s.id <= serial
  BY DEF LoopsOK, Session, SweepInv, SweepsAbsent
<1>7. \A s \in live[r] : Gone(s) => Gone(s)'
  BY <1>5, <1>6, GoneStays
<1>8. op[r].kind = "terminate" => \A s \in live[r] : s.id = op[r].id => Gone(s)'
  BY <1>1 DEF Apply, Gone
<1>9. QED
  BY <1>1, <1>3, <1>4, <1>7, <1>8, CarryFinish

\* A call that selected nothing is over.
LEMMA CarryReset ==
  ASSUME NEW r \in Loop, LoopsOK, KeepsDesired(r), CarriesOut(r), reset(r)
  PROVE  CarriesOut(r)'
<1>1. /\ Unmatched(r) /\ InCall(r) /\ Finish(r, FALSE)
      /\ UNCHANGED <<sessions, live>> /\ input' = input /\ op' = op
  BY DEF reset, CarriesOut, InCall, Finish
<1>2. op[r].kind \in {"pause", "resume", "terminate"}
  BY <1>1 DEF Unmatched
<1>3. CallFits(r)
  BY <1>1 DEF CarriesOut
<1>4. ASSUME op[r].kind # "terminate" PROVE Carried(r, op[r].name)'
  <2>1. Named(sessions', op[r].name) = {}
    BY <1>1, <1>4 DEF Unmatched
  <2>2. op[r].kind = "pause"
    <3>1. op[r].kind # "resume"
      <4>1. SUFFICES ASSUME op[r].kind = "resume" PROVE FALSE
        OBVIOUS
      <4>2. Named(live[r], op[r].name) # {} /\ input[r][op[r].name] = "running"
        BY <1>3, <4>1, Zenon DEF CallFits
      <4>3. PICK s \in live[r] : s.name = op[r].name
        BY <4>2 DEF Named
      <4>4. Named(sessions, op[r].name) # {}
        BY <4>2, <4>3 DEF KeepsDesired
      <4>5. Named(sessions, op[r].name) = {}
        BY <1>1, <2>1
      <4>6. QED
        BY <4>4, <4>5
    <3>2. QED
      BY <1>2, <1>4, <3>1
  <2>3. input'[r][op[r].name] = "stopped" /\ out'[r][op[r].name] = "paused"
    BY <1>1, <1>3, <2>2 DEF CallFits, Finish
  <2>4. QED
    BY <1>1, <2>1, <2>3 DEF Carried
<1>5. op[r].kind = "terminate" => \A s \in live[r] : s.id = op[r].id => Gone(s)'
  BY <1>1 DEF Unmatched, Gone
<1>6. \A s \in live[r] : Gone(s) => Gone(s)'
  BY <1>1 DEF Gone
<1>7. QED
  BY <1>1, <1>2, <1>4, <1>5, <1>6, CarryFinish

LEMMA CarryOwnStep ==
  ASSUME NEW r \in Loop, ClientOK, ClientOK', LoopsOK, SweepInv, ListedOnce,
         phase[r] # "idle", CreatesMissing(r), KeepsDesired(r), CarriesOut(r), Step(r),
         r \notin failed', phase'[r] # "idle"
  PROVE  CarriesOut(r)'
<1>1. CASE Start(r) \/ StartDisabled(r) \/ Publish(r)
  BY <1>1 DEF Start, StartDisabled, Publish, LoopsOK
<1>2. CASE ConnectFails(r) \/ EnsureFails(r) \/ hostFails(r) \/ CallInvalid(r)
  BY <1>2 DEF ConnectFails, EnsureFails, hostFails, CallInvalid
<1>3. CASE Connect(r)
  <2>1. phase'[r] = "ensure" /\ op'[r].kind = "list" /\ out' = out /\ input' = input
    BY <1>3 DEF Connect, NoOp, LoopsOK
  <2>2. QED
    BY <2>1 DEF CarriesOut, CallFits, InCall
<1>4. CASE Ensure(r) \/ hostPrompter(r)
  <2>1. /\ UNCHANGED <<sessions, live, todo, op, out, input, avail>>
        /\ InCall(r) /\ phase'[r] \in {"host", "call"} /\ phase[r] # "reset"
    BY <1>4 DEF Ensure, hostPrompter, InCall, LoopsOK
  <2>2. QED
    BY <2>1, CarryFrame
<1>5. CASE CallFails(r)
  <2>1. Unmatched(r)
    BY <1>5 DEF CallFails
  <2>2. /\ UNCHANGED <<sessions, live, todo, op, out, input, avail>>
        /\ InCall(r) /\ phase'[r] = "reset"
    BY <1>5, <2>1 DEF CallFails, InCall, LoopsOK
  <2>3. QED
    BY <2>1, <2>2, CarryFrame
<1>6. CASE Call(r) /\ op[r].kind = "list"
  <2>1. /\ phase'[r] = "pass" /\ avail'[r] /\ todo'[r] = desiredNames(r)
        /\ out' = out /\ input' = input
    BY <1>6 DEF Call, Finish, LoopsOK
  <2>2. desiredNames(r)' = desiredNames(r)
    BY <2>1 DEF desiredNames
  <2>3. QED
    BY <2>1, <2>2 DEF CarriesOut, InCall
<1>7. ASSUME NEW n \in Name, Terminate(r, n) PROVE CarriesOut(r)'
  <2>1. PICK s \in Named(live[r], n) : Invoke(r, "terminate", n, s.id)
    BY <1>7 DEF Terminate
  <2>2. /\ phase[r] = "sweep" /\ phase'[r] = "ensure"
        /\ op'[r].kind = "terminate" /\ op'[r].id = s.id
        /\ todo'[r] = todo[r] \ {n}
        /\ UNCHANGED <<sessions, input, avail, live, out>>
    BY <1>7, <2>1 DEF Terminate, Invoke, LoopsOK
  <2>3. \A t \in live[r] : t.name = n => t.id = s.id
    BY <2>1 DEF ListedOnce, Named
  <2>4. /\ \A m : Carried(r, m)' = Carried(r, m)
        /\ \A t : Gone(t)' = Gone(t)
        /\ desiredNames(r)' = desiredNames(r)
    BY <2>2 DEF Carried, Gone, desiredNames
  <2>5. /\ \A m \in desiredNames(r) : Carried(r, m)
        /\ \A t \in live[r] : input[r][t.name] = "absent" => t.name \in todo[r] \/ Gone(t)
    BY <2>2 DEF CarriesOut, InCall
  <2>6. avail[r] /\ \A m \in Name : input[r][m] = "absent" => out[r][m] = ""
    BY <2>2 DEF CarriesOut
  <2>7. InCall(r)' /\ CallFits(r)'
    BY <2>2 DEF InCall, CallFits
  <2>8. QED
    BY <2>2, <2>3, <2>4, <2>5, <2>6, <2>7 DEF CarriesOut
<1>8. CASE Sweep(r)
  <2>1. avail[r]
    BY <1>8 DEF Sweep, CarriesOut
  <2>2. /\ phase[r] = "pass" /\ todo[r] = {} /\ phase'[r] = "sweep"
        /\ todo'[r] = {s.name : s \in live[r]} \ desiredNames(r)
        /\ UNCHANGED <<sessions, input, avail, live, out>>
    BY <1>8, <2>1 DEF Sweep, LoopsOK
  <2>3. /\ \A m : Carried(r, m)' = Carried(r, m)
        /\ desiredNames(r)' = desiredNames(r)
    BY <2>2 DEF Carried, desiredNames
  <2>4. \A m \in desiredNames(r) : Carried(r, m)
    BY <2>2 DEF CarriesOut, InCall
  <2>5. \A m \in Name : input[r][m] = "absent" => out[r][m] = ""
    BY DEF CarriesOut
  <2>6. \A s \in live[r] : input[r][s.name] = "absent" => s.name \in todo'[r]
    BY <2>2 DEF desiredNames
  <2>7. QED
    BY <2>1, <2>2, <2>3, <2>4, <2>5, <2>6 DEF CarriesOut, InCall
<1>9. QED
  BY <1>1, <1>2, <1>3, <1>4, <1>5, <1>6, <1>7, <1>8, CarryCall, CarryReset, CarryEntry
     DEF Step

\* A loop beside one that is alone does nothing.
LEMMA BesideAlone ==
  ASSUME LoopsOK, MeetInv, NEW r \in Loop, Step(r), NEW q \in Loop, q # r, q \notin met',
         phase'[q] # "idle"
  PROVE  StartDisabled(r) /\ q \notin met
<1>1. q \notin met
  <2>1. Publish(r) => met \ {r} \subseteq met'
    BY DEF Publish
  <2>2. Start(r) => met \subseteq met'
    BY DEF Start
  <2>3. QED
    BY <2>1, <2>2, StepShape
<1>2. phase[q] # "idle" /\ phase[r] = "idle"
  BY <1>1, OthersFrame DEF MeetInv, Alone
<1>3. Start(r) \/ StartDisabled(r)
  BY <1>2 DEF Step, Connect, ConnectFails, Ensure, EnsureFails, hostPrompter,
              hostFails, Call, CallInvalid, CallFails, reset, EntryStopped,
              EntryInvalid, EntryUnavailable, EntryLive, EntryNew, AtEntry,
              Terminate, Sweep, Publish
<1>4. ~ Start(r)
  BY <1>2 DEF Start, Busy
<1>5. QED
  BY <1>1, <1>3, <1>4

\* A loop that has failed has not stopped failing before it returns.
LEMMA FailedStays ==
  ASSUME NEW r \in Loop, Step(r), ~ Publish(r)
  PROVE  failed \subseteq failed'
BY DEF Step, Start, StartDisabled, Connect, ConnectFails, Ensure, EnsureFails,
       hostPrompter, hostFails, Call, CallInvalid, CallFails, reset, EntryStopped,
       EntryInvalid, EntryUnavailable, EntryLive, EntryNew, AtEntry, Terminate, Sweep, Finish

LEMMA CarryStep ==
  ASSUME ClientOK, ClientOK', LoopsOK, SweepInv, MeetInv, AloneInv, CarryInv,
         NEW r \in Loop, Step(r)
  PROVE  CarryInv'
<1>1. ListedOnce'
  BY ListedStep DEF CarryInv
<1>2. ASSUME NEW q \in Loop, q \notin met', q \notin failed', phase'[q] # "idle"
      PROVE  CarriesOut(q)'
  <2>1. CASE q # r
    <3>1. StartDisabled(r) /\ q \notin met
      BY <1>2, <2>1, BesideAlone
    <3>2. UNCHANGED <<sessions, live, todo, op, out, input, avail, phase, failed>>
      BY <3>1 DEF StartDisabled
    <3>3. CarriesOut(q)
      BY <1>2, <3>1, <3>2 DEF CarryInv
    <3>4. QED
      BY <3>2, <3>3, CarryFrame
  <2>2. CASE q = r /\ Start(r)
    <3>1. phase'[r] = "connect" /\ out[r] = Silent /\ out' = out
      BY <2>2 DEF Start, AloneInv, Rests, LoopsOK
    <3>2. \A n \in Name : out'[r][n] = ""
      BY <3>1 DEF Silent
    <3>3. QED
      BY <2>2, <3>1, <3>2 DEF CarriesOut, InCall
  <2>3. CASE q = r /\ ~ Start(r)
    <3>1. ~ Publish(r)
      BY <1>2, <2>3 DEF Publish, LoopsOK
    <3>2. met' = met /\ phase[r] # "idle"
      BY <1>2, <2>3, <3>1, StepShape
    <3>3. r \notin failed
      BY <1>2, <2>3, <3>1, FailedStays
    <3>4. CarriesOut(r) /\ ListedOnce
      BY <1>2, <2>3, <3>2, <3>3 DEF CarryInv
    <3>5. CreatesMissing(r) /\ KeepsDesired(r)
      BY <1>2, <2>3, <3>2 DEF AloneInv
    <3>6. QED
      BY <1>2, <2>3, <3>2, <3>4, <3>5, CarryOwnStep
  <2>4. QED
    BY <2>1, <2>2, <2>3
<1>3. QED
  BY <1>1, <1>2 DEF CarryInv

LEMMA CarryInvariant == Spec => []CarryInv
<1>1. Init => CarryInv
  BY DEF Init, CarryInv, ListedOnce
<1>2. TypeOK /\ TypeOK' /\ SweepInv /\ MeetInv /\ AloneInv /\ CarryInv /\ [Next]_vars => CarryInv'
  <2> SUFFICES ASSUME ClientOK, ClientOK', LoopsOK, SweepInv, MeetInv, AloneInv, CarryInv,
                      [Next]_vars
               PROVE  CarryInv'
    BY DEF TypeOK, ClientOK, LoopsOK
  <2>1. CASE \E r \in Loop : Step(r)
    BY <2>1, CarryStep
  <2>2. CASE Reborn
    BY <2>2 DEF Reborn, CarryInv, ListedOnce
  <2>3. CASE UNCHANGED inner
    <3>1. ListedOnce'
      BY <2>3 DEF inner, CarryInv, ListedOnce
    <3>2. ASSUME NEW r \in Loop, r \notin met', r \notin failed', phase'[r] # "idle"
          PROVE  CarriesOut(r)'
      <4>1. CarriesOut(r)
        BY <2>3, <3>2 DEF inner, CarryInv
      <4>2. QED
        BY <2>3, <4>1, CarryFrame DEF inner
    <3>3. QED
      BY <3>1, <3>2 DEF CarryInv
  <2>4. CASE UNCHANGED vars
    BY <2>3, <2>4 DEF vars, inner
  <2>5. QED
    BY <2>1, <2>2, <2>3, <2>4
       DEF Next, Panic, Environment, Restart, WantChanges, SwitchSync, DaemonStops,
           DaemonStarts
<1>3. QED
  BY <1>1, <1>2, TypeCorrect, SweepInvariant, MeetInvariant, AloneInvariant, PTL DEF Spec

\* A Reconcile that has met no other and whose calls have worked does all that
\* its entries ask for, however many entries, loops and sessions there are.
THEOREM AllCarriedOut == Spec => []EntriesCarriedOut
<1>1. TypeOK /\ CarryInv => EntriesCarriedOut
  <2> SUFFICES ASSUME TypeOK, CarryInv, NEW r \in Loop, r \notin met, r \notin failed,
                      phase[r] = "sweep", todo[r] = {}
               PROVE  /\ \A n \in Name : Carried(r, n) /\ (input[r][n] = "absent" => out[r][n] = "")
                      /\ \A s \in live[r] : input[r][s.name] = "absent" => Gone(s)
    BY DEF EntriesCarriedOut
  <2>1. CarriesOut(r) /\ ~ InCall(r)
    BY DEF CarryInv, InCall
  <2>2. \A n \in Name : n \in desiredNames(r) \/ input[r][n] = "absent"
    BY DEF desiredNames
  <2>3. \A n \in Name : input[r][n] = "absent" => Carried(r, n)
    BY DEF Carried
  <2>4. QED
    BY <2>1, <2>2, <2>3 DEF CarriesOut
<1>2. QED
  BY <1>1, TypeCorrect, CarryInvariant, PTL
=============================================================================
