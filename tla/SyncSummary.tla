---------------------------- MODULE SyncSummary ----------------------------
(***************************************************************************)
(* What the container table says of the sync sessions: applySyncSummaries  *)
(* of src/internal/app/service.go, over the report of SyncController.      *)
(*                                                                         *)
(* reconcile stores the report and the summaries under one lock, and the   *)
(* rows with rules that sync are those of the names in the report, so a    *)
(* summary is a function of the report.                                    *)
(***************************************************************************)
EXTENDS SyncController, Sequences

CONSTANT Order  \* the names, as Reconcile comes to them

ASSUME SummaryAssumption ==
  /\ Order \in Seq(Name)
  /\ \A n \in Name : \E k \in 1..Len(Order) : Order[k] = n

\* The statuses that come with an error.
Failed == {"configuration-error", "mutagen-daemon-unavailable", "create-error"}

\* Mutant: the status of the last session is the summary's.
AddLast(summary, status) ==
  IF status \in Failed
    THEN [status |-> "degraded", error |-> IF summary.error = "" THEN status ELSE summary.error]
    ELSE [summary EXCEPT !.status = status]

\* Mutant: a session that failed gives its own status, like any other.
AddOwn(summary, status) ==
  [status |-> IF status = "ready" THEN summary.status ELSE status,
   error  |-> IF status \in Failed /\ summary.error = "" THEN status ELSE summary.error]

\* A session's share in the summary.  A session that is paused, disconnected
\* or failing on its own hides that an earlier one is degraded, and not its
\* error; a failing session of the daemon has none of its own.
Add(summary, status) ==
  IF status \in Failed
    THEN [status |-> "degraded", error |-> IF summary.error = "" THEN status ELSE summary.error]
    ELSE [summary EXCEPT !.status = IF status = "ready" THEN @ ELSE status]

Mine(c) == {n \in Name : Owner[n] = c}

\* The summary of c after the first k names: the session of a name counts if
\* it is reported and of c.
summaryAfter(c) ==
  LET summary[k \in 0..Len(Order)] ==
        IF k = 0 THEN [status |-> "ready", error |-> ""]
        ELSE IF Order[k] \in Mine(c) /\ published[Order[k]] # ""
               THEN Add(summary[k - 1], published[Order[k]])
               ELSE summary[k - 1]
  IN  summary

\* Every entry of an enabled rule has a session, so that the status "idle"
\* of a container without one does not occur.
applySyncSummaries ==
  [c \in Container |->
     IF \A n \in Mine(c) : published[n] = ""
       THEN [status |-> "disabled", error |-> ""]
       ELSE summaryAfter(c)[Len(Order)]]

\* In whatever order its sessions come, a container's summary is "ready" only
\* if all of them are, has an error if and only if one of them does, one that
\* is the container's own, and is "disabled" if and only if none of its
\* entries is synced.
ErrorsSurface ==
  \A c \in Container :
    LET summary == applySyncSummaries[c]
        reports == {published[n] : n \in Mine(c)}
    IN  /\ summary.status = "ready" <=> "ready" \in reports /\ reports \subseteq {"", "ready"}
        /\ summary.error # "" <=> reports \cap Failed # {}
        /\ summary.error # "" => summary.error \in reports
        /\ summary.status = "disabled" <=> reports \subseteq {""}

Wanted(c, wish) == \E n \in Mine(c) : want[n] = wish

CardsSettled ==
  \A c \in Container :
    LET summary == applySyncSummaries[c]
        invalid == \E n \in Mine(c) : want[n] = "running" /\ ~ validateEndpoints(n)
    IN  /\ Wanted(c, "stopped") => summary.status = "paused" /\ summary.error = ""
        /\ Wanted(c, "running") => summary.status = IF invalid THEN "degraded" ELSE "ready"
        /\ Mine(c) \subseteq {n \in Name : want[n] = "absent"} => summary.status = "disabled"

\* While sync stays enabled and the daemon up, and no command holds a loop for
\* ever, the card of every container comes to tell what becomes of its
\* sessions: "ready" if every entry is synced, "degraded" if one cannot be,
\* wherever it comes in the rule, although on the way a paused session may
\* hide it.
CardsSettle == NoneHeld /\ <>[](enabled /\ daemon) => <>[]CardsSettled
=============================================================================
