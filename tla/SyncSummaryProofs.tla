------------------------- MODULE SyncSummaryProofs -------------------------
(***************************************************************************)
(* What the summary of a container says of its sessions, for every number  *)
(* of them, in every order and with every status.                          *)
(***************************************************************************)
EXTENDS SyncSummary, SyncControllerProofs, NaturalsLemmas

Summary == [status : Status \cup {"degraded"}, error : {""} \cup Failed]

Fresh == [status |-> "ready", error |-> ""]

\* The share of the k-th name, given the summary before it.
Share(c, k, summary) ==
  IF Order[k] \in Mine(c) /\ published[Order[k]] # ""
    THEN Add(summary, published[Order[k]])
    ELSE summary

LEMMA AddType ==
  ASSUME NEW summary \in Summary, NEW status \in Status \ {""}
  PROVE  Add(summary, status) \in Summary
BY DEF Add, Summary, Status, Failed

LEMMA ShareType ==
  ASSUME published \in [Name -> Status], NEW c, NEW k \in 1..Len(Order),
         NEW summary \in Summary
  PROVE  Share(c, k, summary) \in Summary
<1>1. Order[k] \in Name
  BY SummaryAssumption
<1>2. QED
  BY <1>1, AddType DEF Share

\* The recursive definition is met by a function.
LEMMA SummaryAfter ==
  ASSUME published \in [Name -> Status], NEW c
  PROVE  /\ summaryAfter(c) \in [0..Len(Order) -> Summary]
         /\ summaryAfter(c)[0] = Fresh
         /\ \A k \in 1..Len(Order) :
              summaryAfter(c)[k] = Share(c, k, summaryAfter(c)[k - 1])
<1> DEFINE N == Len(Order)
           Meets(f) == f = [k \in 0..N |->
             IF k = 0 THEN [status |-> "ready", error |-> ""]
             ELSE IF Order[k] \in Mine(c) /\ published[Order[k]] # ""
                    THEN Add(f[k - 1], published[Order[k]])
                    ELSE f[k - 1]]
           step == [k \in 1..N |-> [summary \in Summary |-> Share(c, k, summary)]]
<1>1. N \in Nat
  BY SummaryAssumption
<1>2. Fresh \in Summary
  BY DEF Fresh, Summary, Status
<1>3. step \in [1..N -> [Summary -> Summary]]
  BY ShareType
<1> HIDE DEF N
<1>4. PICK f \in [0..N -> Summary] : Recursive(f, N, Fresh, step)
  <2> HIDE DEF step
  <2>1. QED
    BY <1>1, <1>2, <1>3, Recursion
<1>5. f[0] = Fresh /\ \A k \in 1..N : f[k] = Share(c, k, f[k - 1])
  <2>1. \A k \in 1..N : k - 1 \in 0..N
    BY <1>1
  <2>2. \A k \in 1..N : f[k - 1] \in Summary
    BY <2>1
  <2>3. QED
    BY <1>4, <2>2 DEF Recursive
<1>6. Meets(f)
  <2> HIDE DEF step
  <2>1. \A k \in 0..N : k # 0 => k \in 1..N
    BY <1>1
  <2>2. \A k \in 0..N :
          f[k] = IF k = 0 THEN Fresh ELSE Share(c, k, f[k - 1])
    BY <1>5, <2>1
  <2>3. f = [k \in 0..N |-> IF k = 0 THEN Fresh ELSE Share(c, k, f[k - 1])]
    BY <2>2
  <2>4. QED
    BY <2>3 DEF Fresh, Share
<1>7. Meets(summaryAfter(c))
  <2>1. summaryAfter(c) = CHOOSE g : Meets(g)
    BY DEF summaryAfter, N
  <2>2. QED
    BY <1>6, <2>1
<1>8. /\ summaryAfter(c)[0] = Fresh
      /\ \A k \in 1..N : summaryAfter(c)[k] = Share(c, k, summaryAfter(c)[k - 1])
  <2>1. summaryAfter(c) =
          [k \in 0..N |-> IF k = 0 THEN Fresh ELSE Share(c, k, summaryAfter(c)[k - 1])]
    BY <1>7 DEF Fresh, Share
  <2>2. 0 \in 0..N /\ \A k \in 1..N : k \in 0..N /\ k # 0
    BY <1>1
  <2>3. QED
    BY <2>1, <2>2
<1>9. summaryAfter(c) \in [0..N -> Summary]
  <2> DEFINE g == summaryAfter(c)
             Good == {k \in 0..N : g[k] \in Summary}
  <2>1. 0 \in Good
    BY <1>1, <1>2, <1>8
  <2>2. ASSUME NEW k \in 1..N, k - 1 \in Good PROVE k \in Good
    BY <1>8, <2>2, ShareType DEF N
  <2>3. 0..N \subseteq Good
    <3> HIDE DEF Good
    <3>1. QED
      BY <1>1, <2>1, <2>2, BoundedInduction
  <2>4. QED
    BY <1>7, <2>3
<1>10. QED
  BY <1>8, <1>9 DEF N

\* What the first k names report of container c.
Reports(c, k) == {published[Order[i]] : i \in {j \in 1..k : Order[j] \in Mine(c)}} \ {""}

\* What ErrorsSurface says of them.
Surfaces(c, k) ==
  LET summary == summaryAfter(c)[k]
  IN  /\ summary.status = "ready" <=> Reports(c, k) \subseteq {"ready"}
      /\ summary.error # "" <=> Reports(c, k) \cap Failed # {}
      /\ summary.error # "" => summary.error \in Reports(c, k)

LEMMA ReportsGrow ==
  ASSUME NEW c, NEW k \in 1..Len(Order)
  PROVE  Reports(c, k) =
           IF Order[k] \in Mine(c) /\ published[Order[k]] # ""
             THEN Reports(c, k - 1) \cup {published[Order[k]]}
             ELSE Reports(c, k - 1)
<1>1. 1..k = (1..k - 1) \cup {k}
  BY SummaryAssumption
<1>2. QED
  BY <1>1 DEF Reports

LEMMA SurfacesAfter ==
  ASSUME published \in [Name -> Status], NEW c, NEW k \in 0..Len(Order)
  PROVE  Surfaces(c, k)
<1> DEFINE Good == {i \in 0..Len(Order) : Surfaces(c, i)}
<1>1. Len(Order) \in Nat
  BY SummaryAssumption
<1>2. 0 \in Good
  <2>1. Reports(c, 0) = {}
    BY DEF Reports
  <2>2. summaryAfter(c)[0] = Fresh
    BY SummaryAfter
  <2>3. Surfaces(c, 0)
    <3>1. Fresh.status = "ready" /\ Fresh.error = ""
      BY DEF Fresh
    <3>2. Reports(c, 0) \subseteq {"ready"} /\ Reports(c, 0) \cap Failed = {}
      BY <2>1
    <3>3. QED
      BY <2>2, <3>1, <3>2 DEF Surfaces
  <2>4. QED
    BY <1>1, <2>3
<1>3. ASSUME NEW i \in 1..Len(Order), i - 1 \in Good PROVE i \in Good
  <2> DEFINE old == summaryAfter(c)[i - 1]
             new == summaryAfter(c)[i]
             status == published[Order[i]]
  <2>1. new = Share(c, i, old) /\ old \in Summary
    BY <1>1, SummaryAfter
  <2>2. Surfaces(c, i - 1)
    BY <1>3
  <2>3. CASE ~ (Order[i] \in Mine(c) /\ status # "")
    <3>1. new = old /\ Reports(c, i) = Reports(c, i - 1)
      BY <2>1, <2>3, ReportsGrow DEF Share
    <3> HIDE DEF old, new
    <3>2. summaryAfter(c)[i - 1] = old /\ summaryAfter(c)[i] = old
      BY <3>1 DEF old, new
    <3>3. Surfaces(c, i)
      BY <2>2, <3>1, <3>2 DEF Surfaces
    <3>4. QED
      BY <3>3
  <2>4. CASE Order[i] \in Mine(c) /\ status # ""
    <3>1. new = Add(old, status)
      BY <2>1, <2>4 DEF Share
    <3>2. Reports(c, i) = Reports(c, i - 1) \cup {status}
      BY <2>4, ReportsGrow
    <3>3. status \in Status \ {""}
      <4>1. Order[i] \in Name
        BY SummaryAssumption
      <4>2. QED
        BY <2>4, <4>1
    <3>4. /\ old.status = "ready" <=> Reports(c, i - 1) \subseteq {"ready"}
          /\ old.error # "" <=> Reports(c, i - 1) \cap Failed # {}
          /\ old.error # "" => old.error \in Reports(c, i - 1)
      BY <2>2 DEF Surfaces
    <3> HIDE DEF old, new, status
    <3>5. /\ new.status = "ready" <=> old.status = "ready" /\ status = "ready"
          /\ new.error # "" <=> old.error # "" \/ status \in Failed
          /\ new.error # "" => new.error \in {old.error, status}
      <4>1. old = [status |-> old.status, error |-> old.error]
        BY <2>1 DEF Summary
      <4>2. CASE status \in Failed
        BY <3>1, <3>3, <4>1, <4>2 DEF Add, Failed
      <4>3. CASE status \notin Failed
        BY <3>1, <3>3, <4>1, <4>3 DEF Add, Failed
      <4>4. QED
        BY <4>2, <4>3
    <3>6. /\ new.status = "ready" <=> Reports(c, i) \subseteq {"ready"}
          /\ new.error # "" <=> Reports(c, i) \cap Failed # {}
          /\ new.error # "" => new.error \in Reports(c, i)
      <4> DEFINE before == Reports(c, i - 1)
                 after == Reports(c, i)
      <4>1. after = before \cup {status}
        BY <3>2
      <4> HIDE DEF before, after
      <4>2. after \subseteq {"ready"} <=> before \subseteq {"ready"} /\ status = "ready"
        BY <4>1
      <4>3. after \cap Failed # {} <=> before \cap Failed # {} \/ status \in Failed
        BY <4>1
      <4>4. old.error \in before => old.error \in after
        BY <4>1
      <4>5. status \in after
        BY <4>1
      <4>6. new.error # "" => new.error \in after
        <5>1. CASE new.error = status
          BY <4>5, <5>1
        <5>2. CASE new.error = old.error
          BY <3>4, <4>4, <5>2 DEF before
        <5>3. QED
          BY <3>5, <5>1, <5>2
      <4>7. QED
        BY <3>4, <3>5, <4>2, <4>3, <4>6 DEF before, after
    <3>7. Surfaces(c, i)
      BY <3>6 DEF Surfaces, new
    <3>8. QED
      BY <3>7
  <2>5. QED
    BY <2>3, <2>4
<1>4. QED
  <2> HIDE DEF Good
  <2>1. 0..Len(Order) \subseteq Good
    BY <1>1, <1>2, <1>3, BoundedInduction
  <2>2. QED
    BY <2>1 DEF Good

\* Whatever the daemon and the overlapping reconciles do, and in whatever
\* order its sessions come, a container's summary is "ready" only if all of
\* them are and names an error if and only if one of them has it.
THEOREM SummarySurfaces == Spec => []ErrorsSurface
<1>1. TypeOK => ErrorsSurface
  <2> SUFFICES ASSUME published \in [Name -> Status] PROVE ErrorsSurface
    BY DEF TypeOK
  <2> SUFFICES ASSUME NEW c \in Container
               PROVE  LET summary == applySyncSummaries[c]
                          reports == {published[n] : n \in Mine(c)}
                      IN  /\ summary.status = "ready" <=>
                                "ready" \in reports /\ reports \subseteq {"", "ready"}
                          /\ summary.error # "" <=> reports \cap Failed # {}
                          /\ summary.error # "" => summary.error \in reports
                          /\ summary.status = "disabled" <=> reports \subseteq {""}
    BY DEF ErrorsSurface
  <2> DEFINE summary == applySyncSummaries[c]
             reports == {published[n] : n \in Mine(c)}
  <2>1. CASE \A n \in Mine(c) : published[n] = ""
    <3>1. reports \subseteq {""}
      BY <2>1
    <3>2. summary.status = "disabled" /\ summary.error = ""
      BY <2>1 DEF applySyncSummaries
    <3>3. QED
      BY <3>1, <3>2 DEF Failed
  <2>2. CASE ~ \A n \in Mine(c) : published[n] = ""
    <3>1. Len(Order) \in Nat /\ Len(Order) \in 0..Len(Order)
      BY SummaryAssumption
    <3>2. summary = summaryAfter(c)[Len(Order)] /\ summary \in Summary
      BY <2>2, <3>1, SummaryAfter DEF applySyncSummaries
    <3>3. Reports(c, Len(Order)) = reports \ {""}
      BY SummaryAssumption DEF Reports, Mine
    <3>4. Surfaces(c, Len(Order))
      BY <3>1, SurfacesAfter
    <3>5. summary.status # "disabled"
      BY <3>2 DEF Summary, Status
    <3>6. ~ reports \subseteq {""}
      BY <2>2
    <3> HIDE DEF summary, reports
    <3>7. /\ summary.status = "ready" <=> reports \ {""} \subseteq {"ready"}
          /\ summary.error # "" <=> (reports \ {""}) \cap Failed # {}
          /\ summary.error # "" => summary.error \in reports \ {""}
      BY <3>2, <3>3, <3>4 DEF Surfaces
    <3>8. "" \notin Failed
      BY DEF Failed
    <3>9. QED
      BY <3>5, <3>6, <3>7, <3>8 DEF summary, reports
  <2>3. QED
    BY <2>1, <2>2
<1>2. QED
  BY <1>1, TypeCorrect, PTL
=============================================================================
