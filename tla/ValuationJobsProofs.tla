------------------------ MODULE ValuationJobsProofs ------------------------
(***************************************************************************)
(* Proofs about ValuationJobs, for every set of investors, requests and    *)
(* refreshers and every value of the bounds, in three parts: what survives *)
(* any interleaving, what the serial schedule adds, and the refinement of  *)
(* ValuationPromise.                                                       *)
(***************************************************************************)
EXTENDS ValuationJobs, TLAPS

LEMMA DatesFacts ==
  /\ Days \subseteq Nat /\ Dates \subseteq Nat /\ Days \subseteq Dates
  /\ NoDay \in Dates /\ NoDay \notin Days
  /\ \A d \in Days : d < NoDay
  /\ 0 \in Days
BY ConstantsAssumption DEF Days, Dates, NoDay

LEMMA EarlierType ==
  ASSUME NEW d \in Dates, NEW e \in Dates
  PROVE  /\ Earlier(d, e) \in Dates /\ OrElse(d, e) \in Dates
         /\ Earlier(d, e) <= d /\ Earlier(d, e) <= e
BY DatesFacts DEF Earlier, OrElse

LEMMA AgeType ==
  ASSUME NEW p \in [Days -> Points], NEW e
  PROVE  Age(p, e) \in [Days -> Points]
BY DEF Age, Points

LEMMA IdleTypes ==
  /\ NoPoints \in [Days -> Points]
  /\ NoMarker \in [Investors -> Dates]
  /\ IdleRequest \in RequestStates /\ IdleRequest.pc = "idle"
  /\ IdleRun \in RunStates /\ IdleRun.pc = "idle"
<1>1. AnInvestor \in Investors
  BY ConstantsAssumption DEF AnInvestor
<1>2. NoPoints \in [Days -> Points] /\ NoMarker \in [Investors -> Dates]
  BY DatesFacts DEF NoPoints, Points, NoMarker
<1>. QED
  BY <1>1, <1>2, DatesFacts DEF IdleRequest, IdleRun, RequestStates, RunStates

LEMMA NextInPassType ==
  ASSUME NEW pass \in RunStates
  PROVE  NextInPass(pass) \in RunStates
BY IdleTypes DEF NextInPass, RunStates

LEMMA TypeInit == Init => TypeOK
BY IdleTypes, DatesFacts DEF Init, TypeOK, Rows

LEMMA TypeChangeLedger ==
  ASSUME TypeOK, NEW i \in Investors, NEW e, ChangeLedger(i, e)
  PROVE  series' \in [Investors -> [Days -> Points]] /\ run' \in [Runners -> RunStates]
<1>1. series' \in [Investors -> [Days -> Points]]
  BY AgeType DEF TypeOK, ChangeLedger
<1>2. ASSUME NEW w \in Runners PROVE run'[w] \in RunStates
  <2>1. run[w] \in RunStates /\ Age(run[w].points, e) \in [Days -> Points]
    BY AgeType DEF TypeOK, RunStates
  <2>. QED
    BY <2>1 DEF ChangeLedger, RunStates
<1>. QED
  BY <1>1, <1>2 DEF ChangeLedger

LEMMA TypeAcquire ==
  ASSUME TypeOK, NEW i \in Investors, NEW e \in Dates, Acquire(i, e)
  PROVE  /\ firstActivity' \in [Investors -> Dates]
         /\ feedPending' \in [Investors -> BOOLEAN]
BY EarlierType DEF TypeOK, Acquire

(* Every action preserves the types.                                       *)
LEMMA TypeNext == TypeOK /\ [Next]_vars => TypeOK'
<1>. SUFFICES ASSUME TypeOK, [Next]_vars PROVE TypeOK'
  OBVIOUS
<1>. USE IdleTypes, DatesFacts DEF TypeOK, budget, rowVars, ledgerVars
<1>1. ASSUME NEW r \in Requests, NEW i \in Investors, BeginImport(r, i)
      PROVE  TypeOK'
  <2>1. row[i].recompute_from \in Dates
    BY DEF Rows
  <2>2. [IdleRequest EXCEPT !.pc = "loaded", !.inv = i, !.seen = row[i].recompute_from]
          \in RequestStates
    BY <2>1 DEF IdleRequest, RequestStates
  <2>3. req' \in [Requests -> RequestStates]
    BY <1>1, <2>2 DEF BeginImport
  <2>. QED
    BY <1>1, <2>3 DEF BeginImport
<1>2. ASSUME NEW r \in Requests, CommitLedger(r) PROVE TypeOK'
  <2>1. req[r].inv \in Investors
    BY DEF RequestStates
  <2>0. PICK e \in 0..today : \E close \in e..today \union {NoDay} :
          /\ ChangeLedger(req[r].inv, e)
          /\ Acquire(req[r].inv, e)
          /\ req' = [req EXCEPT ![r] =
               [@ EXCEPT !.pc = "committed", !.marker = e, !.as_of = close]]
    BY <1>2 DEF CommitLedger
  <2>2. PICK close \in e..today \union {NoDay} :
          /\ ChangeLedger(req[r].inv, e)
          /\ Acquire(req[r].inv, e)
          /\ req' = [req EXCEPT ![r] =
               [@ EXCEPT !.pc = "committed", !.marker = e, !.as_of = close]]
    BY <2>0
  <2>3. e \in Days /\ close \in Dates
    BY ConstantsAssumption DEF Days, Dates
  <2>4. req' \in [Requests -> RequestStates]
    <3>1. req[r] \in RequestStates /\ e \in Dates
      BY <2>3
    <3>2. [req[r] EXCEPT !.pc = "committed", !.marker = e, !.as_of = close] \in RequestStates
      BY <2>3, <3>1 DEF RequestStates
    <3>. QED
      BY <2>2, <3>2
  <2>. QED
    BY <1>2, <2>1, <2>2, <2>3, <2>4, TypeChangeLedger, TypeAcquire DEF CommitLedger
<1>3. ASSUME NEW r \in Requests, CommitSnapshot(r) PROVE TypeOK'
  <2>1. req[r].inv \in Investors
    BY DEF RequestStates
  <2>2. PICK e \in 0..today :
          /\ Acquire(req[r].inv, e)
          /\ req' = [req EXCEPT ![r] =
               [@ EXCEPT !.pc = "committed", !.marker = e, !.as_of = e]]
    BY <1>3 DEF CommitSnapshot
  <2>3. e \in Days
    BY ConstantsAssumption DEF Days
  <2>4. req' \in [Requests -> RequestStates]
    BY <2>2, <2>3 DEF RequestStates
  <2>. QED
    BY <1>3, <2>1, <2>2, <2>3, <2>4, TypeAcquire DEF CommitSnapshot
<1>4. ASSUME NEW r \in Requests, QueueRecompute(r) PROVE TypeOK'
  <2>1. req[r].inv \in Investors /\ Earlier(req[r].seen, req[r].marker) \in Dates
    BY EarlierType DEF RequestStates
  <2>2. row' \in [Investors -> Rows]
    <3>1. [row[req[r].inv] EXCEPT
             !.recompute_from = Earlier(req[r].seen, req[r].marker), !.status = "computing"]
            \in Rows
      <4>1. row[req[r].inv] \in Rows
        BY <2>1
      <4>. QED
        BY <2>1, <4>1 DEF Rows
    <3>. QED
      BY <1>4, <2>1, <3>1 DEF QueueRecompute, QueuedMarker
  <2>3. req' \in [Requests -> RequestStates]
    BY <1>4 DEF QueueRecompute, RequestStates
  <2>. QED
    BY <1>4, <2>2, <2>3 DEF QueueRecompute
<1>5. ASSUME NEW r \in Requests, SeedProvisional(r) PROVE TypeOK'
  BY <1>5 DEF SeedProvisional, RequestStates, Points
<1>6. ASSUME NEW r \in Requests, AbandonImport(r) PROVE TypeOK'
  BY <1>6 DEF AbandonImport
<1>7. ASSUME NEW i \in Investors, EditLedger(i) PROVE TypeOK'
  <2>1. PICK e \in 0..today : ChangeLedger(i, e) /\ Acquire(i, e)
    BY <1>7 DEF EditLedger
  <2>2. e \in Days
    BY ConstantsAssumption DEF Days
  <2>. QED
    BY <1>7, <2>1, <2>2, TypeChangeLedger, TypeAcquire DEF EditLedger
<1>8. CASE SelectDue
  BY <1>8 DEF SelectDue, RunStates, Rows, Runners
<1>9. ASSUME NEW w \in Refreshers, StartRefresh(w) PROVE TypeOK'
  BY <1>9 DEF StartRefresh, RunStates, Runners
<1>10. ASSUME NEW w \in Runners, PrimeNavs(w) PROVE TypeOK'
  BY <1>10 DEF PrimeNavs, RunStates
<1>11. ASSUME NEW w \in Runners, BeginRecompute(w) PROVE TypeOK'
  <2>1. PICK i \in run[w].due :
          LET start == OrElse(run[w].from[i], OrElse(row[i].recompute_from,
                         OrElse(row[i].computed_through, firstActivity[i])))
          IN run' = [run EXCEPT ![w] =
               [pc |-> IF start = NoDay THEN "finish" ELSE "begin",
                due |-> @.due \ {i}, from |-> [@.from EXCEPT ![i] = NoDay],
                inv |-> i, start |-> start,
                upto |-> WindowEnd, attempts |-> row[i].attempts, points |-> NoPoints]]
    BY <1>11 DEF BeginRecompute
  <2>2. i \in Investors /\ run[w].due \in SUBSET Investors
        /\ run[w].from \in [Investors -> Dates] /\ run[w].from[i] \in Dates
        /\ row[i] \in Rows
    BY DEF RunStates
  <2>3. OrElse(run[w].from[i], OrElse(row[i].recompute_from,
          OrElse(row[i].computed_through, firstActivity[i]))) \in Dates
    BY <2>2, EarlierType DEF Rows
  <2>4. run' \in [Runners -> RunStates]
    BY <2>1, <2>2, <2>3 DEF RunStates, Rows, WindowEnd
  <2>. QED
    BY <1>11, <2>4 DEF BeginRecompute, WindowEnd
<1>25. ASSUME NEW w \in Runners, MarkComputing(w) PROVE TypeOK'
  <2>1. run[w] \in RunStates /\ run[w].inv \in Investors
    BY DEF RunStates
  <2>2. row' \in [Investors -> Rows]
    BY <1>25, <2>1 DEF MarkComputing, Rows
  <2>3. run' \in [Runners -> RunStates]
    BY <1>25, <2>1 DEF MarkComputing, RunStates
  <2>. QED
    BY <1>25, <2>2, <2>3 DEF MarkComputing
<1>12. ASSUME NEW w \in Runners, MarkError(w)
       PROVE  row' \in [Investors -> Rows] /\ run' \in [Runners -> RunStates]
  <2>1. run[w] \in RunStates /\ run[w].inv \in Investors /\ run[w].attempts \in Nat
    BY DEF RunStates
  <2>2. run' \in [Runners -> RunStates]
    BY <1>12, <2>1, NextInPassType DEF MarkError
  <2>3. ErrorRow(row[run[w].inv], run[w].attempts + 1) \in Rows
    <3>1. row[run[w].inv] \in Rows /\ run[w].attempts + 1 \in Nat
      BY <2>1
    <3>. QED
      BY <3>1 DEF ErrorRow, Retry, Rows
  <2>. QED
    BY <1>12, <2>2, <2>3 DEF MarkError
<1>13. ASSUME NEW w \in Runners, AwaitPrice(w) PROVE TypeOK'
  BY <1>12, <1>13 DEF AwaitPrice
<1>14. ASSUME NEW w \in Runners, ValueSeries(w) PROVE TypeOK'
  <2>1. run[w] \in RunStates
    OBVIOUS
  <2>2. [d \in Days |-> IF run[w].start <= d /\ d <= run[w].upto THEN "fresh" ELSE "none"]
          \in [Days -> Points]
    BY DEF Points
  <2>3. run' \in [Runners -> RunStates]
    BY <1>14, <2>1, <2>2 DEF ValueSeries, RunStates
  <2>. QED
    BY <1>14, <2>3 DEF ValueSeries
<1>15. ASSUME NEW w \in Runners, UpsertSeries(w) PROVE TypeOK'
  <2>1. run[w] \in RunStates /\ run[w].inv \in Investors
        /\ run[w].points \in [Days -> Points]
    BY DEF RunStates
  <2>2. series' \in [Investors -> [Days -> Points]]
    BY <1>15, <2>1 DEF UpsertSeries
  <2>3. run' \in [Runners -> RunStates]
    BY <1>15, <2>1 DEF UpsertSeries, RunStates
  <2>. QED
    BY <1>15, <2>2, <2>3 DEF UpsertSeries
<1>16. ASSUME NEW w \in Runners, MarkReady(w) PROVE TypeOK'
  <2>1. run[w] \in RunStates /\ run[w].inv \in Investors /\ run[w].upto \in Dates
    BY DEF RunStates
  <2>2. ReadyRow(row[run[w].inv], run[w].upto) \in Rows
    <3>1. row[run[w].inv] \in Rows
      BY <2>1
    <3>. QED
      BY <2>1, <3>1 DEF ReadyRow, Rows
  <2>3. run' \in [Runners -> RunStates]
    BY <1>16, <2>1, NextInPassType DEF MarkReady
  <2>. QED
    BY <1>16, <2>2, <2>3 DEF MarkReady
<1>17. ASSUME NEW w \in Runners, FailRecompute(w) PROVE TypeOK'
  BY <1>12, <1>17 DEF FailRecompute
<1>18. ASSUME NEW w \in Runners, EndPass(w) PROVE TypeOK'
  BY <1>18 DEF EndPass
<1>19. ASSUME NEW w \in Runners, KillRunner(w) PROVE TypeOK'
  BY <1>19 DEF KillRunner
<1>20. CASE EnqueueDailyExtend
  <2>1. CASE RollReady
    BY <2>1 DEF RollReady, Rows
  <2>2. CASE RetryErrored
    <3>1. ASSUME NEW i \in Investors PROVE row'[i] \in Rows
      <4>1. row[i] \in Rows
        OBVIOUS
      <4>2. [row[i] EXCEPT !.status = "pending", !.attempts = 0, !.next_attempt = "none"]
              \in Rows
        BY <4>1 DEF Rows
      <4>. QED
        BY <2>2, <4>1, <4>2 DEF RetryErrored
    <3>. QED
      BY <2>2, <3>1 DEF RetryErrored
  <2>. QED
    BY <1>20, <2>1, <2>2 DEF EnqueueDailyExtend
<1>21. CASE EnqueueCatchUp
  BY <1>20, <1>21 DEF EnqueueCatchUp
<1>22. ASSUME NEW i \in Investors, BackoffElapses(i) PROVE TypeOK'
  BY <1>22 DEF BackoffElapses, Rows
<1>23. CASE NextDay
  BY <1>23, ConstantsAssumption DEF NextDay, Days
<1>24. CASE UNCHANGED vars
  BY <1>24 DEF vars
<1>. QED
  BY <1>1, <1>2, <1>3, <1>4, <1>5, <1>6, <1>7, <1>8, <1>9, <1>10, <1>11, <1>13,
     <1>14, <1>15, <1>16, <1>17, <1>18, <1>19, <1>20, <1>21, <1>22, <1>23, <1>24, <1>25
  DEF Next, Entry, Progress, ImportStep, RunStep, Clock

(* TypeOK holds of every behaviour: the valuation_* columns, the stored    *)
(* series and the threads' local copies keep their types.                  *)
THEOREM TypeCorrect == Spec => []TypeOK
BY TypeInit, TypeNext, PTL DEF Spec

-----------------------------------------------------------------------------
(* The writers of an Investor row.  Everything that is true of a row,      *)
(* whatever the interleaving, follows from what each writer leaves there.  *)

Queued(r, e)     == [r EXCEPT !.recompute_from = e, !.status = "computing"]
Computing(r)     == [r EXCEPT !.status = "computing"]
RolledForward(r) == [r EXCEPT !.status = "pending", !.recompute_from = r.computed_through]
RetriedLater(r)  == [r EXCEPT !.status = "pending", !.attempts = 0, !.next_attempt = "none"]
BackoffOver(r)   == [r EXCEPT !.next_attempt = "due"]

Written(r, s) ==
  \/ s = r
  \/ \E e \in Dates : s = Queued(r, e)
  \/ s = Computing(r)
  \/ \E n \in Nat : s = ErrorRow(r, n)
  \/ \E d \in Days : s = ReadyRow(r, d)
  \/ r.status = "ready" /\ s = RolledForward(r)
  \/ s = RetriedLater(r)
  \/ r.next_attempt = "wait" /\ s = BackoffOver(r)

LEMMA WrittenByQueue ==
  ASSUME TypeOK, NEW r \in Requests, QueueRecompute(r), NEW i \in Investors
  PROVE  Written(row[i], row'[i])
<1>1. QueuedMarker(req[r].seen, req[r].marker) \in Dates
  BY EarlierType DEF TypeOK, RequestStates, QueuedMarker
<1>2. row'[i] \in {row[i], Queued(row[i], QueuedMarker(req[r].seen, req[r].marker))}
  BY DEF TypeOK, QueueRecompute, Queued
<1>. QED
  BY <1>1, <1>2 DEF Written

LEMMA WrittenByError ==
  ASSUME TypeOK, NEW w \in Runners, MarkError(w), NEW i \in Investors
  PROVE  Written(row[i], row'[i])
<1>1. run[w].attempts + 1 \in Nat
  BY DEF TypeOK, RunStates
<1>2. row'[i] \in {row[i], ErrorRow(row[i], run[w].attempts + 1)}
  BY DEF TypeOK, MarkError
<1>. QED
  BY <1>1, <1>2 DEF Written

LEMMA WrittenByReady ==
  ASSUME TypeOK, NEW w \in Runners, MarkReady(w), NEW i \in Investors
  PROVE  Written(row[i], row'[i])
<1>1. run[w].upto \in Days
  BY DEF TypeOK, RunStates
<1>2. row'[i] \in {row[i], ReadyRow(row[i], run[w].upto)}
  BY DEF TypeOK, MarkReady
<1>. QED
  BY <1>1, <1>2 DEF Written

LEMMA RowWriters ==
  ASSUME TypeOK, [Next]_vars, NEW i \in Investors
  PROVE  Written(row[i], row'[i])
<1>0. row' = row => Written(row[i], row'[i])
  BY DEF Written
<1>1. ASSUME NEW r \in Requests, NEW j \in Investors, BeginImport(r, j)
      PROVE  Written(row[i], row'[i])
  BY <1>0, <1>1 DEF BeginImport, rowVars
<1>2. ASSUME NEW r \in Requests, ImportStep(r) PROVE Written(row[i], row'[i])
  BY <1>0, <1>2, WrittenByQueue
  DEF ImportStep, CommitLedger, CommitSnapshot, SeedProvisional, rowVars
<1>3. ASSUME NEW r \in Requests, AbandonImport(r) PROVE Written(row[i], row'[i])
  BY <1>0, <1>3 DEF AbandonImport, rowVars
<1>4. ASSUME NEW j \in Investors, EditLedger(j) PROVE Written(row[i], row'[i])
  BY <1>0, <1>4 DEF EditLedger
<1>5. ASSUME SelectDue \/ \E w \in Refreshers : StartRefresh(w)
      PROVE  Written(row[i], row'[i])
  BY <1>0, <1>5 DEF SelectDue, StartRefresh, rowVars
<1>6. ASSUME NEW w \in Runners, MarkComputing(w) PROVE Written(row[i], row'[i])
  <2>1. row'[i] \in {row[i], Computing(row[i])}
    BY <1>6 DEF TypeOK, MarkComputing, Computing
  <2>. QED
    BY <2>1 DEF Written
<1>7. ASSUME NEW w \in Runners, RunStep(w) PROVE Written(row[i], row'[i])
  BY <1>0, <1>6, <1>7, WrittenByError, WrittenByReady
  DEF RunStep, PrimeNavs, BeginRecompute, AwaitPrice, ValueSeries, UpsertSeries,
      EndPass, rowVars
<1>8. ASSUME NEW w \in Runners, FailRecompute(w) \/ KillRunner(w)
      PROVE  Written(row[i], row'[i])
  BY <1>0, <1>8, WrittenByError DEF FailRecompute, KillRunner, rowVars
<1>9. ASSUME RollReady PROVE Written(row[i], row'[i])
  <2>1. row'[i] = IF row[i].status = "ready" THEN RolledForward(row[i]) ELSE row[i]
    BY <1>9 DEF RollReady, RolledForward
  <2>. QED
    BY <2>1 DEF Written
<1>10. ASSUME RetryErrored PROVE Written(row[i], row'[i])
  <2>1. row'[i] \in {row[i], RetriedLater(row[i])}
    BY <1>10 DEF RetryErrored, RetriedLater
  <2>. QED
    BY <2>1 DEF Written
<1>11. ASSUME NEW j \in Investors, BackoffElapses(j) PROVE Written(row[i], row'[i])
  <2>1. row'[i] = IF i = j THEN BackoffOver(row[i]) ELSE row[i]
    BY <1>11 DEF TypeOK, BackoffElapses, BackoffOver
  <2>2. i = j => row[i].next_attempt = "wait"
    BY <1>11 DEF BackoffElapses
  <2>. QED
    BY <2>1, <2>2 DEF Written
<1>12. CASE Clock
  BY <1>0, <1>9, <1>10, <1>11, <1>12
  DEF Clock, NextDay, EnqueueDailyExtend, EnqueueCatchUp, rowVars
<1>13. CASE UNCHANGED vars
  BY <1>0, <1>13 DEF vars
<1>. QED
  BY <1>1, <1>2, <1>3, <1>4, <1>5, <1>7, <1>8, <1>12, <1>13 DEF Next, Entry, Progress

(* ReadyHasNoMarker and ErrorIsScheduledOrExhausted of one row.            *)
RowOK(r) ==
  /\ r.status = "ready" => r.recompute_from = NoDay
  /\ r.status = "error" => (r.next_attempt = "none" <=> r.attempts >= MaxAttempts)

LEMMA WrittenRowOK ==
  ASSUME NEW r \in Rows, NEW s, Written(r, s), RowOK(r)
  PROVE  RowOK(s)
<1>1. CASE s = r
  BY <1>1
<1>2. CASE \E e \in Dates : s = Queued(r, e)
  BY <1>2 DEF Rows, Queued, RowOK
<1>3. CASE s = Computing(r)
  BY <1>3 DEF Rows, Computing, RowOK
<1>4. ASSUME NEW n \in Nat, s = ErrorRow(r, n) PROVE RowOK(s)
  <2>1. s.status = "error" /\ s.attempts = n /\ s.next_attempt = Retry(n)
    BY <1>4 DEF Rows, ErrorRow
  <2>. QED
    BY <2>1, ConstantsAssumption DEF Retry, RowOK
<1>5. CASE \E d \in Days : s = ReadyRow(r, d)
  BY <1>5 DEF Rows, ReadyRow, RowOK
<1>6. CASE s = RolledForward(r)
  BY <1>6 DEF Rows, RolledForward, RowOK
<1>7. CASE s = RetriedLater(r)
  BY <1>7 DEF Rows, RetriedLater, RowOK
<1>8. CASE r.next_attempt = "wait" /\ s = BackoffOver(r)
  <2>1. s.status = r.status /\ s.attempts = r.attempts
        /\ s.recompute_from = r.recompute_from /\ s.next_attempt = "due"
    BY <1>8 DEF Rows, BackoffOver
  <2>. QED
    BY <1>8, <2>1 DEF RowOK
<1>. QED
  BY <1>1, <1>2, <1>3, <1>4, <1>5, <1>6, <1>7, <1>8 DEF Written

RowsOK == \A i \in Investors : RowOK(row[i])

LEMMA RowsOKAlways == Spec => [](TypeOK /\ RowsOK)
<1>1. Init => TypeOK /\ RowsOK
  BY TypeInit DEF Init, RowsOK, RowOK
<1>2. TypeOK /\ RowsOK /\ [Next]_vars => TypeOK' /\ RowsOK'
  <2>. SUFFICES ASSUME TypeOK, RowsOK, [Next]_vars, NEW i \in Investors
                PROVE  RowOK(row'[i])
    BY TypeNext DEF RowsOK
  <2>1. row[i] \in Rows /\ RowOK(row[i])
    BY DEF TypeOK, RowsOK
  <2>. QED
    BY <2>1, RowWriters, WrittenRowOK
<1>. QED
  BY <1>1, <1>2, PTL DEF Spec

(* A READY row carries no marker, however imports, passes, cron runs and   *)
(* deaths interleave: a row nobody will pick up owes nobody a recompute.   *)
THEOREM ReadyRowOwesNothing == Spec => []ReadyHasNoMarker
<1>1. RowsOK => ReadyHasNoMarker
  BY DEF RowsOK, RowOK, ReadyHasNoMarker
<1>. QED
  BY <1>1, RowsOKAlways, PTL

(* An ERROR row is scheduled for a retry exactly while attempts are left:  *)
(* no interleaving leaves one stuck before the cap or retried past it.     *)
THEOREM ErrorNeverStuck == Spec => []ErrorIsScheduledOrExhausted
<1>1. RowsOK => ErrorIsScheduledOrExhausted
  BY DEF RowsOK, RowOK, ErrorIsScheduledOrExhausted
<1>. QED
  BY <1>1, RowsOKAlways, PTL

-----------------------------------------------------------------------------
(* A failing attempt never touches the marker: an import that queued an    *)
(* earlier day while the attempt was running is still owed from that day   *)
(* after the error is recorded.                                            *)
THEOREM ErrorLeavesMarker == Spec => ErrorKeepsMarker
<1> DEFINE Kept(r, s) == s.status = "error" => s.recompute_from = r.recompute_from
<1>1. ASSUME NEW r \in Rows, NEW s, Written(r, s) PROVE Kept(r, s)
  <2>1. CASE \E n \in Nat : s = ErrorRow(r, n)
    BY <2>1 DEF Rows, ErrorRow
  <2>2. CASE \E e \in Dates : s = Queued(r, e)
    BY <2>2 DEF Rows, Queued
  <2>3. CASE s = Computing(r) \/ s = RolledForward(r) \/ s = RetriedLater(r)
    BY <2>3 DEF Rows, Computing, RolledForward, RetriedLater
  <2>4. CASE \E d \in Days : s = ReadyRow(r, d)
    BY <2>4 DEF Rows, ReadyRow
  <2>5. CASE s = r \/ s = BackoffOver(r)
    BY <2>5 DEF Rows, BackoffOver
  <2>. QED
    BY <1>1, <2>1, <2>2, <2>3, <2>4, <2>5 DEF Written
<1>2. ASSUME TypeOK, [Next]_vars, NEW i \in Investors PROVE Kept(row[i], row'[i])
  <2>1. row[i] \in Rows
    BY <1>2 DEF TypeOK
  <2>2. Written(row[i], row'[i])
    BY <1>2, RowWriters
  <2>. QED
    BY <1>1, <2>1, <2>2
<1>3. TypeOK /\ [Next]_vars =>
        [\A i \in Investors :
           row'[i].status = "error" => row'[i].recompute_from = row[i].recompute_from]_vars
  BY <1>2
<1>. QED
  BY <1>3, TypeCorrect, PTL DEF Spec, ErrorKeepsMarker

-----------------------------------------------------------------------------
(* The writers of a stored point.                                          *)

LEMMA AgeKeepsPoints ==
  ASSUME NEW points \in [Days -> Points], NEW e, NEW d \in Days
  PROVE  points[d] # "none" => Age(points, e)[d] # "none"
BY DEF Age

LEMMA SeriesWriters ==
  ASSUME TypeOK, [Next]_vars, NEW i \in Investors, NEW d \in Days,
         series[i][d] # "none"
  PROVE  series'[i][d] # "none"
<1>0. series' = series => series'[i][d] # "none"
  OBVIOUS
<1>1. ASSUME NEW j \in Investors, NEW e, ChangeLedger(j, e)
      PROVE  series'[i][d] # "none"
  <2>1. series[i] \in [Days -> Points]
    BY DEF TypeOK
  <2>2. series'[i] \in {series[i], Age(series[i], e)}
    BY <1>1 DEF TypeOK, ChangeLedger
  <2>. QED
    BY <2>1, <2>2, AgeKeepsPoints
<1>2. ASSUME NEW r \in Requests, SeedProvisional(r) PROVE series'[i][d] # "none"
  <2>1. series'[i][d] \in {series[i][d], "provisional"}
    BY <1>2 DEF TypeOK, SeedProvisional
  <2>. QED
    BY <2>1
<1>3. ASSUME NEW w \in Runners, UpsertSeries(w) PROVE series'[i][d] # "none"
  <2>1. series'[i] = series[i]
        \/ series'[i][d] = IF run[w].points[d] = "none" THEN series[i][d]
                           ELSE run[w].points[d]
    BY <1>3 DEF TypeOK, UpsertSeries
  <2>. QED
    BY <2>1
<1>4. ASSUME NEW r \in Requests, ImportStep(r) \/ AbandonImport(r)
      PROVE  series'[i][d] # "none"
  <2>1. req[r].inv \in Investors
    BY DEF TypeOK, RequestStates
  <2>2. CASE CommitLedger(r)
    BY <1>1, <2>1, <2>2 DEF CommitLedger
  <2>. QED
    BY <1>0, <1>2, <1>4, <2>2
    DEF ImportStep, CommitSnapshot, QueueRecompute, AbandonImport, rowVars
<1>5. ASSUME NEW j \in Investors, EditLedger(j) PROVE series'[i][d] # "none"
  BY <1>1, <1>5 DEF EditLedger
<1>6. ASSUME NEW w \in Runners, RunStep(w) \/ FailRecompute(w) \/ KillRunner(w)
      PROVE  series'[i][d] # "none"
  BY <1>0, <1>3, <1>6
  DEF RunStep, PrimeNavs, BeginRecompute, MarkComputing, AwaitPrice, ValueSeries,
      MarkReady, EndPass, FailRecompute, KillRunner, rowVars
<1>7. CASE Entry
  BY <1>0, <1>7 DEF Entry, BeginImport, SelectDue, StartRefresh, rowVars
<1>8. CASE Clock
  BY <1>0, <1>8
  DEF Clock, NextDay, EnqueueDailyExtend, EnqueueCatchUp, RollReady, RetryErrored,
      BackoffElapses, rowVars
<1>9. CASE UNCHANGED vars
  BY <1>0, <1>9 DEF vars
<1>. QED
  BY <1>4, <1>5, <1>6, <1>7, <1>8, <1>9 DEF Next, Progress

(* Compute, then upsert: whatever fails, dies or overlaps, no step takes a *)
(* stored point away.                                                      *)
THEOREM PointsAreNeverBlanked == Spec => NeverBlanked
<1>1. TypeOK /\ [Next]_vars =>
        [\A i \in Investors : \A d \in Days :
           series[i][d] # "none" => series'[i][d] # "none"]_vars
  BY SeriesWriters
<1>. QED
  BY <1>1, TypeCorrect, PTL DEF Spec, NeverBlanked

-----------------------------------------------------------------------------
(***************************************************************************)
(* Under the schedule the design counts on (SerialSpec), a READY investor  *)
(* is current.  ReadyIsCurrent is not inductive by itself: a row may be    *)
(* READY only because of what the pass that marked it had read before, so  *)
(* the invariant follows every day the ledger disagrees with ("dirty")     *)
(* through the marker, the request or the pass that owes its recompute.    *)
(***************************************************************************)

Dirty(i, d) == series[i][d] \in {"stale", "provisional"}

(* Every dirty day of investor i is on or after e.                         *)
From(i, e) == \A d \in Days : Dirty(i, d) => e <= d

(* One import request or one pass at a time.                               *)
Exclusive ==
  /\ \A r, q \in Requests : req[r].pc # "idle" /\ req[q].pc # "idle" => r = q
  /\ \A v, w \in Runners : run[v].pc # "idle" /\ run[w].pc # "idle" => v = w
  /\ \A r \in Requests : \A w \in Runners : req[r].pc = "idle" \/ run[w].pc = "idle"

(* Nothing is stored, or about to be, for a day that has not come.         *)
NoFuture ==
  /\ \A i \in Investors : \A d \in Days : series[i][d] # "none" => d <= today
  /\ \A w \in Runners : \A d \in Days : run[w].points[d] # "none" => d <= today
  /\ \A w \in Runners : run[w].upto <= today
  /\ \A r \in Requests :
       req[r].pc \in {"committed", "seed"} /\ req[r].as_of # NoDay => req[r].as_of <= today

(* The row owes the recompute of every dirty day, unless an import is      *)
(* between its commit and its marker.                                      *)
Unqueued(i) == \E r \in Requests : req[r].inv = i /\ req[r].pc = "committed"
Owed(i) == /\ row[i].status = "ready" => \A d \in Days : ~Dirty(i, d)
           /\ From(i, row[i].recompute_from)
RowsOwe == \A i \in Investors : ~Unqueued(i) => Owed(i)

RequestOwes(q, i) ==
  /\ q.pc = "loaded" => From(i, q.seen)
  /\ q.pc = "committed" => From(i, Earlier(q.seen, q.marker)) /\ q.marker <= q.as_of
  /\ q.pc = "seed" => /\ row[i].status # "ready"
                      /\ row[i].recompute_from <= q.as_of
RequestsOwe == \A r \in Requests : RequestOwes(req[r], req[r].inv)

(* What a pass has read still reaches back to every dirty day, and what it *)
(* is about to write covers them all.                                      *)
Window(p, i) == \A d \in Days : Dirty(i, d) => p.start <= d /\ d <= p.upto
PassOwes(p, i) ==
  /\ p.pc \in {"begin", "value", "upsert"} => Window(p, i)
  /\ p.pc = "upsert" =>
       \A d \in Days : p.points[d] = IF p.start <= d /\ d <= p.upto THEN "fresh" ELSE "none"
  /\ p.pc = "finish" => \A d \in Days : ~Dirty(i, d)
SnapshotOwes(p) ==
  /\ p.pc = "idle" => \A i \in Investors : p.from[i] = NoDay
  /\ \A i \in Investors : p.from[i] # NoDay => From(i, p.from[i])
PassesOwe == \A w \in Runners : PassOwes(run[w], run[w].inv) /\ SnapshotOwes(run[w])

SerialInv == TypeOK /\ Exclusive /\ NoFuture /\ RowsOwe /\ RequestsOwe /\ PassesOwe

-----------------------------------------------------------------------------
(* While an actor moves, every other actor is idle.                        *)

AloneRequest(r) == /\ \A q \in Requests \ {r} : req[q].pc = "idle"
                   /\ \A w \in Runners : run[w].pc = "idle"
AlonePass(w) == /\ \A r \in Requests : req[r].pc = "idle"
                /\ \A v \in Runners \ {w} : run[v].pc = "idle"

LEMMA Alone ==
  ASSUME Exclusive \/ Quiet
  PROVE  /\ \A r \in Requests : Quiet \/ req[r].pc # "idle" => AloneRequest(r)
         /\ \A w \in Runners : Quiet \/ run[w].pc # "idle" => AlonePass(w)
BY DEF Exclusive, Quiet, AloneRequest, AlonePass

(* A step of the only request in progress.                                 *)
LEMMA RequestStepInv ==
  ASSUME SerialInv, TypeOK', NEW r \in Requests, AloneRequest(r),
         NEW q \in RequestStates, req' = [req EXCEPT ![r] = q], today' = today,
         \A w \in Runners : /\ run'[w].pc = run[w].pc /\ run'[w].from = run[w].from
                            /\ run'[w].upto = run[w].upto
                            /\ \A d \in Days :
                                 run'[w].points[d] # "none" => run[w].points[d] # "none",
         \A i \in Investors : \A d \in Days : series'[i][d] # "none" => d <= today,
         q.pc \in {"committed", "seed"} /\ q.as_of # NoDay => q.as_of <= today,
         \A i \in Investors : ~(q.pc = "committed" /\ q.inv = i) => Owed(i)',
         RequestOwes(q, q.inv)'
  PROVE  SerialInv'
<1>. USE DEF SerialInv, TypeOK, AloneRequest
<1>1. req'[r] = q /\ \A o \in Requests \ {r} : req'[o] = req[o]
  OBVIOUS
<1>2. Exclusive'
  BY <1>1 DEF Exclusive
<1>3. NoFuture'
  BY <1>1 DEF NoFuture
<1>4. RowsOwe'
  BY <1>1 DEF RowsOwe, Unqueued
<1>5. RequestsOwe'
  BY <1>1 DEF RequestsOwe, RequestOwes
<1>6. PassesOwe'
  <2>1. \A w \in Runners : run'[w].pc = "idle" /\ \A i \in Investors : run'[w].from[i] = NoDay
    BY DEF PassesOwe, SnapshotOwes
  <2>. QED
    BY <2>1 DEF PassesOwe, PassOwes, SnapshotOwes
<1>. QED
  BY <1>2, <1>3, <1>4, <1>5, <1>6

(* A step of the only pass in progress.                                    *)
LEMMA PassStepInv ==
  ASSUME SerialInv, TypeOK', NEW w \in Runners, AlonePass(w),
         NEW p \in RunStates, run' = [run EXCEPT ![w] = p], req' = req, today' = today,
         \A i \in Investors : \A d \in Days : series'[i][d] # "none" => d <= today,
         p.upto <= today, \A d \in Days : p.points[d] # "none" => d <= today,
         \A i \in Investors : Owed(i)',
         PassOwes(p, p.inv)', SnapshotOwes(p)'
  PROVE  SerialInv'
<1>. USE DEF SerialInv, TypeOK, AlonePass
<1>1. run'[w] = p /\ \A v \in Runners \ {w} : run'[v] = run[v]
  OBVIOUS
<1>2. Exclusive'
  BY <1>1 DEF Exclusive
<1>3. NoFuture'
  BY <1>1 DEF NoFuture
<1>4. RowsOwe'
  BY DEF RowsOwe
<1>5. RequestsOwe'
  BY DEF RequestsOwe, RequestOwes
<1>6. PassesOwe'
  BY <1>1 DEF PassesOwe, PassOwes, SnapshotOwes
<1>. QED
  BY <1>2, <1>3, <1>4, <1>5, <1>6

(* A step of the clock: it may write rows, never points.                   *)
LEMMA RowStepInv ==
  ASSUME SerialInv, TypeOK', series' = series, req' = req, run' = run, today <= today',
         \A i \in Investors :
           \/ row[i].status = "ready" /\ row'[i].status # "ready"
           \/ /\ row'[i].status = "ready" => row[i].status = "ready"
              /\ row'[i].recompute_from = row[i].recompute_from
  PROVE  SerialInv'
<1>. USE DEF SerialInv
<1>1. today \in Nat /\ today' \in Nat /\ Days \subseteq Nat
  BY DatesFacts DEF TypeOK
<1>2. Exclusive'
  BY DEF Exclusive
<1>3. NoFuture'
  <2>1. \A r \in Requests : req[r].as_of \in Nat
    BY DatesFacts DEF TypeOK, RequestStates
  <2>2. \A w \in Runners : run[w].upto \in Nat
    BY DatesFacts DEF TypeOK, RunStates
  <2>3. \A n \in Nat : n <= today => n <= today'
    BY <1>1
  <2>. QED
    BY <1>1, <2>1, <2>2, <2>3 DEF NoFuture
<1>4. ASSUME NEW i \in Investors, ~Unqueued(i)' PROVE Owed(i)'
  <2>1. Owed(i)
    BY <1>4 DEF RowsOwe, Unqueued
  <2>. QED
    BY <2>1 DEF Owed, From, Dirty
<1>5. ASSUME NEW r \in Requests PROVE RequestOwes(req[r], req[r].inv)'
  <2>1. RequestOwes(req[r], req[r].inv) /\ req[r].inv \in Investors
    BY DEF RequestsOwe, TypeOK, RequestStates
  <2>. QED
    BY <2>1 DEF RequestOwes, From, Dirty
<1>6. PassesOwe'
  BY DEF PassesOwe, PassOwes, SnapshotOwes, Window, From, Dirty
<1>. QED
  BY <1>2, <1>3, <1>4, <1>5, <1>6 DEF RowsOwe, RequestsOwe

-----------------------------------------------------------------------------
(* Imports.                                                                *)

LEMMA SerialBeginImport ==
  ASSUME SerialInv, TypeOK', Quiet, NEW r \in Requests, NEW i \in Investors,
         BeginImport(r, i)
  PROVE  SerialInv'
<1>1. row[i].recompute_from \in Dates
  BY DEF SerialInv, TypeOK, Rows
<1>0. PICK q : q = [IdleRequest EXCEPT !.pc = "loaded", !.inv = i, !.seen = row[i].recompute_from]
  OBVIOUS
<1>2. q \in RequestStates /\ q.pc = "loaded" /\ q.inv = i /\ q.seen = row[i].recompute_from
  BY <1>0, <1>1, IdleTypes DEF IdleRequest, RequestStates
<1>3. req' = [req EXCEPT ![r] = q] /\ today' = today /\ row' = row /\ series' = series /\ run' = run
  BY <1>0 DEF BeginImport, rowVars
<1>4. \A j \in Investors : Owed(j)'
  <2>1. \A j \in Investors : Owed(j)
    BY DEF SerialInv, RowsOwe, Unqueued, Quiet
  <2>. QED
    BY <1>3, <2>1 DEF Owed, From, Dirty
<1>5. RequestOwes(q, q.inv)'
  BY <1>2, <1>3, <1>4 DEF RequestOwes, Owed, From, Dirty
<1>6. AloneRequest(r)
  BY Alone
<1>7. \A j \in Investors : \A d \in Days : series'[j][d] # "none" => d <= today
  BY <1>3 DEF SerialInv, NoFuture
<1>. QED
  BY <1>2, <1>3, <1>4, <1>5, <1>6, <1>7, RequestStepInv

LEMMA SerialCommitLedger ==
  ASSUME SerialInv, TypeOK', NEW r \in Requests, CommitLedger(r)
  PROVE  SerialInv'
<1>14. PICK i : i = req[r].inv
  OBVIOUS
<1>0. req[r] \in RequestStates /\ i \in Investors /\ req[r].pc = "loaded" /\ today \in Days
  BY <1>14 DEF SerialInv, TypeOK, RequestStates, CommitLedger
<1>1. PICK e \in 0..today : \E close \in e..today \union {NoDay} :
        /\ ChangeLedger(i, e)
        /\ req' = [req EXCEPT ![r] =
             [@ EXCEPT !.pc = "committed", !.marker = e, !.as_of = close]]
  BY <1>14 DEF CommitLedger
<1>2. PICK close \in e..today \union {NoDay} :
        /\ ChangeLedger(i, e)
        /\ req' = [req EXCEPT ![r] =
             [@ EXCEPT !.pc = "committed", !.marker = e, !.as_of = close]]
  BY <1>1
<1>13. PICK q : q = [req[r] EXCEPT !.pc = "committed", !.marker = e, !.as_of = close]
  OBVIOUS
<1>3. /\ e \in Days /\ close \in Dates /\ e <= close /\ (close # NoDay => close <= today)
  BY <1>0, DatesFacts, ConstantsAssumption DEF Days, Dates
<1>4. /\ q \in RequestStates /\ q.pc = "committed" /\ q.inv = i /\ q.seen = req[r].seen
      /\ q.marker = e /\ q.as_of = close
  BY <1>0, <1>3, <1>13, <1>14, DatesFacts DEF RequestStates
<1>5. req' = [req EXCEPT ![r] = q] /\ today' = today /\ row' = row
  BY <1>2, <1>13 DEF CommitLedger, budget
<1>6. AloneRequest(r)
  BY <1>0, Alone DEF SerialInv
<1>7. \A j \in Investors \ {i} : series'[j] = series[j]
  BY <1>2 DEF ChangeLedger, SerialInv, TypeOK
<1>8. series'[i] = Age(series[i], e)
  BY <1>0, <1>2 DEF ChangeLedger, SerialInv, TypeOK
<1>9. \A w \in Runners : /\ run'[w].pc = run[w].pc /\ run'[w].from = run[w].from
                          /\ run'[w].upto = run[w].upto
                          /\ \A d \in Days :
                               run'[w].points[d] # "none" => run[w].points[d] # "none"
  <2>1. SUFFICES ASSUME NEW w \in Runners
                 PROVE  /\ run'[w].pc = run[w].pc /\ run'[w].from = run[w].from
                        /\ run'[w].upto = run[w].upto
                        /\ \A d \in Days :
                             run'[w].points[d] # "none" => run[w].points[d] # "none"
    OBVIOUS
  <2>2. run'[w] = IF run[w].inv = i THEN [run[w] EXCEPT !.points = Age(@, e)] ELSE run[w]
    BY <1>2 DEF ChangeLedger
  <2>3. run[w] \in RunStates
    BY DEF SerialInv, TypeOK
  <2>. QED
    BY <2>2, <2>3 DEF RunStates, Age
<1>10. \A j \in Investors : \A d \in Days : series'[j][d] # "none" => d <= today
  BY <1>7, <1>8 DEF SerialInv, NoFuture, Age
<1>11. ASSUME NEW j \in Investors, j # i PROVE Owed(j)'
  <2>1. Owed(j)
    BY <1>0, <1>6, <1>11, <1>14 DEF SerialInv, RowsOwe, Unqueued, AloneRequest
  <2>. QED
    BY <1>5, <1>7, <1>11, <2>1 DEF Owed, From, Dirty
<1>12. RequestOwes(q, q.inv)'
  <2>1. From(i, req[r].seen) /\ req[r].seen \in Dates
    BY <1>0, <1>14 DEF SerialInv, RequestsOwe, RequestOwes, RequestStates
  <2>2. ASSUME NEW d \in Days, Dirty(i, d)' PROVE Earlier(req[r].seen, e) <= d
    <3>1. Dirty(i, d) \/ e <= d
      BY <1>3, <1>8, <2>2 DEF Dirty, Age
    <3>2. req[r].seen <= d \/ e <= d
      BY <2>1, <3>1 DEF From
    <3>3. req[r].seen \in Nat /\ e \in Nat /\ d \in Nat
      BY <1>3, <2>1, DatesFacts
    <3>. QED
      BY <3>2, <3>3 DEF Earlier
  <2>. QED
    BY <1>3, <1>4, <2>2 DEF RequestOwes, From
<1>. QED
  BY <1>3, <1>4, <1>5, <1>6, <1>9, <1>10, <1>11, <1>12, RequestStepInv

LEMMA SerialCommitSnapshot ==
  ASSUME SerialInv, TypeOK', NEW r \in Requests, CommitSnapshot(r)
  PROVE  SerialInv'
<1>1. req[r] \in RequestStates /\ req[r].pc = "loaded" /\ today \in Days
  BY DEF SerialInv, TypeOK, CommitSnapshot
<1>2. PICK e \in 0..today :
        req' = [req EXCEPT ![r] =
          [@ EXCEPT !.pc = "committed", !.marker = e, !.as_of = e]]
  BY DEF CommitSnapshot
<1>3. PICK q : q = [req[r] EXCEPT !.pc = "committed", !.marker = e, !.as_of = e]
  OBVIOUS
<1>4. e \in Days /\ e \in Dates /\ e <= today
  BY <1>1, DatesFacts, ConstantsAssumption DEF Days, Dates
<1>5. /\ q \in RequestStates /\ q.pc = "committed" /\ q.inv = req[r].inv
      /\ q.seen = req[r].seen /\ q.marker = e /\ q.as_of = e
  BY <1>1, <1>3, <1>4 DEF RequestStates
<1>6. /\ req' = [req EXCEPT ![r] = q] /\ today' = today /\ row' = row
      /\ series' = series /\ run' = run
  BY <1>2, <1>3 DEF CommitSnapshot, rowVars, budget
<1>7. AloneRequest(r)
  BY <1>1, Alone DEF SerialInv
<1>8. ASSUME NEW j \in Investors PROVE Owed(j)'
  <2>1. Owed(j)
    BY <1>1, <1>7 DEF SerialInv, RowsOwe, Unqueued, AloneRequest
  <2>. QED
    BY <1>6, <2>1 DEF Owed, From, Dirty
<1>9. RequestOwes(q, q.inv)'
  <2>1. From(q.inv, q.seen) /\ q.seen \in Dates
    BY <1>1, <1>5 DEF SerialInv, RequestsOwe, RequestOwes, RequestStates
  <2>2. ASSUME NEW d \in Days, Dirty(q.inv, d)' PROVE Earlier(q.seen, e) <= d
    <3>1. q.seen <= d
      BY <1>6, <2>1, <2>2 DEF From, Dirty
    <3>2. q.seen \in Nat /\ e \in Nat /\ d \in Nat
      BY <1>4, <2>1, DatesFacts
    <3>. QED
      BY <3>1, <3>2 DEF Earlier
  <2>3. e <= e
    BY <1>4, DatesFacts
  <2>. QED
    BY <1>5, <2>2, <2>3 DEF RequestOwes, From
<1>10. \A j \in Investors : \A d \in Days : series'[j][d] # "none" => d <= today
  BY <1>6 DEF SerialInv, NoFuture
<1>. QED
  BY <1>4, <1>5, <1>6, <1>7, <1>8, <1>9, <1>10, RequestStepInv

LEMMA SerialQueueRecompute ==
  ASSUME SerialInv, TypeOK', NEW r \in Requests, QueueRecompute(r)
  PROVE  SerialInv'
<1>1. req[r] \in RequestStates /\ req[r].pc = "committed"
  BY DEF SerialInv, TypeOK, QueueRecompute
<1>2. PICK i : i = req[r].inv
  OBVIOUS
<1>3. PICK marker : marker = Earlier(req[r].seen, req[r].marker)
  OBVIOUS
<1>4. PICK q : q = IF req[r].as_of # NoDay THEN [req[r] EXCEPT !.pc = "seed"] ELSE IdleRequest
  OBVIOUS
<1>5. /\ q \in RequestStates
      /\ \/ q.pc = "seed" /\ q.inv = i /\ q.as_of = req[r].as_of
         \/ q.pc = "idle"
  BY <1>1, <1>2, <1>4, IdleTypes DEF RequestStates
<1>6. /\ i \in Investors
      /\ From(i, marker) /\ req[r].marker <= req[r].as_of
      /\ (req[r].as_of # NoDay => req[r].as_of <= today)
  BY <1>1, <1>2, <1>3 DEF SerialInv, RequestsOwe, RequestOwes, NoFuture, RequestStates
<1>7. marker <= req[r].as_of
  <2>1. req[r].seen \in Nat /\ req[r].marker \in Nat /\ req[r].as_of \in Nat
    BY <1>1, DatesFacts DEF RequestStates
  <2>. QED
    BY <1>3, <1>6, <2>1 DEF Earlier
<1>8. /\ req' = [req EXCEPT ![r] = q] /\ today' = today /\ series' = series /\ run' = run
      /\ row' = [row EXCEPT ![i] =
           [@ EXCEPT !.recompute_from = marker, !.status = "computing"]]
  BY <1>2, <1>3, <1>4 DEF QueueRecompute, QueuedMarker, budget
<1>9. /\ row'[i].status = "computing" /\ row'[i].recompute_from = marker
      /\ \A j \in Investors \ {i} : row'[j] = row[j]
  <2>1. row \in [Investors -> Rows] /\ row[i] \in Rows
    BY <1>6 DEF SerialInv, TypeOK
  <2>. QED
    BY <1>6, <1>8, <2>1 DEF Rows
<1>10. AloneRequest(r)
  BY <1>1, Alone DEF SerialInv
<1>11. ASSUME NEW j \in Investors PROVE Owed(j)'
  <2>1. CASE j = i
    BY <1>6, <1>8, <1>9, <2>1 DEF Owed, From, Dirty
  <2>2. CASE j # i
    <3>1. Owed(j)
      BY <1>2, <1>10, <2>2 DEF SerialInv, RowsOwe, Unqueued, AloneRequest
    <3>. QED
      BY <1>8, <1>9, <2>2, <3>1 DEF Owed, From, Dirty
  <2>. QED
    BY <2>1, <2>2
<1>12. RequestOwes(q, q.inv)'
  BY <1>5, <1>7, <1>9 DEF RequestOwes
<1>13. \A j \in Investors : \A d \in Days : series'[j][d] # "none" => d <= today
  BY <1>8 DEF SerialInv, NoFuture
<1>. QED
  BY <1>5, <1>6, <1>8, <1>10, <1>11, <1>12, <1>13, RequestStepInv

LEMMA SerialSeed ==
  ASSUME SerialInv, TypeOK', NEW r \in Requests, SeedProvisional(r)
  PROVE  SerialInv'
<1>1. req[r] \in RequestStates /\ req[r].pc = "seed"
  BY DEF SerialInv, TypeOK, SeedProvisional
<1>2. PICK i : i = req[r].inv
  OBVIOUS
<1>3. PICK a : a = req[r].as_of
  OBVIOUS
<1>4. /\ i \in Investors /\ row[i].status # "ready" /\ row[i].recompute_from <= a
      /\ (a # NoDay => a <= today)
  BY <1>1, <1>2, <1>3 DEF SerialInv, RequestsOwe, RequestOwes, NoFuture, RequestStates
<1>5. /\ req' = [req EXCEPT ![r] = IdleRequest] /\ today' = today /\ row' = row /\ run' = run
      /\ series' = [series EXCEPT ![i][a] = "provisional"]
  BY <1>2, <1>3 DEF SeedProvisional, budget
<1>6. /\ \A j \in Investors \ {i} : series'[j] = series[j]
      /\ \A d \in Days \ {a} : series'[i][d] = series[i][d]
  BY <1>4, <1>5 DEF SerialInv, TypeOK
<1>7. AloneRequest(r)
  BY <1>1, Alone DEF SerialInv
<1>8. ASSUME NEW j \in Investors PROVE Owed(j)'
  <2>1. Owed(j)
    BY <1>1, <1>7 DEF SerialInv, RowsOwe, Unqueued, AloneRequest
  <2>2. CASE j = i
    <3>1. From(i, row[i].recompute_from)
      BY <2>1, <2>2 DEF Owed
    <3>2. ASSUME NEW d \in Days, Dirty(i, d)' PROVE row[i].recompute_from <= d
      BY <1>4, <1>6, <3>1, <3>2 DEF From, Dirty
    <3>. QED
      BY <1>4, <1>5, <2>2, <3>2 DEF Owed, From
  <2>3. CASE j # i
    BY <1>5, <1>6, <2>1, <2>3 DEF Owed, From, Dirty
  <2>. QED
    BY <2>2, <2>3
<1>9. \A j \in Investors : \A d \in Days : series'[j][d] # "none" => d <= today
  BY <1>4, <1>6, DatesFacts DEF SerialInv, NoFuture
<1>10. RequestOwes(IdleRequest, IdleRequest.inv)'
  BY IdleTypes DEF RequestOwes, IdleRequest
<1>. QED
  BY <1>5, <1>7, <1>8, <1>9, <1>10, IdleTypes, RequestStepInv

-----------------------------------------------------------------------------
(* Passes.                                                                 *)

LEMMA PassFacts ==
  ASSUME SerialInv, NEW w \in Runners, AlonePass(w)
  PROVE  /\ \A i \in Investors : Owed(i)
         /\ \A i \in Investors : \A d \in Days : series[i][d] # "none" => d <= today
         /\ run[w] \in RunStates /\ run[w].inv \in Investors
         /\ run[w].upto <= today
         /\ \A d \in Days : run[w].points[d] # "none" => d <= today
         /\ PassOwes(run[w], run[w].inv) /\ SnapshotOwes(run[w])
         /\ today \in Days
<1>1. run[w] \in RunStates /\ run[w].inv \in Investors
  BY DEF SerialInv, TypeOK, RunStates
<1>. QED
  BY <1>1 DEF SerialInv, TypeOK, RowsOwe, Unqueued, AlonePass, NoFuture, PassesOwe

(* A step of a pass that only reads the database.                          *)
LEMMA PassReadInv ==
  ASSUME SerialInv, TypeOK', NEW w \in Runners, AlonePass(w),
         NEW p \in RunStates, run' = [run EXCEPT ![w] = p],
         req' = req, today' = today, row' = row, series' = series,
         p.upto <= today, \A d \in Days : p.points[d] # "none" => d <= today,
         PassOwes(p, p.inv), SnapshotOwes(p)
  PROVE  SerialInv'
<1>1. \A i \in Investors : Owed(i)'
  BY PassFacts DEF Owed, From, Dirty
<1>2. PassOwes(p, p.inv)' /\ SnapshotOwes(p)'
  BY DEF PassOwes, SnapshotOwes, Window, From, Dirty
<1>3. \A i \in Investors : \A d \in Days : series'[i][d] # "none" => d <= today
  BY PassFacts
<1>. QED
  BY <1>1, <1>2, <1>3, PassStepInv

LEMMA IdlePassOwes ==
  /\ IdleRun.upto = 0 /\ \A d \in Days : IdleRun.points[d] = "none"
  /\ PassOwes(IdleRun, IdleRun.inv) /\ SnapshotOwes(IdleRun)
BY IdleTypes DEF IdleRun, NoPoints, NoMarker, PassOwes, SnapshotOwes

LEMMA NextInPassOwes ==
  ASSUME NEW pass \in RunStates, SnapshotOwes(pass)
  PROVE  LET p == NextInPass(pass) IN
         /\ p \in RunStates /\ p.upto = 0 /\ p.from = pass.from
         /\ p.pc = "next" /\ \A d \in Days : p.points[d] = "none"
         /\ PassOwes(p, p.inv) /\ SnapshotOwes(p)
<1> DEFINE p == NextInPass(pass)
<1>1. p \in RunStates
  BY NextInPassType
<1>2. p.pc = "next" /\ p.upto = 0 /\ p.from = pass.from /\ p.points = NoPoints
  BY DEF NextInPass, IdleRun, RunStates
<1>. QED
  BY <1>1, <1>2 DEF NoPoints, PassOwes, SnapshotOwes

LEMMA SerialSelectDue ==
  ASSUME SerialInv, TypeOK', Quiet, SelectDue
  PROVE  SerialInv'
<1>0. Scheduler \in Runners
  BY DEF Runners
<1>1. AlonePass(Scheduler)
  BY <1>0, Alone
<1>2. PICK p : p = [run[Scheduler] EXCEPT
                      !.pc = "prime",
                      !.due = {i \in Investors : Due(i)},
                      !.from = [i \in Investors |->
                         IF Due(i) THEN row[i].recompute_from ELSE NoDay]]
  OBVIOUS
<1>3. /\ p \in RunStates /\ p.pc = "prime" /\ p.upto = run[Scheduler].upto
      /\ p.points = run[Scheduler].points
      /\ \A i \in Investors : p.from[i] \in {NoDay, row[i].recompute_from}
  <2>1. \A i \in Investors : row[i].recompute_from \in Dates
    BY DEF SerialInv, TypeOK, Rows
  <2>. QED
    BY <1>0, <1>1, <1>2, <2>1, PassFacts, DatesFacts DEF RunStates
<1>4. /\ run' = [run EXCEPT ![Scheduler] = p] /\ req' = req /\ today' = today
      /\ row' = row /\ series' = series
  BY <1>2 DEF SelectDue, rowVars
<1>5. SnapshotOwes(p) /\ PassOwes(p, p.inv)
  BY <1>0, <1>1, <1>3, PassFacts DEF SnapshotOwes, PassOwes, Owed
<1>. QED
  BY <1>0, <1>1, <1>3, <1>4, <1>5, PassFacts, PassReadInv

LEMMA SerialStartRefresh ==
  ASSUME SerialInv, TypeOK', Quiet, NEW w \in Refreshers, StartRefresh(w)
  PROVE  SerialInv'
<1>0. w \in Runners
  BY DEF Runners
<1>1. AlonePass(w)
  BY <1>0, Alone
<1>2. PICK p : p = [run[w] EXCEPT !.pc = "prime", !.due = Investors]
  OBVIOUS
<1>3. /\ p \in RunStates /\ p.pc = "prime" /\ p.upto = run[w].upto
      /\ p.points = run[w].points /\ p.from = run[w].from
  BY <1>0, <1>1, <1>2, PassFacts DEF RunStates
<1>4. /\ run' = [run EXCEPT ![w] = p] /\ req' = req /\ today' = today
      /\ row' = row /\ series' = series
  BY <1>2 DEF StartRefresh, rowVars
<1>5. SnapshotOwes(p) /\ PassOwes(p, p.inv)
  BY <1>0, <1>1, <1>3, PassFacts DEF SnapshotOwes, PassOwes
<1>. QED
  BY <1>0, <1>1, <1>3, <1>4, <1>5, PassFacts, PassReadInv

LEMMA SerialPrimeNavs ==
  ASSUME SerialInv, TypeOK', NEW w \in Runners, PrimeNavs(w)
  PROVE  SerialInv'
<1>1. AlonePass(w) /\ run[w].pc = "prime"
  BY Alone DEF SerialInv, PrimeNavs
<1>2. PICK p : p = [run[w] EXCEPT !.pc = "next"]
  OBVIOUS
<1>3. /\ p \in RunStates /\ p.pc = "next" /\ p.upto = run[w].upto
      /\ p.points = run[w].points /\ p.from = run[w].from
  BY <1>1, <1>2, PassFacts DEF RunStates
<1>4. /\ run' = [run EXCEPT ![w] = p] /\ req' = req /\ today' = today
      /\ row' = row /\ series' = series
  BY <1>2 DEF PrimeNavs, rowVars, budget
<1>5. SnapshotOwes(p) /\ PassOwes(p, p.inv)
  BY <1>1, <1>3, PassFacts DEF SnapshotOwes, PassOwes
<1>. QED
  BY <1>1, <1>3, <1>4, <1>5, PassFacts, PassReadInv

(* The window starts no later than any dirty day: at the snapshot's marker *)
(* or at the row's, and each of them reaches back to all of them.          *)
LEMMA SerialBeginRecompute ==
  ASSUME SerialInv, TypeOK', NEW w \in Runners, BeginRecompute(w)
  PROVE  SerialInv'
<1>1. AlonePass(w) /\ run[w].pc = "next"
  BY Alone DEF SerialInv, BeginRecompute
<1>2. PICK i \in run[w].due :
        LET start == OrElse(run[w].from[i], OrElse(row[i].recompute_from,
                       OrElse(row[i].computed_through, firstActivity[i])))
        IN run' = [run EXCEPT ![w] =
             [pc |-> IF start = NoDay THEN "finish" ELSE "begin",
              due |-> @.due \ {i}, from |-> [@.from EXCEPT ![i] = NoDay],
              inv |-> i, start |-> start,
              upto |-> WindowEnd, attempts |-> row[i].attempts, points |-> NoPoints]]
  BY DEF BeginRecompute
<1>3. PICK start : start = OrElse(run[w].from[i], OrElse(row[i].recompute_from,
                             OrElse(row[i].computed_through, firstActivity[i])))
  OBVIOUS
<1>4. PICK p : p = [pc |-> IF start = NoDay THEN "finish" ELSE "begin",
                    due |-> run[w].due \ {i}, from |-> [run[w].from EXCEPT ![i] = NoDay],
                    inv |-> i, start |-> start,
                    upto |-> today, attempts |-> row[i].attempts, points |-> NoPoints]
  OBVIOUS
<1>5. /\ i \in Investors /\ run[w].due \in SUBSET Investors /\ run[w].attempts \in Nat
      /\ run[w].from \in [Investors -> Dates] /\ row[i] \in Rows
      /\ row[i].recompute_from \in Dates /\ row[i].computed_through \in Dates
      /\ firstActivity[i] \in Dates /\ row[i].attempts \in Nat
  <2>1. i \in Investors
    BY <1>1, PassFacts DEF RunStates
  <2>. QED
    BY <1>1, <2>1, PassFacts DEF RunStates, Rows, SerialInv, TypeOK
<1>6. start \in Dates
  BY <1>3, <1>5, EarlierType
<1>7. p \in RunStates
  BY <1>1, <1>4, <1>5, <1>6, PassFacts, IdleTypes, DatesFacts DEF RunStates
<1>8. ASSUME NEW d \in Days, Dirty(i, d) PROVE start <= d /\ start # NoDay /\ d <= today
  <2>1. row[i].recompute_from <= d /\ row[i].recompute_from # NoDay
    BY <1>1, <1>5, <1>8, PassFacts, DatesFacts, ConstantsAssumption
    DEF Owed, From, Dates, Days, NoDay
  <2>2. run[w].from[i] # NoDay => run[w].from[i] <= d
    BY <1>1, <1>5, <1>8, PassFacts DEF SnapshotOwes, From
  <2>3. d <= today
    BY <1>1, <1>5, <1>8, PassFacts DEF Dirty
  <2>. QED
    BY <1>3, <2>1, <2>2, <2>3 DEF OrElse
<1>9. PassOwes(p, p.inv)
  BY <1>4, <1>8 DEF PassOwes, Window
<1>10. SnapshotOwes(p)
  BY <1>1, <1>4, <1>5, PassFacts DEF SnapshotOwes
<1>11. /\ run' = [run EXCEPT ![w] = p] /\ req' = req /\ today' = today
       /\ row' = row /\ series' = series
  BY <1>2, <1>3, <1>4 DEF BeginRecompute, WindowEnd, rowVars
<1>12. p.upto <= today /\ \A d \in Days : p.points[d] # "none" => d <= today
  <2>1. today \in Nat
    BY <1>1, PassFacts, DatesFacts
  <2>. QED
    BY <1>4, <2>1 DEF NoPoints
<1>. QED
  BY <1>1, <1>7, <1>9, <1>10, <1>11, <1>12, PassReadInv

LEMMA SerialMarkComputing ==
  ASSUME SerialInv, TypeOK', NEW w \in Runners, MarkComputing(w)
  PROVE  SerialInv'
<1>1. AlonePass(w) /\ run[w].pc = "begin"
  BY Alone DEF SerialInv, MarkComputing
<1>2. PICK i : i = run[w].inv
  OBVIOUS
<1>3. PICK p : p = [run[w] EXCEPT !.pc = "value"]
  OBVIOUS
<1>4. /\ p \in RunStates /\ p.pc = "value" /\ p.upto = run[w].upto /\ p.inv = i
      /\ p.points = run[w].points /\ p.from = run[w].from /\ p.start = run[w].start
  BY <1>1, <1>2, <1>3, PassFacts DEF RunStates
<1>5. /\ run' = [run EXCEPT ![w] = p] /\ req' = req /\ today' = today /\ series' = series
      /\ row' = [row EXCEPT ![i].status = "computing"]
  BY <1>2, <1>3 DEF MarkComputing, budget
<1>6. /\ row'[i].status = "computing" /\ row'[i].recompute_from = row[i].recompute_from
      /\ \A j \in Investors \ {i} : row'[j] = row[j]
  <2>1. i \in Investors /\ row \in [Investors -> Rows] /\ row[i] \in Rows
    BY <1>1, <1>2, PassFacts DEF SerialInv, TypeOK
  <2>. QED
    BY <1>5, <2>1 DEF Rows
<1>7. \A j \in Investors : Owed(j)'
  BY <1>1, <1>5, <1>6, PassFacts DEF Owed, From, Dirty
<1>8. PassOwes(p, p.inv)' /\ SnapshotOwes(p)'
  BY <1>1, <1>2, <1>4, <1>5, PassFacts DEF PassOwes, SnapshotOwes, Window, From, Dirty
<1>. QED
  BY <1>1, <1>4, <1>5, <1>7, <1>8, PassFacts, PassStepInv

LEMMA SerialMarkError ==
  ASSUME SerialInv, TypeOK', NEW w \in Runners, run[w].pc # "idle", MarkError(w),
         req' = req, today' = today, series' = series
  PROVE  SerialInv'
<1>1. AlonePass(w)
  BY Alone DEF SerialInv
<1>2. PICK i : i = run[w].inv
  OBVIOUS
<1>3. PICK p : p = NextInPass(run[w])
  OBVIOUS
<1>4. /\ p \in RunStates /\ p.pc = "next" /\ p.upto = 0 /\ p.from = run[w].from
      /\ \A d \in Days : p.points[d] = "none"
  BY <1>1, <1>3, PassFacts, NextInPassOwes
<1>5. /\ run' = [run EXCEPT ![w] = p]
      /\ row' = [row EXCEPT ![i] = ErrorRow(@, run[w].attempts + 1)]
  BY <1>2, <1>3 DEF MarkError
<1>6. /\ row'[i].status = "error" /\ row'[i].recompute_from = row[i].recompute_from
      /\ \A j \in Investors \ {i} : row'[j] = row[j]
  <2>1. i \in Investors /\ row \in [Investors -> Rows] /\ row[i] \in Rows
    BY <1>1, <1>2, PassFacts DEF SerialInv, TypeOK
  <2>. QED
    BY <1>5, <2>1 DEF Rows, ErrorRow
<1>7. \A j \in Investors : Owed(j)'
  BY <1>1, <1>6, PassFacts DEF Owed, From, Dirty
<1>8. PassOwes(p, p.inv)' /\ SnapshotOwes(p)'
  BY <1>1, <1>4, PassFacts DEF PassOwes, SnapshotOwes, From, Dirty
<1>9. p.upto <= today
  <2>1. today \in Nat
    BY <1>1, PassFacts, DatesFacts
  <2>. QED
    BY <1>4, <2>1
<1>. QED
  BY <1>1, <1>4, <1>5, <1>7, <1>8, <1>9, PassFacts, PassStepInv

LEMMA SerialValueSeries ==
  ASSUME SerialInv, TypeOK', NEW w \in Runners, ValueSeries(w)
  PROVE  SerialInv'
<1>1. AlonePass(w) /\ run[w].pc = "value"
  BY Alone DEF SerialInv, ValueSeries
<1>2. PICK pts : pts = [d \in Days |-> IF run[w].start <= d /\ d <= run[w].upto
                                       THEN "fresh" ELSE "none"]
  OBVIOUS
<1>3. PICK p : p = [run[w] EXCEPT !.pc = "upsert", !.points = pts]
  OBVIOUS
<1>4. /\ p \in RunStates /\ p.pc = "upsert" /\ p.upto = run[w].upto /\ p.inv = run[w].inv
      /\ p.points = pts /\ p.from = run[w].from /\ p.start = run[w].start
  <2>1. pts \in [Days -> Points]
    BY <1>2 DEF Points
  <2>. QED
    BY <1>1, <1>3, <2>1, PassFacts DEF RunStates
<1>5. /\ run' = [run EXCEPT ![w] = p] /\ req' = req /\ today' = today
      /\ row' = row /\ series' = series
  BY <1>2, <1>3 DEF ValueSeries, rowVars, budget
<1>6. PassOwes(p, p.inv) /\ SnapshotOwes(p)
  BY <1>1, <1>2, <1>4, PassFacts DEF PassOwes, SnapshotOwes, Window
<1>7. ASSUME NEW d \in Days, p.points[d] # "none" PROVE d <= today
  <2>1. d <= run[w].upto
    BY <1>2, <1>4, <1>7
  <2>2. run[w].upto <= today /\ d \in Nat /\ run[w].upto \in Nat /\ today \in Nat
    BY <1>1, PassFacts, DatesFacts DEF RunStates
  <2>. QED
    BY <2>1, <2>2
<1>. QED
  BY <1>1, <1>4, <1>5, <1>6, <1>7, PassFacts, PassReadInv

(* The upsert covers the window, and the window holds every dirty day.     *)
LEMMA SerialUpsertSeries ==
  ASSUME SerialInv, TypeOK', NEW w \in Runners, UpsertSeries(w)
  PROVE  SerialInv'
<1>1. AlonePass(w) /\ run[w].pc = "upsert"
  BY Alone DEF SerialInv, UpsertSeries
<1>2. PICK i : i = run[w].inv
  OBVIOUS
<1>3. PICK pts : pts = run[w].points
  OBVIOUS
<1>4. PICK p : p = [run[w] EXCEPT !.pc = "finish", !.points = NoPoints]
  OBVIOUS
<1>5. /\ p \in RunStates /\ p.pc = "finish" /\ p.upto = run[w].upto /\ p.inv = i
      /\ p.points = NoPoints /\ p.from = run[w].from
  BY <1>1, <1>2, <1>4, PassFacts, IdleTypes DEF RunStates
<1>6. /\ run' = [run EXCEPT ![w] = p] /\ req' = req /\ today' = today /\ row' = row
      /\ series' = [series EXCEPT ![i] =
           [d \in Days |-> IF pts[d] = "none" THEN @[d] ELSE pts[d]]]
  BY <1>2, <1>3, <1>4 DEF UpsertSeries, budget
<1>7. /\ i \in Investors
      /\ \A j \in Investors \ {i} : series'[j] = series[j]
      /\ \A d \in Days : series'[i][d] = IF pts[d] = "none" THEN series[i][d] ELSE pts[d]
  BY <1>1, <1>2, <1>6, PassFacts DEF SerialInv, TypeOK
<1>8. ASSUME NEW d \in Days PROVE ~Dirty(i, d)'
  <2>1. Dirty(i, d) => pts[d] = "fresh"
    BY <1>1, <1>2, <1>3, PassFacts DEF PassOwes, Window
  <2>2. pts[d] \in {"none", "fresh"}
    BY <1>1, <1>3, PassFacts DEF PassOwes
  <2>. QED
    BY <1>7, <2>1, <2>2 DEF Dirty
<1>9. \A j \in Investors : Owed(j)'
  BY <1>1, <1>6, <1>7, <1>8, PassFacts DEF Owed, From, Dirty
<1>10. SnapshotOwes(p)'
  BY <1>1, <1>5, <1>7, <1>8, PassFacts DEF SnapshotOwes, From, Dirty
<1>11. PassOwes(p, p.inv)'
  BY <1>5, <1>8 DEF PassOwes
<1>12. \A j \in Investors : \A d \in Days : series'[j][d] # "none" => d <= today
  BY <1>1, <1>3, <1>7, PassFacts
<1>13. \A d \in Days : p.points[d] # "none" => d <= today
  BY <1>5 DEF NoPoints
<1>. QED
  BY <1>1, <1>5, <1>6, <1>9, <1>10, <1>11, <1>12, <1>13, PassFacts, PassStepInv

LEMMA SerialMarkReady ==
  ASSUME SerialInv, TypeOK', NEW w \in Runners, MarkReady(w)
  PROVE  SerialInv'
<1>1. AlonePass(w) /\ run[w].pc = "finish"
  BY Alone DEF SerialInv, MarkReady
<1>2. PICK i : i = run[w].inv
  OBVIOUS
<1>3. PICK p : p = NextInPass(run[w])
  OBVIOUS
<1>4. /\ p \in RunStates /\ p.pc = "next" /\ p.upto = 0 /\ p.from = run[w].from
      /\ \A d \in Days : p.points[d] = "none"
  BY <1>1, <1>3, PassFacts, NextInPassOwes
<1>5. /\ run' = [run EXCEPT ![w] = p] /\ req' = req /\ today' = today /\ series' = series
      /\ row' = [row EXCEPT ![i] = ReadyRow(@, run[w].upto)]
  BY <1>2, <1>3 DEF MarkReady, budget
<1>6. i \in Investors /\ \A j \in Investors \ {i} : row'[j] = row[j]
  BY <1>1, <1>2, <1>5, PassFacts DEF SerialInv, TypeOK
<1>7. \A d \in Days : ~Dirty(i, d)
  BY <1>1, <1>2, PassFacts DEF PassOwes
<1>8. \A j \in Investors : Owed(j)'
  BY <1>1, <1>5, <1>6, <1>7, PassFacts DEF Owed, From, Dirty
<1>9. PassOwes(p, p.inv)' /\ SnapshotOwes(p)'
  BY <1>1, <1>4, <1>5, PassFacts DEF PassOwes, SnapshotOwes, From, Dirty
<1>10. p.upto <= today
  <2>1. today \in Nat
    BY <1>1, PassFacts, DatesFacts
  <2>. QED
    BY <1>4, <2>1
<1>. QED
  BY <1>1, <1>4, <1>5, <1>8, <1>9, <1>10, PassFacts, PassStepInv

LEMMA SerialStopPass ==
  ASSUME SerialInv, TypeOK', NEW w \in Runners, EndPass(w) \/ KillRunner(w)
  PROVE  SerialInv'
<1>1. AlonePass(w)
  BY Alone DEF SerialInv, EndPass, KillRunner
<1>2. /\ run' = [run EXCEPT ![w] = IdleRun] /\ req' = req /\ today' = today
      /\ row' = row /\ series' = series
  BY DEF EndPass, KillRunner, rowVars
<1>3. PICK p : p = IdleRun
  OBVIOUS
<1>4. /\ p \in RunStates /\ p.upto <= today /\ \A d \in Days : p.points[d] = "none"
      /\ PassOwes(p, p.inv) /\ SnapshotOwes(p)
  <2>1. today \in Nat
    BY <1>1, PassFacts, DatesFacts
  <2>. QED
    BY <1>3, <2>1, IdleTypes, IdlePassOwes
<1>. QED
  BY <1>1, <1>2, <1>3, <1>4, PassReadInv

-----------------------------------------------------------------------------
LEMMA SerialInit == Init => SerialInv
<1>. SUFFICES ASSUME Init PROVE SerialInv
  OBVIOUS
<1>1. TypeOK
  BY TypeInit
<1>2. \A r \in Requests : req[r].pc = "idle"
  BY IdleTypes DEF Init
<1>3. \A w \in Runners : run[w] = IdleRun
  BY DEF Init
<1>4. \A i \in Investors : \A d \in Days : series[i][d] = "none"
  BY DEF Init, NoPoints
<1>5. Exclusive
  BY <1>2, <1>3, IdleTypes DEF Exclusive
<1>6. NoFuture
  BY <1>2, <1>3, <1>4, IdlePassOwes DEF NoFuture, Init
<1>7. RowsOwe /\ RequestsOwe
  BY <1>2, <1>4 DEF RowsOwe, RequestsOwe, RequestOwes, Owed, From, Dirty
<1>8. PassesOwe
  BY <1>3, IdlePassOwes DEF PassesOwe
<1>. QED
  BY <1>1, <1>5, <1>6, <1>7, <1>8 DEF SerialInv

LEMMA SerialClock ==
  ASSUME SerialInv, TypeOK', Clock
  PROVE  SerialInv'
<1>1. row \in [Investors -> Rows] /\ today \in Nat
  BY DatesFacts DEF SerialInv, TypeOK
<1>2. CASE NextDay
  BY <1>1, <1>2, RowStepInv DEF NextDay, rowVars
<1>3. CASE RollReady
  <2>1. ASSUME NEW i \in Investors
        PROVE  \/ row[i].status = "ready" /\ row'[i].status # "ready"
               \/ row'[i] = row[i]
    BY <1>1, <1>3, <2>1 DEF RollReady, Rows
  <2>2. series' = series /\ req' = req /\ run' = run /\ today' = today
    BY <1>3 DEF RollReady
  <2>. QED
    BY <1>1, <2>1, <2>2, RowStepInv
<1>4. CASE RetryErrored
  <2>1. ASSUME NEW i \in Investors
        PROVE  /\ row'[i].status = "ready" => row[i].status = "ready"
               /\ row'[i].recompute_from = row[i].recompute_from
    BY <1>1, <1>4, <2>1 DEF RetryErrored, Rows
  <2>2. series' = series /\ req' = req /\ run' = run /\ today' = today
    BY <1>4 DEF RetryErrored
  <2>. QED
    BY <1>1, <2>1, <2>2, RowStepInv
<1>5. ASSUME NEW j \in Investors, BackoffElapses(j) PROVE SerialInv'
  <2>1. ASSUME NEW i \in Investors
        PROVE  /\ row'[i].status = "ready" => row[i].status = "ready"
               /\ row'[i].recompute_from = row[i].recompute_from
    BY <1>1, <1>5, <2>1 DEF BackoffElapses, Rows
  <2>2. series' = series /\ req' = req /\ run' = run /\ today' = today
    BY <1>5 DEF BackoffElapses
  <2>. QED
    BY <1>1, <2>1, <2>2, RowStepInv
<1>. QED
  BY <1>2, <1>3, <1>4, <1>5 DEF Clock, EnqueueDailyExtend, EnqueueCatchUp

LEMMA SerialStep == SerialInv /\ [SerialNext]_vars => SerialInv'
<1>. SUFFICES ASSUME SerialInv, [SerialNext]_vars PROVE SerialInv'
  OBVIOUS
<1>1. TypeOK'
  BY TypeNext DEF SerialInv, SerialNext, Next
<1>2. CASE Quiet /\ Entry
  BY <1>1, <1>2, SerialBeginImport, SerialSelectDue, SerialStartRefresh DEF Entry
<1>3. ASSUME NEW r \in Requests, ImportStep(r) PROVE SerialInv'
  BY <1>1, <1>3, SerialCommitLedger, SerialCommitSnapshot, SerialQueueRecompute, SerialSeed
  DEF ImportStep
<1>4. ASSUME NEW w \in Runners, AwaitPrice(w) \/ FailRecompute(w) PROVE SerialInv'
  BY <1>1, <1>4, SerialMarkError DEF AwaitPrice, FailRecompute
<1>5. ASSUME NEW w \in Runners, RunStep(w) PROVE SerialInv'
  BY <1>1, <1>4, <1>5, SerialPrimeNavs, SerialBeginRecompute, SerialMarkComputing,
     SerialValueSeries, SerialUpsertSeries, SerialMarkReady, SerialStopPass DEF RunStep
<1>6. ASSUME NEW w \in Runners, KillRunner(w) PROVE SerialInv'
  BY <1>1, <1>6, SerialStopPass
<1>7. CASE Clock
  BY <1>1, <1>7, SerialClock
<1>8. CASE UNCHANGED vars
  <2>1. today <= today'
    BY <1>8, DatesFacts DEF SerialInv, TypeOK, vars
  <2>. QED
    BY <1>1, <1>8, <2>1, RowStepInv DEF vars
<1>. QED
  BY <1>2, <1>3, <1>4, <1>5, <1>6, <1>7, <1>8 DEF SerialNext, Progress

(* Under the one-actor-at-a-time schedule, a READY investor with no import *)
(* between its commit and its marker has no stored point the ledger has    *)
(* overtaken and no provisional figure, through failures, deaths of a      *)
(* pass, retries and cron runs at any moment.                              *)
THEOREM SerialReadyIsCurrent == SerialSpec => []ReadyIsCurrent
<1>1. SerialInv => ReadyIsCurrent
  BY DEF SerialInv, RowsOwe, Unqueued, Owed, Dirty, InFlight, ReadyIsCurrent
<1>. QED
  BY <1>1, SerialInit, SerialStep, PTL DEF SerialSpec

-----------------------------------------------------------------------------
(***************************************************************************)
(* The work-list implements ValuationPromise under the schedule the design *)
(* counts on (SerialSpec): every step is a change, some work, an           *)
(* announcement or a withdrawal of the abstract specification.             *)
(***************************************************************************)

ShownMap == [i \in Investors |-> ShownDays(i)]
OwedMap  == [i \in Investors |-> OwedDays(i)]

(* A step that writes no point and announces nobody.                       *)
LEMMA WithdrawStep ==
  ASSUME series' = series, Announced' \subseteq Announced
  PROVE  Promise!Withdraw
<1>1. OwedMap' = OwedMap /\ ShownMap' = ShownMap
  BY DEF OwedMap, ShownMap, OwedDays, ShownDays
<1>. QED
  BY <1>1 DEF Promise!Withdraw, OwedMap, ShownMap

(* In particular a step that makes no row READY and takes no import out of *)
(* flight.                                                                 *)
LEMMA QuietRows ==
  ASSUME series' = series,
         \A i \in Investors : row'[i].status = "ready" => row[i].status = "ready",
         \A i \in Investors : row'[i].status = "ready" /\ InFlight(i) => InFlight(i)'
  PROVE  Promise!Withdraw
<1>1. Announced' \subseteq Announced
  BY DEF Announced
<1>. QED
  BY <1>1, WithdrawStep

-----------------------------------------------------------------------------
(* Imports.                                                                *)
LEMMA PromiseBegin ==
  ASSUME SerialInv, NEW r \in Requests, NEW i \in Investors, BeginImport(r, i)
  PROVE  Promise!Withdraw
<1>1. \A q \in Requests \ {r} : req'[q] = req[q]
  BY DEF BeginImport, SerialInv, TypeOK
<1>2. req[r].pc = "idle" /\ series' = series /\ row' = row
  BY DEF BeginImport, rowVars
<1>3. \A j \in Investors : InFlight(j) => InFlight(j)'
  BY <1>1, <1>2 DEF InFlight
<1>. QED
  BY <1>2, <1>3, QuietRows

LEMMA PromiseCommitSnapshot ==
  ASSUME SerialInv, NEW r \in Requests, CommitSnapshot(r)
  PROVE  Promise!Withdraw
<1>1. req[r].pc = "loaded" /\ series' = series /\ row' = row
  BY DEF CommitSnapshot, rowVars
<1>2. \A q \in Requests \ {r} : req'[q] = req[q]
  BY DEF CommitSnapshot, SerialInv, TypeOK
<1>3. \A j \in Investors : InFlight(j) => InFlight(j)'
  BY <1>1, <1>2 DEF InFlight
<1>. QED
  BY <1>1, <1>3, QuietRows

LEMMA PromiseQueue ==
  ASSUME SerialInv, NEW r \in Requests, QueueRecompute(r)
  PROVE  Promise!Withdraw
<1>1. PICK i : i = req[r].inv
  OBVIOUS
<1>2. i \in Investors
  BY <1>1 DEF SerialInv, TypeOK, RequestStates
<1>3. row'[i].status = "computing" /\ \A j \in Investors \ {i} : row'[j] = row[j]
  BY <1>1, <1>2 DEF QueueRecompute, SerialInv, TypeOK, Rows
<1>4. \A q \in Requests \ {r} : req'[q] = req[q]
  BY DEF QueueRecompute, SerialInv, TypeOK
<1>5. \A j \in Investors \ {i} : InFlight(j) => InFlight(j)'
  BY <1>1, <1>4 DEF InFlight
<1>. QED
  BY <1>3, <1>5, QuietRows DEF QueueRecompute

LEMMA PromiseCommitLedger ==
  ASSUME SerialInv, NEW r \in Requests, CommitLedger(r)
  PROVE  \E i \in Investors : Promise!Change(i)
<1>1. PICK i : i = req[r].inv
  OBVIOUS
<1>2. i \in Investors /\ req[r] \in RequestStates
  BY <1>1 DEF SerialInv, TypeOK, RequestStates
<1>3. PICK e \in 0..today :
        /\ series' = [series EXCEPT ![i] = Age(@, e)]
        /\ \E close \in e..today \union {NoDay} :
             req' = [req EXCEPT ![r] =
                       [@ EXCEPT !.pc = "committed", !.marker = e, !.as_of = close]]
  BY <1>1 DEF CommitLedger, ChangeLedger
<1>4. DEFINE aged == {d \in Days : d >= e /\ series[i][d] = "fresh"}
<1>5. \A d \in Days : series'[i][d] = IF d \in aged THEN "stale" ELSE series[i][d]
  BY <1>2, <1>3 DEF Age, SerialInv, TypeOK
<1>6. \A j \in Investors \ {i} : series'[j] = series[j]
  BY <1>2, <1>3 DEF SerialInv, TypeOK
<1>7. OwedMap' = [OwedMap EXCEPT ![i] = @ \union aged]
  <2>1. OwedDays(i)' = OwedDays(i) \union aged
    BY <1>5 DEF OwedDays
  <2>2. \A j \in Investors \ {i} : OwedDays(j)' = OwedDays(j)
    BY <1>6 DEF OwedDays
  <2>. QED
    BY <1>2, <2>1, <2>2 DEF OwedMap
<1>8. ShownMap' = [ShownMap EXCEPT ![i] = @ \union aged]
  <2>1. ShownDays(i)' = ShownDays(i) \union aged
    BY <1>5 DEF ShownDays
  <2>2. \A j \in Investors \ {i} : ShownDays(j)' = ShownDays(j)
    BY <1>6 DEF ShownDays
  <2>. QED
    BY <1>2, <2>1, <2>2 DEF ShownMap
<1>9. Announced' = Announced \ {i}
  <2>1. req'[r].pc = "committed" /\ req'[r].inv = i /\ req[r].pc = "loaded"
    BY <1>1, <1>2, <1>3 DEF CommitLedger, SerialInv, TypeOK, RequestStates
  <2>2. \A q \in Requests \ {r} : req'[q] = req[q]
    BY <1>3 DEF SerialInv, TypeOK
  <2>3. InFlight(i)' /\ \A j \in Investors \ {i} : InFlight(j)' <=> InFlight(j)
    BY <1>1, <2>1, <2>2 DEF InFlight
  <2>4. row' = row
    BY DEF CommitLedger
  <2>. QED
    BY <2>3, <2>4 DEF Announced
<1>10. aged \in SUBSET Days
  OBVIOUS
<1>. QED
  BY <1>2, <1>7, <1>8, <1>9, <1>10 DEF Promise!Change, OwedMap, ShownMap

LEMMA PromiseSeed ==
  ASSUME SerialInv, NEW r \in Requests, SeedProvisional(r)
  PROVE  \E i \in Investors : Promise!Change(i)
<1>1. PICK i : i = req[r].inv
  OBVIOUS
<1>2. i \in Investors /\ req[r].pc = "seed" /\ row[i].status # "ready"
  BY <1>1 DEF SerialInv, TypeOK, RequestStates, SeedProvisional, RequestsOwe, RequestOwes
<1>3. PICK day : day = req[r].as_of
  OBVIOUS
<1>4. /\ series' = [series EXCEPT ![i][day] = "provisional"]
      /\ req' = [req EXCEPT ![r] = IdleRequest] /\ row' = row
  BY <1>1, <1>3 DEF SeedProvisional
<1>5. DEFINE seeded == {d \in Days : d = day}
<1>6. /\ \A d \in Days : series'[i][d] = IF d \in seeded THEN "provisional" ELSE series[i][d]
      /\ \A j \in Investors \ {i} : series'[j] = series[j]
  BY <1>2, <1>4 DEF SerialInv, TypeOK
<1>7. OwedMap' = [OwedMap EXCEPT ![i] = @ \union seeded]
  <2>1. OwedDays(i)' = OwedDays(i) \union seeded
    BY <1>6 DEF OwedDays
  <2>2. \A j \in Investors \ {i} : OwedDays(j)' = OwedDays(j)
    BY <1>6 DEF OwedDays
  <2>. QED
    BY <1>2, <2>1, <2>2 DEF OwedMap
<1>8. ShownMap' = [ShownMap EXCEPT ![i] = @ \union seeded]
  <2>1. ShownDays(i)' = ShownDays(i) \union seeded
    BY <1>6 DEF ShownDays
  <2>2. \A j \in Investors \ {i} : ShownDays(j)' = ShownDays(j)
    BY <1>6 DEF ShownDays
  <2>. QED
    BY <1>2, <2>1, <2>2 DEF ShownMap
<1>9. Announced' = Announced \ {i}
  <2>1. \A q \in Requests \ {r} : req'[q] = req[q]
    BY <1>4 DEF SerialInv, TypeOK
  <2>2. req'[r].pc = "idle"
    BY <1>4, IdleTypes DEF SerialInv, TypeOK
  <2>3. \A j \in Investors \ {i} : InFlight(j)' <=> InFlight(j)
    BY <1>1, <2>1, <2>2 DEF InFlight
  <2>. QED
    BY <1>2, <1>4, <2>3 DEF Announced
<1>10. seeded \in SUBSET Days
  OBVIOUS
<1>. QED
  BY <1>2, <1>7, <1>8, <1>9, <1>10 DEF Promise!Change, OwedMap, ShownMap

-----------------------------------------------------------------------------
(* Passes.                                                                 *)
LEMMA PromiseUpsert ==
  ASSUME SerialInv, NEW w \in Runners, UpsertSeries(w)
  PROVE  \E i \in Investors : Promise!Work(i)
<1>1. PICK i : i = run[w].inv
  OBVIOUS
<1>2. PICK pts : pts = run[w].points
  OBVIOUS
<1>3. i \in Investors /\ \A d \in Days : pts[d] \in {"none", "fresh"}
  BY <1>1, <1>2 DEF SerialInv, TypeOK, RunStates, UpsertSeries, PassesOwe, PassOwes
<1>4. series' = [series EXCEPT ![i] = [d \in Days |-> IF pts[d] = "none" THEN @[d] ELSE pts[d]]]
  BY <1>1, <1>2 DEF UpsertSeries
<1>5. DEFINE done == {d \in Days : pts[d] = "fresh"}
<1>6. /\ \A d \in Days : series'[i][d] = IF d \in done THEN "fresh" ELSE series[i][d]
      /\ \A j \in Investors \ {i} : series'[j] = series[j]
  BY <1>3, <1>4 DEF SerialInv, TypeOK
<1>7. OwedMap' = [OwedMap EXCEPT ![i] = @ \ done]
  <2>1. OwedDays(i)' = OwedDays(i) \ done
    BY <1>6 DEF OwedDays
  <2>2. \A j \in Investors \ {i} : OwedDays(j)' = OwedDays(j)
    BY <1>6 DEF OwedDays
  <2>. QED
    BY <1>3, <2>1, <2>2 DEF OwedMap
<1>8. ShownMap' = [ShownMap EXCEPT ![i] = @ \union done]
  <2>1. ShownDays(i)' = ShownDays(i) \union done
    BY <1>6 DEF ShownDays
  <2>2. \A j \in Investors \ {i} : ShownDays(j)' = ShownDays(j)
    BY <1>6 DEF ShownDays
  <2>. QED
    BY <1>3, <2>1, <2>2 DEF ShownMap
<1>9. Announced' = Announced
  BY DEF UpsertSeries, Announced, InFlight
<1>10. done \in SUBSET Days
  OBVIOUS
<1>. QED
  <2>1. \E paid, new \in SUBSET Days :
          /\ OwedMap' = [OwedMap EXCEPT ![i] = @ \ paid]
          /\ ShownMap' = [ShownMap EXCEPT ![i] = @ \union new]
    BY <1>7, <1>8, <1>10, Zenon
  <2>2. Promise!Work(i)
    BY <1>9, <2>1, Zenon DEF Promise!Work, OwedMap, ShownMap
  <2>. QED
    BY <1>3, <2>2

LEMMA PromiseMarkReady ==
  ASSUME SerialInv, NEW w \in Runners, MarkReady(w)
  PROVE  \E i \in Investors : Promise!Announce(i)
<1>1. PICK i : i = run[w].inv
  OBVIOUS
<1>2. AlonePass(w) /\ run[w].pc = "finish"
  BY Alone DEF SerialInv, MarkReady
<1>3. i \in Investors /\ \A d \in Days : ~Dirty(i, d)
  BY <1>1, <1>2 DEF SerialInv, TypeOK, RunStates, PassesOwe, PassOwes
<1>4. OwedDays(i) = {}
  BY <1>3 DEF OwedDays, Dirty
<1>5. \A j \in Investors : ~InFlight(j) /\ ~InFlight(j)'
  BY <1>2 DEF InFlight, AlonePass, MarkReady
<1>6. row'[i].status = "ready" /\ \A j \in Investors \ {i} : row'[j] = row[j]
  BY <1>1, <1>3 DEF MarkReady, ReadyRow, SerialInv, TypeOK, Rows
<1>7. Announced' = Announced \union {i}
  BY <1>3, <1>5, <1>6 DEF Announced
<1>8. OwedMap' = OwedMap /\ ShownMap' = ShownMap
  BY DEF MarkReady, OwedMap, ShownMap, OwedDays, ShownDays
<1>. QED
  BY <1>3, <1>4, <1>7, <1>8 DEF Promise!Announce, OwedMap, ShownMap

(* Whatever else a pass does, it announces nobody.                         *)
LEMMA PromiseError ==
  ASSUME SerialInv, NEW w \in Runners, AwaitPrice(w) \/ FailRecompute(w)
  PROVE  Promise!Withdraw
<1>1. PICK i : i = run[w].inv
  OBVIOUS
<1>2. i \in Investors
  BY <1>1 DEF SerialInv, TypeOK, RunStates
<1>3. row'[i].status = "error" /\ \A j \in Investors \ {i} : row'[j] = row[j]
  <2>1. PICK n : n = run[w].attempts + 1
    OBVIOUS
  <2>2. row' = [row EXCEPT ![i] = ErrorRow(row[i], n)]
    BY <1>1, <2>1 DEF AwaitPrice, FailRecompute, MarkError
  <2>3. ErrorRow(row[i], n).status = "error"
    BY <1>2 DEF ErrorRow, SerialInv, TypeOK, Rows
  <2>. QED
    BY <1>2, <2>2, <2>3 DEF SerialInv, TypeOK
<1>4. series' = series /\ req' = req
  BY DEF AwaitPrice, FailRecompute
<1>. QED
  BY <1>3, <1>4, QuietRows DEF InFlight

LEMMA PromiseMarkComputing ==
  ASSUME SerialInv, NEW w \in Runners, MarkComputing(w)
  PROVE  Promise!Withdraw
<1>1. PICK i : i = run[w].inv
  OBVIOUS
<1>2. i \in Investors
  BY <1>1 DEF SerialInv, TypeOK, RunStates
<1>3. row'[i].status = "computing" /\ \A j \in Investors \ {i} : row'[j] = row[j]
  BY <1>1, <1>2 DEF MarkComputing, SerialInv, TypeOK, Rows
<1>4. series' = series /\ req' = req
  BY DEF MarkComputing
<1>. QED
  BY <1>3, <1>4, QuietRows DEF InFlight

LEMMA PromiseReads ==
  ASSUME SerialInv, NEW w \in Runners,
         \/ SelectDue \/ StartRefresh(w) \/ PrimeNavs(w) \/ BeginRecompute(w)
         \/ ValueSeries(w) \/ EndPass(w) \/ KillRunner(w)
  PROVE  Promise!Withdraw
<1>1. series' = series /\ row' = row /\ req' = req
  BY DEF SelectDue, StartRefresh, PrimeNavs, BeginRecompute, ValueSeries, EndPass,
         KillRunner, rowVars
<1>. QED
  BY <1>1, QuietRows DEF InFlight

LEMMA PromiseClock ==
  ASSUME SerialInv, Clock
  PROVE  Promise!Withdraw
<1>. USE DEF SerialInv, TypeOK
<1>1. series' = series /\ req' = req
  BY DEF Clock, NextDay, EnqueueDailyExtend, EnqueueCatchUp, RollReady, RetryErrored,
         BackoffElapses, rowVars
<1>2. \A i \in Investors : row'[i].status = "ready" => row[i].status = "ready"
  <2>1. CASE NextDay
    BY <2>1 DEF NextDay, rowVars
  <2>2. CASE RollReady
    BY <2>2 DEF RollReady, Rows
  <2>3. CASE RetryErrored
    BY <2>3 DEF RetryErrored, Rows
  <2>4. ASSUME NEW j \in Investors, BackoffElapses(j)
        PROVE  \A i \in Investors : row'[i].status = row[i].status
    BY <2>4 DEF BackoffElapses, Rows
  <2>. QED
    BY <2>1, <2>2, <2>3, <2>4 DEF Clock, EnqueueDailyExtend, EnqueueCatchUp
<1>. QED
  BY <1>1, <1>2, QuietRows DEF InFlight

-----------------------------------------------------------------------------
LEMMA PromiseInit == Init => Promise!Init
<1>. SUFFICES ASSUME Init PROVE Promise!Init
  OBVIOUS
<1>1. \A i \in Investors : row[i].status = "ready" /\ \A d \in Days : series[i][d] = "none"
  BY DEF Init, NoPoints
<1>2. \A i \in Investors : ~InFlight(i)
  BY IdleTypes DEF Init, InFlight
<1>. QED
  BY <1>1, <1>2 DEF Promise!Init, OwedDays, ShownDays, Announced

LEMMA PromiseStep == SerialInv /\ [SerialNext]_vars => [Promise!Next]_(Promise!vars)
<1>. SUFFICES ASSUME SerialInv, [SerialNext]_vars PROVE [Promise!Next]_(Promise!vars)
  OBVIOUS
<1>. USE DEF Promise!Next
<1>1. CASE Quiet /\ Entry
  BY <1>1, PromiseBegin, PromiseReads DEF Entry, Runners
<1>2. ASSUME NEW r \in Requests, ImportStep(r) PROVE Promise!Next
  BY <1>2, PromiseCommitLedger, PromiseCommitSnapshot, PromiseQueue, PromiseSeed DEF ImportStep
<1>3. ASSUME NEW w \in Runners, RunStep(w) \/ FailRecompute(w) \/ KillRunner(w) PROVE Promise!Next
  BY <1>3, PromiseReads, PromiseMarkComputing, PromiseError, PromiseUpsert, PromiseMarkReady
  DEF RunStep
<1>4. CASE Clock
  BY <1>4, PromiseClock
<1>5. CASE UNCHANGED vars
  <2>1. Promise!Withdraw
    BY <1>5, QuietRows DEF vars, rowVars, InFlight
  <2>. QED
    BY <2>1
<1>. QED
  BY <1>1, <1>2, <1>3, <1>4, <1>5 DEF SerialNext, Progress

(* With one actor at a time the work-list keeps its promise: READY is      *)
(* announced only when every stored point agrees with the ledger, is       *)
(* withdrawn in the step that makes it untrue, and no point is ever taken  *)
(* away, for every number of investors, threads, days, imports and faults. *)
THEOREM PromiseIsKept == SerialSpec => KeepsPromise
<1>1. SerialSpec => []SerialInv
  BY SerialInit, SerialStep, PTL DEF SerialSpec
<1>. QED
  BY <1>1, PromiseInit, PromiseStep, PTL DEF SerialSpec, KeepsPromise, Promise!Spec
=============================================================================
