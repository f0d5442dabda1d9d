--------------------------- MODULE ValuationJobs ---------------------------
(***************************************************************************)
(* The day-wise valuation work-list (app/tasks/valuation_jobs.py).         *)
(*                                                                         *)
(* Each Investor row is its own durable work item: a status and the        *)
(* valuation_* columns.  Imports (web requests) change the ledger and then *)
(* write a recompute marker on the row; the scheduler's 30-second tick, a  *)
(* 6-hourly cron, a launch catch-up and the manual NAV refresh endpoint    *)
(* read and write the same row, and the recompute stores one InvestorValue *)
(* point per calendar day.  Every action below is one database statement   *)
(* or one atomic block of the code, so the interleavings between them are  *)
(* those of separate connections on one database.                          *)
(*                                                                         *)
(* The amount of a point is abstracted to whether it still agrees with the *)
(* ledger: a point computed from the current ledger is "fresh", and turns  *)
(* "stale" when a later ledger change reaches its day.  A statement's own  *)
(* figure, seeded at import, is "provisional".                             *)
(***************************************************************************)
EXTENDS Naturals

CONSTANTS
  Investors,    \* investor rows
  Requests,     \* web-request threads that can be importing at the same time
  Refreshers,   \* web-request threads running POST /navs/refresh
  Scheduler,    \* the thread of the pending-valuations job (max_instances = 1)
  LastDay,      \* bound: calendar days are 0..LastDay
  MaxAttempts,  \* _MAX_ATTEMPTS
  MaxImports,   \* bound: imports started in a behaviour
  MaxEdits,     \* bound: hand edits of the ledger in a behaviour
  MaxFaults     \* bound: recompute exceptions and process deaths

ASSUME ConstantsAssumption ==
  /\ LastDay \in Nat
  /\ MaxAttempts \in Nat \ {0}
  /\ MaxImports \in Nat /\ MaxEdits \in Nat /\ MaxFaults \in Nat
  /\ Investors # {} /\ Scheduler \notin Refreshers

Days    == 0..LastDay
NoDay   == LastDay + 1             \* a NULL date column: later than every day
Dates   == Days \union {NoDay}
Runners == Refreshers \union {Scheduler}

VARIABLES
  today,        \* timezone.localdate()
  row,          \* the valuation_* columns of each Investor
  series,       \* the InvestorValue points of each investor
  firstActivity,\* earliest cost-basis transaction or holding date
  feedPending,  \* some held security has a feed but no price yet
  req,          \* per import request: where it is, and what it read
  run,          \* per runner: where its pass is, and what it read
  imports, edits, faults

vars == <<today, row, series, firstActivity, feedPending, req, run,
          imports, edits, faults>>
rowVars == <<row, series>>
ledgerVars == <<firstActivity, feedPending>>
budget == <<imports, edits, faults>>

Points == {"none", "provisional", "fresh", "stale"}

Rows == [status : {"pending", "computing", "ready", "error"},
         recompute_from : Dates,
         computed_through : Dates,
         attempts : Nat,
         next_attempt : {"none", "wait", "due"}]

RequestStates ==
  [pc : {"idle", "loaded", "committed", "seed"},
   inv : Investors, seen : Dates, marker : Dates, as_of : Dates]

RunStates ==
  [pc : {"idle", "prime", "next", "begin", "value", "upsert", "finish"},
   due : SUBSET Investors, from : [Investors -> Dates],
   inv : Investors, start : Dates, upto : Days, attempts : Nat,
   points : [Days -> Points]]

Earlier(d, e) == IF d <= e THEN d ELSE e
OrElse(d, e)  == IF d # NoDay THEN d ELSE e

NoPoints  == [d \in Days |-> "none"]
NoMarker  == [i \in Investors |-> NoDay]
AnInvestor == CHOOSE i \in Investors : TRUE

TypeOK ==
  /\ today \in Days
  /\ row \in [Investors -> Rows]
  /\ series \in [Investors -> [Days -> Points]]
  /\ firstActivity \in [Investors -> Dates]
  /\ feedPending \in [Investors -> BOOLEAN]
  /\ req \in [Requests -> RequestStates]
  /\ run \in [Runners -> RunStates]
  /\ imports \in Nat /\ edits \in Nat /\ faults \in Nat

-----------------------------------------------------------------------------
(* A new investor has nothing to value and is READY.                       *)

IdleRequest == [pc |-> "idle", inv |-> AnInvestor, seen |-> NoDay,
                marker |-> NoDay, as_of |-> NoDay]
IdleRun == [pc |-> "idle", due |-> {}, from |-> NoMarker, inv |-> AnInvestor,
            start |-> NoDay, upto |-> 0, attempts |-> 0, points |-> NoPoints]

Init ==
  /\ today = 0
  /\ row = [i \in Investors |->
              [status |-> "ready", recompute_from |-> NoDay,
               computed_through |-> NoDay, attempts |-> 0,
               next_attempt |-> "none"]]
  /\ series = [i \in Investors |-> NoPoints]
  /\ firstActivity = [i \in Investors |-> NoDay]
  /\ feedPending = [i \in Investors |-> FALSE]
  /\ req = [r \in Requests |-> IdleRequest]
  /\ run = [w \in Runners |-> IdleRun]
  /\ imports = 0 /\ edits = 0 /\ faults = 0

-----------------------------------------------------------------------------
(* The ledger.  A change dated e makes every computed point on or after e  *)
(* disagree with it, in the table and in the hands of a running recompute. *)

Age(points, e) ==
  [d \in Days |-> IF d >= e /\ points[d] = "fresh" THEN "stale" ELSE points[d]]

ChangeLedger(i, e) ==
  /\ series' = [series EXCEPT ![i] = Age(@, e)]
  /\ run' = [w \in Runners |->
               IF run[w].inv = i
               THEN [run[w] EXCEPT !.points = Age(@, e)] ELSE run[w]]

(* New securities move the earliest activity back and may have no price.   *)
Acquire(i, e) ==
  /\ firstActivity' = [firstActivity EXCEPT ![i] = Earlier(@, e)]
  /\ \E p \in {feedPending[i], TRUE} :
       feedPending' = [feedPending EXCEPT ![i] = p]

-----------------------------------------------------------------------------
(* An import request: load the investor, commit the ledger, queue the      *)
(* recompute (on the investor object loaded first), seed the provisional   *)
(* point.                                                                  *)

BeginImport(r, i) ==
  /\ req[r].pc = "idle"
  /\ imports < MaxImports
  /\ imports' = imports + 1
  /\ req' = [req EXCEPT ![r] = [IdleRequest EXCEPT
               !.pc = "loaded", !.inv = i, !.seen = row[i].recompute_from]]
  /\ UNCHANGED <<today, rowVars, ledgerVars, run, edits, faults>>

(* An MF CAS or a tradebook changes the ledger from its first day e; the   *)
(* CAS also reports a value at its close.                                  *)
CommitLedger(r) ==
  LET i == req[r].inv IN
  /\ req[r].pc = "loaded"
  /\ \E e \in 0..today : \E close \in e..today \union {NoDay} :
       /\ ChangeLedger(i, e)
       /\ Acquire(i, e)
       /\ req' = [req EXCEPT ![r] =
            [@ EXCEPT !.pc = "committed", !.marker = e, !.as_of = close]]
  /\ UNCHANGED <<today, row, budget>>

(* An eCAS is a snapshot: it changes holdings, never the ledger series.    *)
CommitSnapshot(r) ==
  LET i == req[r].inv IN
  /\ req[r].pc = "loaded"
  /\ \E e \in 0..today :
       /\ Acquire(i, e)
       /\ req' = [req EXCEPT ![r] =
            [@ EXCEPT !.pc = "committed", !.marker = e, !.as_of = e]]
  /\ UNCHANGED <<today, rowVars, run, budget>>

(* The date written: never later than a marker already there.              *)
NewestMarker(seen, marker) == marker            \* mistaken: forgets the old one
QueuedMarker(seen, marker) == Earlier(seen, marker)

QueueRecompute(r) ==
  LET i == req[r].inv IN
  /\ req[r].pc = "committed"
  /\ row' = [row EXCEPT ![i] =
       [@ EXCEPT !.recompute_from = QueuedMarker(req[r].seen, req[r].marker),
                 !.status = "computing"]]
  /\ req' = [req EXCEPT ![r] =
       IF @.as_of # NoDay THEN [@ EXCEPT !.pc = "seed"] ELSE IdleRequest]
  /\ UNCHANGED <<today, series, ledgerVars, run, budget>>

SeedProvisional(r) ==
  /\ req[r].pc = "seed"
  /\ series' = [series EXCEPT ![req[r].inv][req[r].as_of] = "provisional"]
  /\ req' = [req EXCEPT ![r] = IdleRequest]
  /\ UNCHANGED <<today, row, ledgerVars, run, budget>>

(* The web process dies, or the handler raises, part way.                  *)
AbandonImport(r) ==
  /\ req[r].pc # "idle"
  /\ faults < MaxFaults
  /\ faults' = faults + 1
  /\ req' = [req EXCEPT ![r] = IdleRequest]
  /\ UNCHANGED <<today, rowVars, ledgerVars, run, imports, edits>>

(* Manual transactions, opening lots and corporate actions rewrite the     *)
(* ledger and queue nothing.                                               *)
EditLedger(i) ==
  /\ edits < MaxEdits
  /\ edits' = edits + 1
  /\ \E e \in 0..today : ChangeLedger(i, e) /\ Acquire(i, e)
  /\ UNCHANGED <<today, row, req, imports, faults>>

-----------------------------------------------------------------------------
(* A recompute pass.  The scheduler's pass runs over a snapshot of the due *)
(* rows and their markers; a refresh request over the caller's investors,  *)
(* with no from_date.                                                      *)

QueuedOnlyByCron(i) ==      \* mistaken: takes COMPUTING to mean "being computed"
  \/ row[i].status = "pending"
  \/ row[i].status = "error" /\ row[i].next_attempt = "due"
Due(i) == \/ row[i].status \in {"pending", "computing"}
          \/ row[i].status = "error" /\ row[i].next_attempt = "due"

SelectDue ==
  /\ run[Scheduler].pc = "idle"
  /\ \E i \in Investors : Due(i)
  /\ run' = [run EXCEPT ![Scheduler] =
       [@ EXCEPT !.pc = "prime",
                 !.due = {i \in Investors : Due(i)},
                 !.from = [i \in Investors |->
                    IF Due(i) THEN row[i].recompute_from ELSE NoDay]]]
  /\ UNCHANGED <<today, rowVars, ledgerVars, req, budget>>

StartRefresh(w) ==
  /\ w \in Refreshers
  /\ run[w].pc = "idle"
  /\ run' = [run EXCEPT ![w] =
       [@ EXCEPT !.pc = "prime", !.due = Investors]]
  /\ UNCHANGED <<today, rowVars, ledgerVars, req, budget>>

(* Backfill and refresh of the NAVs of everything the pass will value: a   *)
(* feed may answer for some investors and not for others.                  *)
PrimeNavs(w) ==
  /\ run[w].pc = "prime"
  /\ \E answered \in SUBSET run[w].due :
       feedPending' = [i \in Investors |-> feedPending[i] /\ i \notin answered]
  /\ run' = [run EXCEPT ![w].pc = "next"]
  /\ UNCHANGED <<today, rowVars, firstActivity, req, budget>>

(* The series ends today.                                                  *)
WindowThroughTomorrow == today + 1               \* mistaken: one day too many
WindowEnd == today

(* Load the row and fix the window.  Nothing to value: straight to READY.  *)
BeginRecompute(w) ==
  /\ run[w].pc = "next"
  /\ \E i \in run[w].due :
       LET start == OrElse(run[w].from[i], OrElse(row[i].recompute_from,
                      OrElse(row[i].computed_through, firstActivity[i])))
       IN run' = [run EXCEPT ![w] =
            [pc |-> IF start = NoDay THEN "finish" ELSE "begin",
             due |-> @.due \ {i}, from |-> [@.from EXCEPT ![i] = NoDay],
             inv |-> i, start |-> start,
             upto |-> WindowEnd, attempts |-> row[i].attempts, points |-> NoPoints]]
  /\ UNCHANGED <<today, rowVars, ledgerVars, req, budget>>

MarkComputing(w) ==
  /\ run[w].pc = "begin"
  /\ row' = [row EXCEPT ![run[w].inv].status = "computing"]
  /\ run' = [run EXCEPT ![w].pc = "value"]
  /\ UNCHANGED <<today, series, ledgerVars, req, budget>>

NextInPass(pass) == [IdleRun EXCEPT !.pc = "next", !.due = pass.due, !.from = pass.from]

RetryOneMore(n) == IF n <= MaxAttempts THEN "wait" ELSE "none"  \* mistaken: off by one
Retry(n) == IF n < MaxAttempts THEN "wait" ELSE "none"

ErrorRowAnew(r, n) ==                            \* mistaken: drops the marker
  [r EXCEPT !.attempts = n, !.status = "error", !.next_attempt = Retry(n),
            !.recompute_from = NoDay]
ErrorRow(r, n) ==
  [r EXCEPT !.attempts = n, !.status = "error", !.next_attempt = Retry(n)]

MarkErrorAndStop(w) ==       \* mistaken: one investor's failure ends the pass
  /\ row' = [row EXCEPT ![run[w].inv] = ErrorRow(@, run[w].attempts + 1)]
  /\ run' = [run EXCEPT ![w] = IdleRun]
MarkError(w) ==
  /\ row' = [row EXCEPT ![run[w].inv] = ErrorRow(@, run[w].attempts + 1)]
  /\ run' = [run EXCEPT ![w] = NextInPass(@)]

(* A feed that has not answered yet blocks the investor until its retries  *)
(* are exhausted.                                                          *)
AwaitPrice(w) ==
  /\ run[w].pc = "value"
  /\ feedPending[run[w].inv] /\ run[w].attempts < MaxAttempts
  /\ MarkError(w)
  /\ UNCHANGED <<today, series, ledgerVars, req, budget>>

ClearThenValueSeries(w) ==   \* mistaken: deletes the window before it computes
  /\ run[w].pc = "value"
  /\ ~feedPending[run[w].inv] \/ run[w].attempts >= MaxAttempts
  /\ series' = [series EXCEPT ![run[w].inv] =
       [d \in Days |-> IF d >= run[w].start THEN "none" ELSE @[d]]]
  /\ run' = [run EXCEPT ![w] =
       [@ EXCEPT !.pc = "upsert",
                 !.points = [d \in Days |->
                    IF run[w].start <= d /\ d <= run[w].upto
                    THEN "fresh" ELSE "none"]]]
  /\ UNCHANGED <<today, row, ledgerVars, req, budget>>
ValueSeries(w) ==
  /\ run[w].pc = "value"
  /\ ~feedPending[run[w].inv] \/ run[w].attempts >= MaxAttempts
  /\ run' = [run EXCEPT ![w] =
       [@ EXCEPT !.pc = "upsert",
                 !.points = [d \in Days |->
                    IF run[w].start <= d /\ d <= run[w].upto
                    THEN "fresh" ELSE "none"]]]
  /\ UNCHANGED <<today, rowVars, ledgerVars, req, budget>>

UpsertSeries(w) ==
  /\ run[w].pc = "upsert"
  /\ series' = [series EXCEPT ![run[w].inv] =
       [d \in Days |-> IF run[w].points[d] = "none" THEN @[d]
                       ELSE run[w].points[d]]]
  /\ run' = [run EXCEPT ![w] = [@ EXCEPT !.pc = "finish", !.points = NoPoints]]
  /\ UNCHANGED <<today, row, ledgerVars, req, budget>>

ReadyRowKept(r, through) ==                      \* mistaken: keeps the marker
  [r EXCEPT !.status = "ready", !.computed_through = through,
            !.attempts = 0, !.next_attempt = "none"]
ReadyRow(r, through) ==
  [r EXCEPT !.status = "ready", !.recompute_from = NoDay,
            !.computed_through = through, !.attempts = 0, !.next_attempt = "none"]

MarkReady(w) ==
  /\ run[w].pc = "finish"
  /\ row' = [row EXCEPT ![run[w].inv] = ReadyRow(@, run[w].upto)]
  /\ run' = [run EXCEPT ![w] = NextInPass(@)]
  /\ UNCHANGED <<today, series, ledgerVars, req, budget>>

(* Any exception inside the try block is recorded on the row.              *)
FailRecompute(w) ==
  /\ run[w].pc \in {"value", "upsert", "finish"}
  /\ run[w].start # NoDay
  /\ faults < MaxFaults
  /\ faults' = faults + 1
  /\ MarkError(w)
  /\ UNCHANGED <<today, series, ledgerVars, req, imports, edits>>

EndPass(w) ==
  /\ run[w].pc = "next"
  /\ run[w].due = {}
  /\ run' = [run EXCEPT ![w] = IdleRun]
  /\ UNCHANGED <<today, rowVars, ledgerVars, req, budget>>

(* shutdown(wait=False), a killed container: the pass is simply gone.      *)
KillRunner(w) ==
  /\ run[w].pc # "idle"
  /\ faults < MaxFaults
  /\ faults' = faults + 1
  /\ run' = [run EXCEPT ![w] = IdleRun]
  /\ UNCHANGED <<today, rowVars, ledgerVars, req, imports, edits>>

-----------------------------------------------------------------------------
(* The 6-hourly roll-forward, the launch catch-up, and time.               *)

RollReady ==
  /\ row' = [i \in Investors |->
       IF row[i].status = "ready"
       THEN [row[i] EXCEPT !.status = "pending", !.recompute_from = row[i].computed_through]
       ELSE row[i]]
  /\ UNCHANGED <<today, series, ledgerVars, req, run, budget>>

RetryErrored ==
  /\ row' = [i \in Investors |->
       IF row[i].status = "error"
       THEN [row[i] EXCEPT !.status = "pending", !.attempts = 0, !.next_attempt = "none"]
       ELSE row[i]]
  /\ UNCHANGED <<today, series, ledgerVars, req, run, budget>>

(* Two UPDATE statements over disjoint sets of rows.                       *)
EnqueueDailyExtend == RollReady \/ RetryErrored

(* navsStale: the freshest NAV is behind the last trading day.             *)
EnqueueCatchUp ==
  /\ \E navsStale \in BOOLEAN :
       \/ \E i \in Investors : row[i].status = "ready" /\ row[i].computed_through < today
       \/ navsStale
  /\ EnqueueDailyExtend

BackoffElapses(i) ==
  /\ row[i].next_attempt = "wait"
  /\ row' = [row EXCEPT ![i].next_attempt = "due"]
  /\ UNCHANGED <<today, series, ledgerVars, req, run, budget>>

NextDay ==
  /\ today < LastDay
  /\ today' = today + 1
  /\ UNCHANGED <<rowVars, ledgerVars, req, run, budget>>

-----------------------------------------------------------------------------
ImportStep(r) ==
  \/ CommitLedger(r) \/ CommitSnapshot(r) \/ QueueRecompute(r) \/ SeedProvisional(r)

RunStep(w) ==
  \/ PrimeNavs(w) \/ BeginRecompute(w) \/ MarkComputing(w) \/ AwaitPrice(w) \/ ValueSeries(w)
  \/ UpsertSeries(w) \/ MarkReady(w) \/ EndPass(w)

Clock == NextDay \/ EnqueueDailyExtend \/ EnqueueCatchUp
         \/ \E i \in Investors : BackoffElapses(i)

Entry ==
  \/ \E r \in Requests : \E i \in Investors : BeginImport(r, i)
  \/ SelectDue
  \/ \E w \in Refreshers : StartRefresh(w)

Progress ==
  \/ \E r \in Requests : ImportStep(r)
  \/ \E w \in Runners : RunStep(w) \/ FailRecompute(w) \/ KillRunner(w)
  \/ Clock

Next ==
  \/ Entry
  \/ Progress
  \/ \E r \in Requests : AbandonImport(r)
  \/ \E i \in Investors : EditLedger(i)

Spec == Init /\ [][Next]_vars

(* The scheduler process keeps ticking, the cron keeps firing, a backoff   *)
(* is a finite delay, and a request that is being served runs on.          *)
Fairness ==
  /\ WF_vars(SelectDue) /\ WF_vars(RunStep(Scheduler))
  /\ WF_vars(RollReady) /\ WF_vars(RetryErrored)
  /\ \A i \in Investors : WF_vars(BackoffElapses(i))
  /\ \A r \in Requests : WF_vars(ImportStep(r))

FairSpec == Spec /\ Fairness

(***************************************************************************)
(* The schedule the design counts on: one actor at a time.  An import or a *)
(* recompute pass is only started when no other is under way, no importing *)
(* process dies and nobody edits by hand; the cron may fire at any time.   *)
(***************************************************************************)
Quiet ==
  /\ \A r \in Requests : req[r].pc = "idle"
  /\ \A w \in Runners : run[w].pc = "idle"

SerialNext ==
  \/ Quiet /\ Entry
  \/ Progress

SerialSpec == Init /\ [][SerialNext]_vars
-----------------------------------------------------------------------------
(* Properties.                                                             *)

InFlight(i) == \E r \in Requests : req[r].inv = i /\ req[r].pc \in {"committed", "seed"}

(* A READY row is a promise: with no import of that investor between its   *)
(* commit and its marker, every stored point agrees with the ledger and no *)
(* provisional figure is left (the docstring of queue_recompute: shown     *)
(* until the worker supersedes it).                                        *)
ReadyIsCurrent ==
  \A i \in Investors :
    row[i].status = "ready" /\ ~InFlight(i) =>
      \A d \in Days : series[i][d] \notin {"stale", "provisional"}

(* The whole of it: with one actor at a time the work-list implements      *)
(* ValuationPromise.  A READY row is an announcement, unless an import is  *)
(* between its commit and its marker; what is owed are the points that     *)
(* disagree with the ledger and the provisional ones.                      *)
ShownDays(i) == {d \in Days : series[i][d] # "none"}
OwedDays(i)  == {d \in Days : series[i][d] \in {"stale", "provisional"}}
Announced == {i \in Investors : row[i].status = "ready" /\ ~InFlight(i)}

Promise == INSTANCE ValuationPromise WITH
  shown <- [i \in Investors |-> ShownDays(i)],
  owed <- [i \in Investors |-> OwedDays(i)],
  announced <- Announced
KeepsPromise == Promise!Spec

(* The stored series is daily-contiguous: between two computed days there  *)
(* is no day without a point (the comment on _SERIES_GRANULARITY).         *)
Computed(i, d) == series[i][d] \in {"fresh", "stale"}
SeriesIsContiguous ==
  \A i \in Investors : \A d, e \in Days :
    Computed(i, d) /\ Computed(i, e) =>
      \A m \in Days : d < m /\ m < e => series[i][m] # "none"

(* A READY row carries no marker: nobody can set a marker and leave the    *)
(* investor out of the scheduler's sight, whoever wrote the row last.      *)
ReadyHasNoMarker ==
  \A i \in Investors : row[i].status = "ready" => row[i].recompute_from = NoDay

(* An errored row is either scheduled for a retry or out of attempts:      *)
(* _mark_error never leaves it neither (stuck) nor both (retried past the  *)
(* cap), whatever other writers interleave.                                *)
ErrorIsScheduledOrExhausted ==
  \A i \in Investors : row[i].status = "error" =>
    (row[i].next_attempt = "none" <=> row[i].attempts >= MaxAttempts)

(* Compute-then-upsert: no step takes a stored point away, so a failed or  *)
(* killed recompute never blanks an investor.                              *)
NeverBlanked ==
  [][\A i \in Investors : \A d \in Days :
       series[i][d] # "none" => series'[i][d] # "none"]_vars

(* A failing attempt stays retryable from the same day: the marker, and    *)
(* one an import wrote during the attempt, survive the error.              *)
ErrorKeepsMarker ==
  [][\A i \in Investors :
       row'[i].status = "error" => row'[i].recompute_from = row[i].recompute_from]_vars

(* Once the feed of an investor answers for good, that investor's series   *)
(* is READY again and again, whatever the other investors' feeds do.       *)
RecoveredFeedIsValued ==
  \A i \in Investors :
    <>[](~feedPending[i]) => []<>(row[i].status = "ready")

(* A queued investor is always attempted.                                  *)
QueuedIsAttempted ==
  \A i \in Investors :
    row[i].status \in {"pending", "computing"} ~> row[i].status \in {"ready", "error"}
=============================================================================
