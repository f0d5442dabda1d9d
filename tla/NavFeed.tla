------------------------------- MODULE NavFeed -------------------------------
(***************************************************************************)
(* The price history of the securities on file (tasks/refresh_navs.py).  A *)
(* pass backfills funds, backfills shares, then asks for everybody's       *)
(* latest price.  It runs in the scheduler's tick and, for the same        *)
(* securities, in a user's manual refresh (api/navs.py); nothing keeps two *)
(* passes apart.                                                           *)
(*                                                                         *)
(* Time is counted in trading days: the price of a day is published when   *)
(* the day has ended.  What is stored is the set of days with a price.     *)
(* The sources know a security from the day opened[s] on, and may fail any *)
(* time they are asked; their own retries are part of one answer.          *)
(***************************************************************************)
EXTENDS Integers, FiniteSets

CONSTANTS
  Securities,
  Markets,    \* what the securities are, [kind, opened]: one is the case
  Crews,      \* sets of workers that may run passes; one is at work
  MaxDay,     \* model bound: the last day
  Chunk,      \* days per request of NSE history (_NSE_CHUNK_DAYS)
  TailGrace,  \* _BACKFILL_TAIL_GRACE, in trading days
  MaxLag      \* _MF_BULK_MAX_LAG

ASSUME BoundAssumption ==
  MaxDay \in Nat /\ Chunk \in Nat \ {0} /\ TailGrace \in Nat /\ MaxLag \in Nat

VARIABLES today, kind, opened, first, points, closed, crew, job
vars == <<today, kind, opened, first, points, closed, crew, job>>
sources == <<kind, opened, crew>>

Days    == 0 .. MaxDay
NoDay   == 0 - 1
Workers == UNION Crews
Kinds   == {"fund", "share"}

ASSUME MarketAssumption ==
  \A m \in Markets : m.kind \in [Securities -> Kinds] /\ m.opened \in [Securities -> Days]

Nobody == [s \in {} |-> NoDay]
Idle == [step |-> "idle", kind |-> "fund", book |-> {}, cutoff |-> 0, needing |-> Nobody,
         shut |-> {}, bulk |-> FALSE, batch |-> Nobody, todo |-> {}]

Init ==
  /\ today = 0
  /\ \E m \in Markets : kind = m.kind /\ opened = m.opened
  /\ first = [s \in Securities |-> NoDay]
  /\ points = [s \in Securities |-> {}]
  /\ closed = [s \in Securities |-> FALSE]
  /\ crew \in Crews
  /\ job = [w \in Workers |-> Idle]

Held == {s \in Securities : first[s] # NoDay}
Newest(D) == IF D = {} THEN NoDay ELSE CHOOSE d \in D : \A e \in D : e <= d
Oldest(D) == IF D = {} THEN NoDay ELSE CHOOSE d \in D : \A e \in D : d <= e
Ended == today - 1                           \* completed_trading_day

-----------------------------------------------------------------------------
(* What the sources answer: <<>> for a failure, <<days>> for the days with *)
(* a price.                                                                *)
Failure == <<>>
Answered(D) == <<D>>
DaysOf(answer) == UNION {answer[i] : i \in DOMAIN answer}

Served(s, since, until) == {d \in opened[s] .. Ended : since <= d /\ d <= until}

(* captnemo may trail by a day; mfapi answers when it fails.               *)
Captnemo(s, since) == {Failure} \cup {Answered(Served(s, since, d)) : d \in {Ended, Ended - 1}}
Mfapi(s, since) == {Failure, Answered(Served(s, since, Ended))}
FundHistory(s, since) == (Captnemo(s, since) \ {Failure}) \cup Mfapi(s, since)

(* NSE is asked chunk by chunk and keeps what came; Yahoo answers when     *)
(* nothing did.                                                            *)
Window(since, n) == {d \in Days : since + n * Chunk <= d /\ d < since + (n + 1) * Chunk}
Windows(since) == {n \in Days : since + n * Chunk <= today}
NseHistory(s, since) ==
  {Answered(Served(s, since, Ended) \cap UNION {Window(since, n) : n \in came}) :
     came \in SUBSET Windows(since)}
Yahoo(s, since) == {Failure, Answered(Served(s, since, Ended))}
ShareHistory(s, since) ==
  {a \in NseHistory(s, since) : DaysOf(a) # {}} \cup Yahoo(s, since)

History(s, since) == IF kind[s] = "fund" THEN FundHistory(s, since) ELSE ShareHistory(s, since)

(* The latest price comes from a day's whole market in one file, AMFI's or *)
(* the exchange's last one; else from the security's own feed, where a     *)
(* Yahoo quote may be of the session that is still running.                *)
Recent(s) == Served(s, 0, Ended) \cap {Ended, Ended - 1}
BulkLatest(s) == {Answered({d}) : d \in Recent(s)}
YahooQuote(s) == {Failure, Answered({})} \cup {Answered({d}) : d \in {d \in {today} : opened[s] <= d}}
OwnLatest(s) ==
  {Failure, Answered({})} \cup {Answered({d}) : d \in Recent(s)}
    \cup (IF kind[s] = "share" THEN YahooQuote(s) ELSE {})
LatestPrice(s) == BulkLatest(s) \cup OwnLatest(s)

(* One report of every fund over a span, and one file of every share.      *)
AmfiReport(s, start, until) == Served(s, start, until)
Bhavcopy(s, files) == {d \in files : opened[s] <= d}

-----------------------------------------------------------------------------
(* Who needs a backfill.                                                   *)
Lag(latest, cutoff) == IF latest < cutoff THEN cutoff - latest ELSE 0

HeadGapStart(s, cutoff) ==
  LET seen   == {d \in points[s] : d <= cutoff}
      newest == Newest(seen)
      before == Newest(seen \ {newest})
  IN IF before # NoDay /\ newest - before > 1 THEN before + 1 ELSE NoDay

ReachesBack(s) == points[s] # {} /\ Oldest(points[s]) <= first[s] + TailGrace

FreshAtHead(s, cutoff) ==
  points[s] # {} /\ Lag(Newest(points[s]), cutoff) <= 1
FreshAndReaching(s, cutoff) ==               \* mistaken
  FreshAtHead(s, cutoff) /\ ReachesBack(s)
FreshAndWhole(s, cutoff) ==                  \* mistaken
  FreshAtHead(s, cutoff) /\ HeadGapStart(s, cutoff) = NoDay
Current(s, cutoff) ==
  FreshAtHead(s, cutoff) /\ ReachesBack(s) /\ HeadGapStart(s, cutoff) = NoDay

Candidates(w) ==
  {s \in job[w].book : kind[s] = job[w].kind /\ ~Current(s, today)}
Finding(s) == [since |-> first[s], latest |-> Newest(points[s]), reaches |-> ReachesBack(s)]

-----------------------------------------------------------------------------
(* A pass.                                                                 *)
Step(w, changes) == job' = [job EXCEPT ![w] = changes]

BeginPass(w) ==
  /\ w \in crew /\ job[w].step = "idle" /\ Held # {}
  /\ Step(w, [Idle EXCEPT !.step = "survey", !.book = Held])
  /\ UNCHANGED <<today, first, points, closed, sources>>

Survey(w) ==
  LET found == Candidates(w)
  IN /\ job[w].step = "survey"
     /\ Step(w, [job[w] EXCEPT !.cutoff = today, !.bulk = TRUE, !.step = "backfill",
                               !.needing = [s \in found |-> Finding(s)],
                               !.shut = {s \in found : closed[s]}])
     /\ UNCHANGED <<today, first, points, closed, sources>>

(* Two or more funds that only lag at the head share one AMFI report, each *)
(* from its own gap; a fund the report does not name keeps its own feed.   *)
RepairFrom(w, s) ==
  LET gap == HeadGapStart(s, job[w].cutoff)
  IN IF gap # NoDay THEN gap ELSE job[w].needing[s].latest + 1
Lagging(w) ==
  {s \in DOMAIN job[w].needing :
     LET found == job[w].needing[s]  lag == Lag(found.latest, job[w].cutoff)
     IN /\ found.latest # NoDay /\ found.reaches
        /\ HeadGapStart(s, job[w].cutoff) # NoDay \/ (0 < lag /\ lag <= MaxLag)}

Staged(w, batch) ==
  Step(w, [job[w] EXCEPT !.batch = batch, !.step = "store",
                         !.needing = [s \in DOMAIN @ \ DOMAIN batch |-> @[s]]])

SkipBulk(w) == Step(w, [job[w] EXCEPT !.bulk = FALSE])

BulkFunds(w) ==
  LET start == Oldest({RepairFrom(w, s) : s \in Lagging(w)})
      named == {s \in Lagging(w) : AmfiReport(s, start, job[w].cutoff) # {}}
      batch == [s \in named |-> {d \in AmfiReport(s, start, job[w].cutoff) :
                                  RepairFrom(w, s) <= d} \ points[s]]
  IN /\ job[w].step = "backfill" /\ job[w].bulk /\ job[w].kind = "fund"
     /\ IF Cardinality(Lagging(w)) < 2 THEN SkipBulk(w)
        ELSE SkipBulk(w) \/ Staged(w, batch)
     /\ UNCHANGED <<today, first, points, closed, sources>>

(* Shares with a shallow span read one bhavcopy a day.  A file that does   *)
(* not come is a day without trades.                                       *)
Ceiling(n, d) == (n + d - 1) \div d
PreferBulk(w) ==
  LET found == job[w].needing
      start == Oldest({found[s].since : s \in DOMAIN found})
      chunks(s) == IF found[s].since >= job[w].cutoff THEN 1
                   ELSE Ceiling(job[w].cutoff - found[s].since, Chunk)
      requests == {r \in (DOMAIN found) \X Days : r[2] < chunks(r[1])}
  IN /\ DOMAIN found # {}
     /\ Lag(start - 1, job[w].cutoff) < Cardinality(requests)

LastSession(w) == IF job[w].cutoff < Ended THEN job[w].cutoff ELSE Ended

BulkSharesFrom(w, files) ==
  LET found == job[w].needing
      traded == {s \in DOMAIN found : Bhavcopy(s, files) # {}}
  IN Staged(w, [s \in traded |->
                  {d \in Bhavcopy(s, files) : found[s].since <= d} \ points[s]])

Sessions(w) ==
  {d \in Days : d <= LastSession(w) /\ \E s \in DOMAIN job[w].needing : job[w].needing[s].since <= d}

BulkShares(w) ==
  /\ job[w].step = "backfill" /\ job[w].bulk /\ job[w].kind = "share"
  /\ IF PreferBulk(w) THEN \E files \in SUBSET Sessions(w) : BulkSharesFrom(w, files)
     ELSE SkipBulk(w)
  /\ UNCHANGED <<today, first, points, closed, sources>>

(* One security's own feed.  A failure leaves it for the next pass; an     *)
(* answer with nothing, for a security without any price, closes the feed. *)
NothingStored(w, s, answer) ==               \* mistaken: a failure closes too
  job[w].needing[s].latest = NoDay /\ DaysOf(answer) \subseteq points[s]
NothingThere(w, s, answer) ==
  /\ answer # Failure /\ job[w].needing[s].latest = NoDay
  /\ DaysOf(answer) \subseteq points[s]

BackfillWith(w, s, answer) ==
  LET fresh == DaysOf(answer) \ points[s]
      left  == [q \in DOMAIN job[w].needing \ {s} |-> job[w].needing[q]]
  IN /\ job[w].step = "backfill" /\ ~job[w].bulk /\ s \in DOMAIN job[w].needing
     /\ Step(w, IF fresh = {} THEN [job[w] EXCEPT !.needing = left]
                ELSE [job[w] EXCEPT !.needing = left, !.step = "store",
                                    !.batch = [q \in {s} |-> fresh]])
     /\ closed' = [closed EXCEPT ![s] = @ \/ NothingThere(w, s, answer)]
     /\ UNCHANGED <<today, first, points, sources>>

BackfillOne(w, s) ==
  /\ s \in DOMAIN job[w].needing
  /\ \E answer \in History(s, job[w].needing[s].since) : BackfillWith(w, s, answer)

(* All of a batch or nothing: a day that another pass has stored meanwhile *)
(* breaks uniq_nav_security_date, and the error ends the pass.             *)
Clash(w) == \E s \in DOMAIN job[w].batch : job[w].batch[s] \cap points[s] # {}
Written(w) == {s \in DOMAIN job[w].batch : job[w].batch[s] # {}}
Reopened(w) ==                               \* the AMFI report reopens nothing
  IF job[w].bulk /\ job[w].kind = "fund" THEN {} ELSE Written(w) \cap job[w].shut

StoreBatch(w) ==
  /\ job[w].step = "store"
  /\ IF Clash(w) THEN Step(w, Idle) /\ UNCHANGED <<points, closed>>
     ELSE /\ points' = [s \in Securities |->
               IF s \in DOMAIN job[w].batch THEN points[s] \cup job[w].batch[s] ELSE points[s]]
          /\ closed' = [s \in Securities |-> closed[s] /\ s \notin Reopened(w)]
          /\ Step(w, [job[w] EXCEPT !.batch = Nobody, !.step = "backfill", !.bulk = FALSE])
  /\ UNCHANGED <<today, first, sources>>

EndBackfill(w) ==
  /\ job[w].step = "backfill" /\ ~job[w].bulk /\ DOMAIN job[w].needing = {}
  /\ Step(w, IF job[w].kind = "fund" THEN [Idle EXCEPT !.step = "survey", !.kind = "share", !.book = job[w].book]
             ELSE [Idle EXCEPT !.step = "refresh", !.todo = job[w].book])
  /\ UNCHANGED <<today, first, points, closed, sources>>

RefreshLatest(w, s) ==
  /\ job[w].step = "refresh" /\ s \in job[w].todo
  /\ \E answer \in LatestPrice(s) :
       points' = [points EXCEPT ![s] = @ \cup DaysOf(answer)]
  /\ Step(w, [job[w] EXCEPT !.todo = @ \ {s}])
  /\ UNCHANGED <<today, first, closed, sources>>

EndPass(w) ==
  /\ job[w].step = "refresh" /\ job[w].todo = {}
  /\ Step(w, Idle)
  /\ UNCHANGED <<today, first, points, closed, sources>>

-----------------------------------------------------------------------------
(* What the settings panel says of a feed (services/navs.py).              *)
Freshness(s) ==
  CASE closed[s]                                  -> "closed"
    [] ~closed[s] /\ points[s] = {}               -> "pending"
    [] ~closed[s] /\ points[s] # {} /\ Newest(points[s]) >= Ended     -> "fresh"
    [] ~closed[s] /\ points[s] # {} /\ Newest(points[s]) = Ended - 1  -> "grace"
    [] OTHER                                      -> "stale"

-----------------------------------------------------------------------------
(* The world: trading days pass, imports bring securities and earlier      *)
(* activity.                                                               *)
NextDay ==
  /\ today < MaxDay
  /\ today' = today + 1
  /\ UNCHANGED <<first, points, closed, job, sources>>

Import(s, d) ==
  /\ d <= today
  /\ s \in Held => d < first[s]
  /\ first' = [first EXCEPT ![s] = d]
  /\ UNCHANGED <<today, points, closed, job, sources>>

Work(w) ==
  \/ BeginPass(w)
  \/ Survey(w)
  \/ BulkFunds(w)
  \/ BulkShares(w)
  \/ \E s \in Securities : BackfillOne(w, s)
  \/ StoreBatch(w)
  \/ EndBackfill(w)
  \/ \E s \in Securities : RefreshLatest(w, s)
  \/ EndPass(w)

Next ==
  \/ \E w \in Workers : Work(w)
  \/ NextDay
  \/ \E s \in Securities, d \in Days : Import(s, d)

Spec == Init /\ [][Next]_vars

(* The scheduler keeps running passes, and no source fails for ever.       *)
FullAnswer(s, since) == Answered(Served(s, since, Ended))
IsAnswered(w, s) ==
  /\ s \in DOMAIN job[w].needing
  /\ BackfillWith(w, s, FullAnswer(s, job[w].needing[s].since))
AllFilesCome(w) ==
  /\ job[w].step = "backfill" /\ job[w].bulk /\ job[w].kind = "share" /\ PreferBulk(w)
  /\ BulkSharesFrom(w, Sessions(w))
  /\ UNCHANGED <<today, first, points, closed, sources>>
Fairness ==
  \A w \in Workers :
    /\ WF_vars(Work(w))
    /\ SF_vars(AllFilesCome(w))
    /\ \A s \in Securities : SF_vars(IsAnswered(w, s))
FairSpec == Spec /\ Fairness

-----------------------------------------------------------------------------
(* Properties.                                                             *)

(* Shapes of the tables and of a pass.  What a backfill is about to store  *)
(* belongs to sessions that have ended: the price of the running one is    *)
(* not a close yet.                                                        *)
Findings == [since : Days, latest : Days \cup {NoDay}, reaches : BOOLEAN]
Some(V)  == UNION {[D -> V] : D \in SUBSET Securities}
Passes   ==
  [step : {"idle", "survey", "backfill", "store", "refresh"}, kind : Kinds,
   book : SUBSET Securities, cutoff : Days, needing : Some(Findings),
   shut : SUBSET Securities, bulk : BOOLEAN, batch : Some(SUBSET Days),
   todo : SUBSET Securities]
TypeOK ==
  /\ today \in Days /\ kind \in [Securities -> Kinds] /\ opened \in [Securities -> Days]
  /\ first \in [Securities -> Days \cup {NoDay}]
  /\ points \in [Securities -> SUBSET (0 .. today)]
  /\ closed \in [Securities -> BOOLEAN] /\ crew \in Crews
  /\ job \in [Workers -> Passes]
  /\ \A w \in Workers :
       /\ job[w].cutoff <= today
       /\ job[w].book \cup job[w].shut \cup job[w].todo \subseteq Held
       /\ \A s \in DOMAIN job[w].batch : job[w].batch[s] \subseteq 0 .. Ended

(* A feed is given up only on an answer: it closes when no price is on     *)
(* file and the sources had none since the first activity they were asked  *)
(* for (_run_backfill_one), for a worker that is alone.                    *)
Alone == \E w \in crew : crew = {w}
ClosingIsSilent ==
  [][\A s \in Securities : Alone /\ closed'[s] /\ ~closed[s] =>
       /\ points[s] = {}
       /\ \E w \in crew : s \in DOMAIN job[w].needing
            /\ Served(s, job[w].needing[s].since, Ended - 1) = {}]_vars

(* A hole right behind the newest price is mended although the series is   *)
(* fresh at its head: the one-day return reads that pair of days.          *)
HeadHole(s) ==
  LET newest == Newest(points[s])
      before == Newest(points[s] \ {newest})
  IN IF before = NoDay THEN {} ELSE {d \in before + 1 .. newest - 1 : first[s] <= d}
HeadHeals == \A s \in Securities : []<>(HeadHole(s) = {})

(* An import of older activity is priced back to it, however fresh the     *)
(* head of the series is.                                                  *)
PricedBack(s) ==
  s \in Held /\ Served(s, first[s], Ended) # {} =>
    /\ points[s] # {}
    /\ Oldest(points[s]) <= Oldest(Served(s, first[s], Ended)) + TailGrace
HistoryReachesBack == \A s \in Securities : []<>PricedBack(s)

(* Promised by refresh_navs.py: a closed code is a dead one, data that     *)
(* arrives reopens it.  So a feed whose prices come in every day is not    *)
(* reported closed for ever.                                               *)
DataReopens ==
  \A s \in Securities :
    Freshness(s) = "closed" ~> Freshness(s) # "closed" \/ Served(s, 0, Ended) = {}

(* Promised by refresh_navs.py: a backfill only inserts what is missing,   *)
(* so no pass runs into the days of another.                               *)
NoPassBreaks ==
  [][\A w \in Workers : job[w].step = "store" /\ job'[w] # job[w] => ~Clash(w)]_vars
=============================================================================
