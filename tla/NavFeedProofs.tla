---------------------------- MODULE NavFeedProofs ----------------------------
(***************************************************************************)
(* Proofs about NavFeed, for every set of securities and workers, every    *)
(* market and every bound.                                                 *)
(*                                                                         *)
(* Searching says why a lone worker may close a feed on what it has read   *)
(* at the beginning of its backfill: a security on its list is not in the  *)
(* batch it is storing, so the price table of a security that had no price *)
(* then has none now.                                                      *)
(***************************************************************************)
EXTENDS NavFeed, WellFoundedInduction, TLAPS

Searching ==
  /\ \A w \in Workers : job[w].step # "idle" => w \in crew
  /\ \A w \in Workers : DOMAIN job[w].batch \cap DOMAIN job[w].needing = {}
  /\ \A w \in Workers : job[w].step \notin {"backfill", "store"} =>
       DOMAIN job[w].batch = {} /\ DOMAIN job[w].needing = {}
  /\ \A w \in Workers : Alone => \A s \in DOMAIN job[w].needing :
       job[w].needing[s].latest = NoDay => points[s] = {}

Inv == TypeOK /\ Searching

-----------------------------------------------------------------------------
(* The least and the greatest of a set of days.                            *)
Below == {p \in Nat \X Nat : p[1] < p[2]}

LEMMA LeastExists ==
  ASSUME NEW T, T \subseteq Nat, T # {}
  PROVE  \E x \in T : \A y \in T : x <= y
<1>1. IsWellFoundedOn(Below, Nat)
  <2>1. Below = OpToRel(<, Nat)
    BY DEF Below, OpToRel
  <2>. QED BY <2>1, NatLessThanWellFounded
<1>2. PICK x \in T : \A y \in T : ~(<<y, x>> \in Below)
  BY <1>1, WFMin
<1>3. ASSUME NEW y \in T PROVE x <= y
  <2>1. x \in Nat /\ y \in Nat /\ ~(<<y, x>> \in Below)
    BY <1>2
  <2>. QED BY <2>1 DEF Below
<1>. QED BY <1>3

LEMMA GreatestExists ==
  ASSUME NEW n \in Nat, NEW T, T \subseteq 0..n, T # {}
  PROVE  \E x \in T : \A y \in T : y <= x
<1>. DEFINE U == {n - y : y \in T}
<1>0. \A y \in T : y \in Int /\ 0 <= y /\ y <= n
  OBVIOUS
<1>1. U \subseteq Nat /\ U # {}
  <2>1. ASSUME NEW u \in U PROVE u \in Nat
    <3>1. PICK y \in T : u = n - y
      OBVIOUS
    <3>. QED BY <1>0, <3>1
  <2>2. PICK z \in T : TRUE
    OBVIOUS
  <2>3. n - z \in U
    OBVIOUS
  <2>. QED BY <2>1, <2>3
<1>2. PICK u \in U : \A v \in U : u <= v
  BY <1>1, LeastExists
<1>3. PICK x \in T : u = n - x
  OBVIOUS
<1>4. ASSUME NEW y \in T PROVE y <= x
  <2>1. u <= n - y
    BY <1>2
  <2>. QED BY <1>0, <1>3, <2>1
<1>. QED BY <1>4

LEMMA NewestOf ==
  ASSUME NEW D, D \subseteq Days
  PROVE  /\ Newest(D) \in Days \cup {NoDay}
         /\ Newest(D) = NoDay <=> D = {}
<1>1. MaxDay \in Nat /\ NoDay \notin Days
  BY BoundAssumption DEF NoDay, Days
<1>2. CASE D = {}
  BY <1>2 DEF Newest
<1>3. CASE D # {}
  <2>1. \E x \in D : \A y \in D : y <= x
    BY <1>1, <1>3, GreatestExists DEF Days
  <2>2. Newest(D) \in D
    BY <1>3, <2>1 DEF Newest
  <2>. QED BY <1>1, <1>3, <2>2
<1>. QED BY <1>2, <1>3

-----------------------------------------------------------------------------
(* Functions on some of the securities.                                    *)
LEMMA SomeIn == ASSUME NEW V, NEW D, D \subseteq Securities, NEW g \in [D -> V]
                PROVE  g \in Some(V)
BY DEF Some

LEMMA SomeOut ==
  ASSUME NEW V, NEW g \in Some(V)
  PROVE  DOMAIN g \subseteq Securities /\ \A s \in DOMAIN g : g[s] \in V
BY DEF Some

LEMMA IdleIs ==
  /\ Idle \in Passes /\ Idle.step = "idle" /\ Idle.cutoff = 0
  /\ Idle.book = {} /\ Idle.shut = {} /\ Idle.todo = {}
  /\ Idle.batch = Nobody /\ Idle.needing = Nobody /\ DOMAIN Nobody = {}
  /\ \A V : Nobody \in Some(V)
<1>1. DOMAIN Nobody = {} /\ \A V : Nobody \in [{} -> V]
  BY DEF Nobody
<1>2. \A V : Nobody \in Some(V)
  BY <1>1 DEF Some
<1>3. 0 \in Days
  BY BoundAssumption DEF Days
<1>. QED
  BY <1>1, <1>2, <1>3 DEF Idle, Passes, Kinds

(* A source tells nothing of a session that has not ended.                 *)
LEMMA ServedEnded ==
  ASSUME TypeOK, NEW s \in Securities, NEW since, NEW until
  PROVE  Served(s, since, until) \subseteq 0 .. Ended
<1>1. today \in Int /\ opened[s] \in Int /\ 0 <= opened[s]
  BY BoundAssumption DEF TypeOK, Days
<1>. QED
  BY <1>1 DEF Served, Ended

LEMMA AnswerDays == DaysOf(Failure) = {} /\ \A D : DaysOf(Answered(D)) = D
<1>1. DaysOf(Failure) = {}
  BY DEF DaysOf, Failure
<1>2. ASSUME NEW D PROVE DaysOf(Answered(D)) = D
  <2>1. DOMAIN <<D>> = {1} /\ <<D>>[1] = D
    OBVIOUS
  <2>. QED BY <2>1 DEF DaysOf, Answered
<1>. QED BY <1>1, <1>2

LEMMA HistoryEnded ==
  ASSUME TypeOK, NEW s \in Securities, NEW since, NEW answer \in History(s, since)
  PROVE  DaysOf(answer) \subseteq 0 .. Ended
<1>1. ASSUME NEW D, answer = Answered(D), D \subseteq 0 .. Ended
      PROVE  DaysOf(answer) \subseteq 0 .. Ended
  BY <1>1, AnswerDays
<1>2. CASE answer = Failure
  BY <1>2, AnswerDays
<1>3. CASE answer \in Captnemo(s, since) \cup Mfapi(s, since) \cup Yahoo(s, since)
  BY <1>1, <1>2, <1>3, ServedEnded DEF Captnemo, Mfapi, Yahoo
<1>4. CASE answer \in NseHistory(s, since)
  BY <1>1, <1>4, ServedEnded DEF NseHistory
<1>. QED
  BY <1>3, <1>4 DEF History, FundHistory, ShareHistory

LEMMA LatestPublished ==
  ASSUME TypeOK, NEW s \in Securities, NEW answer \in LatestPrice(s)
  PROVE  DaysOf(answer) \subseteq 0 .. today
<1>0. today \in Nat /\ \A d \in Recent(s) : d \in 0 .. today
  BY ServedEnded, BoundAssumption DEF Recent, Ended, TypeOK, Days
<1>1. ASSUME NEW D, answer = Answered(D), D \subseteq 0 .. today
      PROVE  DaysOf(answer) \subseteq 0 .. today
  BY <1>1, AnswerDays
<1>2. CASE answer = Failure \/ answer = Answered({})
  BY <1>2, AnswerDays
<1>3. ASSUME NEW d \in 0 .. today, answer = Answered({d})
      PROVE  DaysOf(answer) \subseteq 0 .. today
  BY <1>1, <1>3
<1>4. today \in 0 .. today
  BY <1>0
<1>5. CASE \E d \in Recent(s) : answer = Answered({d})
  BY <1>0, <1>3, <1>5
<1>6. CASE answer = Answered({today})
  BY <1>3, <1>4, <1>6
<1>. QED
  BY <1>2, <1>5, <1>6 DEF LatestPrice, BulkLatest, OwnLatest, YahooQuote

-----------------------------------------------------------------------------
LEMMA InvInit == Init => Inv
<1>. SUFFICES ASSUME Init PROVE Inv
  OBVIOUS
<1>1. 0 \in Days /\ MaxDay \in Nat
  BY BoundAssumption DEF Days
<1>2. kind \in [Securities -> Kinds] /\ opened \in [Securities -> Days]
  BY MarketAssumption DEF Init
<1>3. \A w \in Workers : job[w] = Idle
  BY DEF Init
<1>4. job \in [Workers -> Passes]
  BY <1>3, IdleIs DEF Init
<1>5. TypeOK
  BY <1>1, <1>2, <1>3, <1>4, IdleIs DEF Init, TypeOK
<1>6. Searching
  BY <1>3, IdleIs DEF Searching
<1>. QED BY <1>5, <1>6 DEF Inv

(* A step of a pass.  The premises say what the pass becomes, that it      *)
(* stores days that have begun, and which of its findings still hold.      *)
LEMMA PassMoves ==
  ASSUME Inv, NEW w \in Workers, w \in crew, NEW rec \in Passes, Step(w, rec),
         UNCHANGED <<today, first, kind, opened, crew>>,
         points' \in [Securities -> SUBSET (0 .. today)],
         closed' \in [Securities -> BOOLEAN],
         rec.cutoff <= today,
         rec.book \cup rec.shut \cup rec.todo \subseteq Held,
         \A s \in DOMAIN rec.batch : rec.batch[s] \subseteq 0 .. Ended,
         DOMAIN rec.batch \cap DOMAIN rec.needing = {},
         rec.step \notin {"backfill", "store"} =>
           DOMAIN rec.batch = {} /\ DOMAIN rec.needing = {},
         \A s \in DOMAIN rec.needing :
           Alone /\ rec.needing[s].latest = NoDay => points'[s] = {}
  PROVE  Inv'
<1>1. job \in [Workers -> Passes] /\ job' = [job EXCEPT ![w] = rec]
  BY DEF Step, Inv, TypeOK
<1>2. \A v \in Workers : job'[v] = IF v = w THEN rec ELSE job[v]
  BY <1>1
<1>3. Held' = Held /\ Ended' = Ended /\ Alone' = Alone
  BY DEF Held, Ended, Alone
<1>4. TypeOK'
  BY <1>1, <1>2, <1>3 DEF Inv, TypeOK
<1>5. ASSUME Alone, NEW v \in Workers, v # w PROVE DOMAIN job[v].needing = {}
  <2>1. v \notin crew
    BY <1>5 DEF Alone
  <2>. QED BY <2>1 DEF Inv, Searching
<1>6. Searching'
  <2>1. \A v \in Workers : job'[v].step # "idle" => v \in crew'
    BY <1>2 DEF Inv, Searching
  <2>2. \A v \in Workers : DOMAIN job'[v].batch \cap DOMAIN job'[v].needing = {}
    BY <1>2 DEF Inv, Searching
  <2>3. \A v \in Workers : job'[v].step \notin {"backfill", "store"} =>
          DOMAIN job'[v].batch = {} /\ DOMAIN job'[v].needing = {}
    BY <1>2 DEF Inv, Searching
  <2>4. \A v \in Workers : Alone' => \A s \in DOMAIN job'[v].needing :
          job'[v].needing[s].latest = NoDay => points'[s] = {}
    BY <1>2, <1>3, <1>5
  <2>. QED BY <2>1, <2>2, <2>3, <2>4 DEF Searching
<1>. QED BY <1>4, <1>6 DEF Inv

LEMMA InvNext == Inv /\ [Next]_vars => Inv'
<1>. SUFFICES ASSUME Inv, [Next]_vars PROVE Inv'
  OBVIOUS
<1>. USE DEF sources
<1>0. /\ today \in Nat /\ today <= MaxDay /\ MaxDay \in Nat /\ Held \subseteq Securities
      /\ points \in [Securities -> SUBSET (0 .. today)] /\ closed \in [Securities -> BOOLEAN]
      /\ \A D : D \subseteq 0 .. Ended => D \subseteq Days /\ D \subseteq 0 .. today
      /\ \A s \in Securities : points[s] \subseteq Days
  BY BoundAssumption DEF Inv, TypeOK, Days, Ended, Held
<1>1. ASSUME NEW w \in Workers
      PROVE  /\ job[w] \in Passes /\ job[w].cutoff <= today
             /\ job[w].book \subseteq Held /\ job[w].shut \subseteq Held /\ job[w].todo \subseteq Held
             /\ \A s \in DOMAIN job[w].batch : job[w].batch[s] \subseteq 0 .. Ended
             /\ DOMAIN job[w].batch \subseteq Securities /\ DOMAIN job[w].needing \subseteq Securities
             /\ \A s \in DOMAIN job[w].needing : job[w].needing[s] \in Findings
             /\ job[w].step # "idle" => w \in crew
             /\ DOMAIN job[w].batch \cap DOMAIN job[w].needing = {}
             /\ job[w].step \notin {"backfill", "store"} =>
                  DOMAIN job[w].batch = {} /\ DOMAIN job[w].needing = {}
             /\ \A s \in DOMAIN job[w].needing :
                  Alone /\ job[w].needing[s].latest = NoDay => points[s] = {}
  <2>1. job[w] \in Passes
    BY DEF Inv, TypeOK
  <2>2. job[w].batch \in Some(SUBSET Days) /\ job[w].needing \in Some(Findings)
    BY <2>1 DEF Passes
  <2>. QED
    BY <2>1, <2>2, SomeOut DEF Inv, TypeOK, Searching
<1>2. ASSUME NEW w \in Workers, BeginPass(w) PROVE Inv'
  <2>. DEFINE rec == [Idle EXCEPT !.step = "survey", !.book = Held]
  <2>1. /\ rec \in Passes /\ rec.step = "survey" /\ rec.cutoff = 0 /\ rec.book = Held
        /\ rec.shut = {} /\ rec.todo = {} /\ rec.batch = Nobody /\ rec.needing = Nobody
    BY <1>0, IdleIs DEF Passes
  <2>2. /\ w \in crew /\ Step(w, rec)
        /\ UNCHANGED <<today, first, points, closed, kind, opened, crew>>
    BY <1>2 DEF BeginPass
  <2>. HIDE DEF rec
  <2>. QED BY <1>0, <2>1, <2>2, IdleIs, PassMoves
<1>3. ASSUME NEW w \in Workers, Survey(w) PROVE Inv'
  <2>. DEFINE found == Candidates(w)
              list == [s \in found |-> Finding(s)]
              shut == {s \in found : closed[s]}
              rec == [job[w] EXCEPT !.cutoff = today, !.bulk = TRUE, !.step = "backfill",
                                    !.needing = list, !.shut = shut]
  <2>1. /\ job[w].step = "survey" /\ Step(w, rec)
        /\ UNCHANGED <<today, first, points, closed, kind, opened, crew>>
    BY <1>3 DEF Survey
  <2>2. found \subseteq Held /\ found \subseteq Securities
    BY <1>0, <1>1 DEF Candidates
  <2>3. \A s \in found : Finding(s) \in Findings /\ (Finding(s).latest = NoDay => points[s] = {})
    <3>1. ASSUME NEW s \in found PROVE first[s] \in Days
      BY <2>2 DEF Held, Inv, TypeOK
    <3>2. ASSUME NEW s \in found
          PROVE  Newest(points[s]) \in Days \cup {NoDay} /\ (Newest(points[s]) = NoDay <=> points[s] = {})
      BY <1>0, <2>2, NewestOf
    <3>3. \A s \in found : ReachesBack(s) \in BOOLEAN
      BY DEF ReachesBack
    <3>. QED BY <3>1, <3>2, <3>3 DEF Finding, Findings
  <2>4. list \in [found -> Findings] /\ list \in Some(Findings)
    BY <2>2, <2>3, SomeIn
  <2>5. \A s \in DOMAIN list : list[s].latest = NoDay => points[s] = {}
    BY <2>3
  <2>. HIDE DEF list, shut
  <2>6. shut \subseteq Held /\ shut \in SUBSET Securities /\ today \in Days
    BY <1>0, <2>2 DEF shut, Days
  <2>7. /\ rec \in Passes /\ rec.step = "backfill" /\ rec.cutoff = today
        /\ rec.book = job[w].book /\ rec.shut \subseteq Held /\ rec.todo = job[w].todo
        /\ rec.batch = job[w].batch /\ rec.needing = list
    BY <1>1, <2>4, <2>6 DEF Passes
  <2>8. DOMAIN rec.batch = {}
    BY <1>1, <2>1, <2>7
  <2>. HIDE DEF rec, found
  <2>. QED BY <1>0, <1>1, <2>1, <2>5, <2>7, <2>8, PassMoves
<1>4. ASSUME NEW w \in Workers, SkipBulk(w), job[w].step = "backfill",
             UNCHANGED <<today, first, points, closed, sources>>
      PROVE  Inv'
  <2>. DEFINE rec == [job[w] EXCEPT !.bulk = FALSE]
  <2>1. /\ rec \in Passes /\ rec.step = "backfill" /\ rec.cutoff = job[w].cutoff
        /\ rec.book = job[w].book /\ rec.shut = job[w].shut /\ rec.todo = job[w].todo
        /\ rec.batch = job[w].batch /\ rec.needing = job[w].needing
    BY <1>1, <1>4 DEF Passes
  <2>2. Step(w, rec)
    BY <1>4 DEF SkipBulk
  <2>. HIDE DEF rec
  <2>. QED BY <1>0, <1>1, <1>4, <2>1, <2>2, PassMoves
<1>5. ASSUME NEW w \in Workers, NEW batch, Staged(w, batch), job[w].step = "backfill",
             DOMAIN batch \subseteq DOMAIN job[w].needing,
             batch \in [DOMAIN batch -> SUBSET (0 .. Ended)],
             UNCHANGED <<today, first, points, closed, sources>>
      PROVE  Inv'
  <2>. DEFINE left == [s \in DOMAIN job[w].needing \ DOMAIN batch |-> job[w].needing[s]]
              rec == [job[w] EXCEPT !.batch = batch, !.step = "store", !.needing = left]
  <2>1. Step(w, rec)
    BY <1>1, <1>5 DEF Staged, Passes
  <2>2. left \in Some(Findings)
    <3>1. left \in [DOMAIN job[w].needing \ DOMAIN batch -> Findings]
      BY <1>1
    <3>. HIDE DEF left
    <3>. QED BY <1>1, <3>1, SomeIn
  <2>3. batch \in Some(SUBSET Days)
    <3>1. batch \in [DOMAIN batch -> SUBSET Days]
      BY <1>0, <1>5
    <3>. QED BY <1>1, <1>5, <3>1, SomeIn
  <2>4. \A s \in DOMAIN left : s \in DOMAIN job[w].needing /\ left[s] = job[w].needing[s]
    OBVIOUS
  <2>5. DOMAIN batch \cap DOMAIN left = {}
    OBVIOUS
  <2>. HIDE DEF left
  <2>6. /\ rec \in Passes /\ rec.step = "store" /\ rec.cutoff = job[w].cutoff
        /\ rec.book = job[w].book /\ rec.shut = job[w].shut /\ rec.todo = job[w].todo
        /\ rec.batch = batch /\ rec.needing = left
    BY <1>1, <2>2, <2>3 DEF Passes
  <2>. HIDE DEF rec
  <2>. QED BY <1>0, <1>1, <1>5, <2>1, <2>4, <2>5, <2>6, PassMoves
<1>6. ASSUME NEW w \in Workers, BulkFunds(w) PROVE Inv'
  <2>. DEFINE start == Oldest({RepairFrom(w, s) : s \in Lagging(w)})
              named == {s \in Lagging(w) : AmfiReport(s, start, job[w].cutoff) # {}}
              batch == [s \in named |-> {d \in AmfiReport(s, start, job[w].cutoff) :
                                          RepairFrom(w, s) <= d} \ points[s]]
  <2>1. named \subseteq DOMAIN job[w].needing
    BY DEF Lagging
  <2>2. \A s \in named : AmfiReport(s, start, job[w].cutoff) \subseteq 0 .. Ended
    BY <1>1, <2>1, ServedEnded DEF AmfiReport, Inv
  <2>3. DOMAIN batch = named /\ batch \in [named -> SUBSET (0 .. Ended)]
    BY <2>2
  <2>4. SkipBulk(w) \/ Staged(w, batch)
    BY <1>6 DEF BulkFunds
  <2>5. job[w].step = "backfill" /\ UNCHANGED <<today, first, points, closed, sources>>
    BY <1>6 DEF BulkFunds
  <2>. HIDE DEF batch, named
  <2>. QED BY <1>4, <1>5, <2>1, <2>3, <2>4, <2>5
<1>7. ASSUME NEW w \in Workers, BulkShares(w) PROVE Inv'
  <2>1. job[w].step = "backfill" /\ UNCHANGED <<today, first, points, closed, sources>>
    BY <1>7 DEF BulkShares
  <2>2. ASSUME NEW files \in SUBSET Sessions(w), BulkSharesFrom(w, files) PROVE Inv'
    <3>. DEFINE traded == {s \in DOMAIN job[w].needing : Bhavcopy(s, files) # {}}
                batch == [s \in traded |->
                  {d \in Bhavcopy(s, files) : job[w].needing[s].since <= d} \ points[s]]
    <3>1. files \subseteq 0 .. Ended
      <4>1. job[w].cutoff \in Int
        BY <1>1, BoundAssumption DEF Passes, Days
      <4>. QED BY <1>0, <2>2, <4>1 DEF Sessions, LastSession, Days, Ended
    <3>2. \A s : Bhavcopy(s, files) \subseteq 0 .. Ended
      BY <3>1 DEF Bhavcopy
    <3>3. DOMAIN batch = traded /\ batch \in [traded -> SUBSET (0 .. Ended)]
      BY <3>2
    <3>4. traded \subseteq DOMAIN job[w].needing
      OBVIOUS
    <3>5. Staged(w, batch)
      BY <2>2 DEF BulkSharesFrom
    <3>. HIDE DEF batch, traded
    <3>. QED BY <1>5, <2>1, <3>3, <3>4, <3>5
  <2>. QED
    BY <1>4, <1>7, <2>1, <2>2 DEF BulkShares
<1>8. ASSUME NEW w \in Workers, NEW s \in Securities, BackfillOne(w, s) PROVE Inv'
  <2>1. PICK answer \in History(s, job[w].needing[s].since) : BackfillWith(w, s, answer)
    BY <1>8 DEF BackfillOne
  <2>. DEFINE fresh == DaysOf(answer) \ points[s]
              left == [q \in DOMAIN job[w].needing \ {s} |-> job[w].needing[q]]
              one == [q \in {s} |-> fresh]
              done == [job[w] EXCEPT !.needing = left]
              rec == [job[w] EXCEPT !.needing = left, !.step = "store", !.batch = one]
  <2>2. /\ job[w].step = "backfill" /\ s \in DOMAIN job[w].needing
        /\ Step(w, IF fresh = {} THEN done ELSE rec)
        /\ UNCHANGED <<today, first, points, sources>>
        /\ closed' \in [Securities -> BOOLEAN]
    BY <1>0, <2>1 DEF BackfillWith
  <2>3. fresh \subseteq 0 .. Ended
    BY <1>8, HistoryEnded DEF Inv
  <2>4. left \in Some(Findings) /\ DOMAIN left = DOMAIN job[w].needing \ {s}
    <3>1. left \in [DOMAIN job[w].needing \ {s} -> Findings]
      BY <1>1
    <3>. HIDE DEF left
    <3>. QED BY <1>1, <3>1, SomeIn
  <2>5. one \in Some(SUBSET Days) /\ DOMAIN one = {s} /\ one[s] = fresh
    <3>1. one \in [{s} -> SUBSET Days] /\ {s} \subseteq Securities
      BY <1>0, <2>3
    <3>2. one \in Some(SUBSET Days)
      <4>. HIDE DEF one
      <4>. QED BY <3>1, SomeIn
    <3>. QED BY <3>2
  <2>6. \A q \in DOMAIN left : left[q] = job[w].needing[q] /\ q \in DOMAIN job[w].needing
    OBVIOUS
  <2>. HIDE DEF left, one, fresh
  <2>7. CASE fresh = {}
    <3>1. /\ done \in Passes /\ done.step = "backfill" /\ done.cutoff = job[w].cutoff
          /\ done.book = job[w].book /\ done.shut = job[w].shut /\ done.todo = job[w].todo
          /\ done.batch = job[w].batch /\ done.needing = left
      BY <1>1, <2>2, <2>4 DEF Passes
    <3>2. DOMAIN done.batch \cap DOMAIN done.needing = {}
      BY <1>1, <2>4, <3>1
    <3>3. Step(w, done)
      BY <2>2, <2>7
    <3>. HIDE DEF done
    <3>. QED BY <1>0, <1>1, <2>2, <2>4, <2>6, <3>1, <3>2, <3>3, PassMoves
  <2>8. CASE fresh # {}
    <3>1. /\ rec \in Passes /\ rec.step = "store" /\ rec.cutoff = job[w].cutoff
          /\ rec.book = job[w].book /\ rec.shut = job[w].shut /\ rec.todo = job[w].todo
          /\ rec.batch = one /\ rec.needing = left
      BY <1>1, <2>2, <2>4, <2>5 DEF Passes
    <3>2. Step(w, rec)
      BY <2>2, <2>8
    <3>. HIDE DEF rec
    <3>. QED BY <1>0, <1>1, <2>2, <2>3, <2>4, <2>5, <2>6, <3>1, <3>2, PassMoves
  <2>. QED BY <2>7, <2>8
<1>9. ASSUME NEW w \in Workers, StoreBatch(w) PROVE Inv'
  <2>1. job[w].step = "store" /\ UNCHANGED <<today, first, kind, opened, crew>>
    BY <1>9 DEF StoreBatch
  <2>2. CASE Clash(w)
    <3>1. Step(w, Idle) /\ UNCHANGED <<points, closed>>
      BY <1>9, <2>2 DEF StoreBatch
    <3>. QED BY <1>0, <1>1, <2>1, <3>1, IdleIs, PassMoves
  <2>3. CASE ~Clash(w)
    <3>. DEFINE rec == [job[w] EXCEPT !.batch = Nobody, !.step = "backfill", !.bulk = FALSE]
    <3>1. /\ points' = [s \in Securities |->
               IF s \in DOMAIN job[w].batch THEN points[s] \cup job[w].batch[s] ELSE points[s]]
          /\ closed' = [s \in Securities |-> closed[s] /\ s \notin Reopened(w)]
          /\ Step(w, rec)
      BY <1>9, <2>3 DEF StoreBatch
    <3>2. points' \in [Securities -> SUBSET (0 .. today)]
      BY <1>0, <1>1, <3>1
    <3>3. closed' \in [Securities -> BOOLEAN]
      BY <1>0, <3>1
    <3>4. /\ rec \in Passes /\ rec.step = "backfill" /\ rec.cutoff = job[w].cutoff
          /\ rec.book = job[w].book /\ rec.shut = job[w].shut /\ rec.todo = job[w].todo
          /\ rec.batch = Nobody /\ rec.needing = job[w].needing
      BY <1>1, IdleIs DEF Passes
    <3>5. \A s \in DOMAIN job[w].needing : points'[s] = points[s]
      BY <1>1, <3>1
    <3>6. /\ w \in crew /\ rec.cutoff <= today
          /\ rec.book \cup rec.shut \cup rec.todo \subseteq Held
          /\ DOMAIN rec.batch = {}
          /\ \A s \in DOMAIN rec.needing :
               Alone /\ rec.needing[s].latest = NoDay => points'[s] = {}
      BY <1>1, <2>1, <3>4, <3>5, IdleIs
    <3>. HIDE DEF rec
    <3>. QED BY <2>1, <3>1, <3>2, <3>3, <3>4, <3>6, PassMoves
  <2>. QED BY <2>2, <2>3
<1>10. ASSUME NEW w \in Workers, EndBackfill(w) PROVE Inv'
  <2>. DEFINE shares == [Idle EXCEPT !.step = "survey", !.kind = "share", !.book = job[w].book]
              latest == [Idle EXCEPT !.step = "refresh", !.todo = job[w].book]
  <2>1. /\ job[w].step = "backfill" /\ (Step(w, shares) \/ Step(w, latest))
        /\ UNCHANGED <<today, first, points, closed, kind, opened, crew>>
    BY <1>10 DEF EndBackfill
  <2>2. /\ shares \in Passes /\ shares.step = "survey" /\ shares.cutoff = 0
        /\ shares.book = job[w].book /\ shares.shut = {} /\ shares.todo = {}
        /\ shares.batch = Nobody /\ shares.needing = Nobody
    BY <1>0, <1>1, IdleIs DEF Passes, Kinds
  <2>3. /\ latest \in Passes /\ latest.step = "refresh" /\ latest.cutoff = 0
        /\ latest.book = {} /\ latest.shut = {} /\ latest.todo = job[w].book
        /\ latest.batch = Nobody /\ latest.needing = Nobody
    BY <1>0, <1>1, IdleIs DEF Passes
  <2>. HIDE DEF shares, latest
  <2>4. w \in crew /\ job[w].book \subseteq Held
    BY <1>1, <2>1
  <2>5. /\ shares.book \cup shares.shut \cup shares.todo \subseteq Held /\ shares.cutoff <= today
        /\ latest.book \cup latest.shut \cup latest.todo \subseteq Held /\ latest.cutoff <= today
        /\ DOMAIN shares.batch = {} /\ DOMAIN shares.needing = {}
        /\ DOMAIN latest.batch = {} /\ DOMAIN latest.needing = {}
    BY <1>0, <2>2, <2>3, <2>4, IdleIs
  <2>6. UNCHANGED <<points, closed>> /\ points \in [Securities -> SUBSET (0 .. today)]
        /\ closed \in [Securities -> BOOLEAN]
    BY <1>0, <2>1
  <2>7. CASE Step(w, shares)
    BY <2>1, <2>2, <2>4, <2>5, <2>6, <2>7, PassMoves
  <2>8. CASE Step(w, latest)
    BY <2>1, <2>3, <2>4, <2>5, <2>6, <2>8, PassMoves
  <2>. QED BY <2>1, <2>7, <2>8
<1>11. ASSUME NEW w \in Workers, NEW s \in Securities, RefreshLatest(w, s) PROVE Inv'
  <2>. DEFINE rec == [job[w] EXCEPT !.todo = @ \ {s}]
  <2>1. /\ job[w].step = "refresh" /\ Step(w, rec)
        /\ UNCHANGED <<today, first, closed, kind, opened, crew>>
    BY <1>11 DEF RefreshLatest
  <2>2. PICK answer \in LatestPrice(s) : points' = [points EXCEPT ![s] = @ \cup DaysOf(answer)]
    BY <1>11 DEF RefreshLatest
  <2>3. points' \in [Securities -> SUBSET (0 .. today)]
    BY <1>0, <2>2, LatestPublished DEF Inv
  <2>4. /\ rec \in Passes /\ rec.step = "refresh" /\ rec.cutoff = job[w].cutoff
        /\ rec.book = job[w].book /\ rec.shut = job[w].shut /\ rec.todo \subseteq Held
        /\ rec.batch = job[w].batch /\ rec.needing = job[w].needing
    BY <1>1, <2>1 DEF Passes
  <2>. HIDE DEF rec
  <2>. QED BY <1>0, <1>1, <2>1, <2>3, <2>4, PassMoves
<1>12. ASSUME NEW w \in Workers, EndPass(w) PROVE Inv'
  <2>1. /\ job[w].step = "refresh" /\ Step(w, Idle)
        /\ UNCHANGED <<today, first, points, closed, kind, opened, crew>>
    BY <1>12 DEF EndPass
  <2>. QED BY <1>0, <1>1, <2>1, IdleIs, PassMoves
<1>13. CASE NextDay
  <2>1. /\ today' = today + 1 /\ today' \in Days
        /\ UNCHANGED <<first, points, closed, job, kind, opened, crew>>
    BY <1>0, <1>13 DEF NextDay, Days
  <2>2. 0 .. today \subseteq 0 .. today' /\ 0 .. Ended \subseteq (0 .. Ended)' /\ Held' = Held
    BY <1>0, <2>1 DEF Ended, Held
  <2>3. \A w \in Workers : job[w].cutoff <= today'
    <3>1. \A w \in Workers : job[w].cutoff \in Int
      BY <1>1, BoundAssumption DEF Passes, Days
    <3>. QED BY <1>0, <1>1, <2>1, <3>1
  <2>4. points' \in [Securities -> SUBSET (0 .. today')]
    BY <1>0, <2>1, <2>2
  <2>5. TypeOK'
    BY <2>1, <2>2, <2>3, <2>4 DEF Inv, TypeOK
  <2>. QED BY <2>1, <2>5 DEF Inv, Searching, Alone
<1>14. ASSUME NEW s \in Securities, NEW d \in Days, Import(s, d) PROVE Inv'
  <2>1. /\ first' = [first EXCEPT ![s] = d]
        /\ UNCHANGED <<today, points, closed, job, kind, opened, crew>>
    BY <1>14 DEF Import
  <2>2. first' \in [Securities -> Days \cup {NoDay}] /\ d # NoDay
    BY <2>1, BoundAssumption DEF Inv, TypeOK, Days, NoDay
  <2>3. Held \subseteq Held' /\ Ended' = Ended
    BY <2>1, <2>2 DEF Held, Ended, Inv, TypeOK
  <2>4. TypeOK'
    BY <2>1, <2>2, <2>3 DEF Inv, TypeOK
  <2>. QED BY <2>1, <2>4 DEF Inv, Searching, Alone
<1>15. CASE UNCHANGED vars
  BY <1>15 DEF vars, Inv, TypeOK, Searching, Alone, Held, Ended
<1>. QED
  BY <1>2, <1>3, <1>6, <1>7, <1>8, <1>9, <1>10, <1>11, <1>12, <1>13, <1>14, <1>15
  DEF Next, Work

LEMMA Invariance == Spec => []Inv
BY InvInit, InvNext, PTL DEF Spec

(* The tables and the passes keep their shapes: prices on file are of days *)
(* that have begun, those a backfill is about to store of sessions that    *)
(* have ended (completed_trading_day).                                     *)
THEOREM TypeCorrect == Spec => []TypeOK
BY Invariance, PTL DEF Inv

-----------------------------------------------------------------------------
(* A worker that is alone closes a feed only when the price table has      *)
(* nothing of the security and the source answered that it has nothing     *)
(* from the first activity on (_run_backfill_one): no failure, no race     *)
(* with its own batches and no half-answered history closes one.           *)
LEMMA SilentAnswer ==
  ASSUME NEW s, NEW since, NEW answer \in History(s, since), answer # Failure,
         DaysOf(answer) = {}, TypeOK
  PROVE  Served(s, since, Ended - 1) = {}
<1>1. \A u : u \in {Ended, Ended - 1} => Served(s, since, Ended - 1) \subseteq Served(s, since, u)
  <2>1. Ended \in Int
    BY BoundAssumption DEF TypeOK, Days, Ended
  <2>. QED BY <2>1 DEF Served
<1>2. CASE answer \in Captnemo(s, since) \cup Mfapi(s, since) \cup Yahoo(s, since)
  BY <1>1, <1>2, AnswerDays DEF Captnemo, Mfapi, Yahoo
<1>. QED
  BY <1>2 DEF History, FundHistory, ShareHistory

THEOREM FeedsCloseSilently == Spec => ClosingIsSilent
<1>. DEFINE Silent == \A s \in Securities : Alone /\ closed'[s] /\ ~closed[s] =>
       /\ points[s] = {}
       /\ \E w \in crew : s \in DOMAIN job[w].needing
            /\ Served(s, job[w].needing[s].since, Ended - 1) = {}
<1>1. Inv /\ [Next]_vars => [Silent]_vars
  <2>. SUFFICES ASSUME Inv, Next, NEW s \in Securities, Alone, closed'[s], ~closed[s]
                PROVE  /\ points[s] = {}
                       /\ \E w \in crew : s \in DOMAIN job[w].needing
                            /\ Served(s, job[w].needing[s].since, Ended - 1) = {}
    OBVIOUS
  <2>0. closed \in [Securities -> BOOLEAN] /\ closed' # closed
    BY DEF Inv, TypeOK
  <2>1. ASSUME NEW w \in Workers, NEW q \in Securities, BackfillOne(w, q)
        PROVE  /\ points[s] = {}
               /\ \E v \in crew : s \in DOMAIN job[v].needing
                    /\ Served(s, job[v].needing[s].since, Ended - 1) = {}
    <3>1. PICK answer \in History(q, job[w].needing[q].since) : BackfillWith(w, q, answer)
      BY <2>1 DEF BackfillOne
    <3>2. closed' = [closed EXCEPT ![q] = @ \/ NothingThere(w, q, answer)]
      BY <3>1 DEF BackfillWith
    <3>3. s = q /\ NothingThere(w, q, answer)
      BY <2>0, <3>2
    <3>4. w \in crew /\ s \in DOMAIN job[w].needing
      BY <3>1, <3>3 DEF BackfillWith, Inv, Searching
    <3>5. points[s] = {}
      BY <3>3, <3>4 DEF NothingThere, Inv, Searching
    <3>6. DaysOf(answer) = {} /\ answer # Failure
      BY <3>3, <3>5 DEF NothingThere
    <3>7. Served(s, job[w].needing[s].since, Ended - 1) = {}
      BY <3>1, <3>3, <3>6, SilentAnswer DEF Inv
    <3>. QED BY <3>4, <3>5, <3>7
  <2>2. ASSUME NEW w \in Workers, StoreBatch(w) PROVE FALSE
    BY <2>0, <2>2 DEF StoreBatch
  <2>. QED
    BY <2>0, <2>1, <2>2
    DEF Next, Work, BeginPass, Survey, BulkFunds, BulkShares, EndBackfill, RefreshLatest,
        EndPass, NextDay, Import
<1>. QED
  BY <1>1, Invariance, PTL DEF Spec, ClosingIsSilent
=============================================================================
