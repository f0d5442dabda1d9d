------------------------------ MODULE LedgerViews ------------------------------
(***************************************************************************)
(* What is computed from the ledger on every read, never stored: the       *)
(* units a holding is valued at, the positions of a past day behind the    *)
(* charts, the as-traded ledger of the scheme page, realised gains and     *)
(* Schedule 112A (services/valuation.py, tax_export.py, exports.py,        *)
(* core/tax).  Each view nets the ledger its own way; the properties say   *)
(* where two of them must meet.  They are checked on the states of         *)
(* CorporateActions.  Rupees are whole, rounding is left out.              *)
(***************************************************************************)
EXTENDS CorporateActions

CONSTANTS
  Quotes,       \* NAVHistory: [sec, day, nav], rupees per share
  Years,        \* the financial years, <<first day, last day>>
  TwelveMonths, \* in days
  Grandfather,  \* GRANDFATHER_ACQUIRE_CUTOFF
  ExemptUntil,  \* BUYBACK_CG_EXEMPT_UNTIL
  Fmv,          \* the value of a share at the cutoff; NoPrice if unknown
  Eligible      \* securities under section 112A

NoPrice == 0

ASSUME ViewsAssumption ==
  /\ \A q \in Quotes : q.sec \in Securities /\ q.nav \in Nat \ {NoPrice}
  /\ Fmv \in [Securities -> Nat] /\ Eligible \subseteq Securities

(* The latest price on or before a day.                                    *)
PriceAt(sec, day) ==
  LET seen == {q \in Quotes : q.sec = sec /\ q.day <= day}
  IN IF seen = {} THEN NoPrice
     ELSE (CHOOSE q \in seen : \A r \in seen : r.day <= q.day).nav

SumOver(S, f(_)) == SumFunction([x \in S |-> f(x)])

-----------------------------------------------------------------------------
(* Units now: the ledger of a folio where it has one, else its snapshot.   *)
Snapshots(s, sec) == {f \in Folios : s.holdings[f, sec] # NotHeld}
Owned(ledger, sec) == {b[1] : b \in {b \in Buckets(ledger) : b[2] = sec}}

AlsoSnapshots(s, ledger, sec) == Snapshots(s, sec)         \* mistaken: counted twice
Unledgered(s, ledger, sec) == Snapshots(s, sec) \ Owned(ledger, sec)

CurrentUnits(s, sec) ==
  LET ledger == ProjectedTransactions(s)
  IN Most(0, NetUnits(RowsOf(ledger, sec, NoFolio))
             + SumOver(Unledgered(s, ledger, sec), LAMBDA f : s.holdings[f, sec]))

(* Units and invested capital of a day, FIFO per folio over what happened  *)
(* up to then; a folio that oversells shows its net units and no capital.  *)
BucketAsOf(s, bucket, shed) ==
  LET book == Fifo(bucket, shed)
  IN IF book.short THEN [units |-> NetUnits(bucket), invested |-> 0]
     ELSE [units |-> LotUnits(book.lots), invested |-> LotCost(book.lots)]

Positions(s, ledger, sec, day, shed, folios) ==
  LET past   == Keep(shed, LAMBDA r : r.day <= day)
      at(f)  == BucketAsOf(s, Keep(ledger, LAMBDA t : t.sec = sec /\ t.folio = f /\ t.day <= day), past)
      owners == Owned(ledger, sec)
  IN [units    |-> SumOver(owners, LAMBDA f : at(f).units)
                   + SumOver(folios \ owners, LAMBDA f : s.holdings[f, sec]),
      invested |-> SumOver(owners, LAMBDA f : at(f).invested)]
PositionsAsOf(s, sec, day, shed, folios) ==
  Positions(s, ProjectedTransactions(s), sec, day, shed, folios)

(* The detail of a holding counts snapshots and demergers, the series      *)
(* neither.                                                                *)
HoldingExtras(s, sec, day) ==
  PositionsAsOf(s, sec, day, Reductions(s, sec), Snapshots(s, sec))
SeriesPoint(s, sec, day) == PositionsAsOf(s, sec, day, <<>>, {})

Worth(units, sec, day) ==
  IF units <= 0 \/ PriceAt(sec, day) = NoPrice THEN 0
  ELSE (units * PriceAt(sec, day)) \div Share
ValueSeries(s, day) ==
  SumOver(Securities, LAMBDA sec : Worth(SeriesPoint(s, sec, day).units, sec, day))

-----------------------------------------------------------------------------
(* The scheme page: trades as traded, with the actions as +units rows      *)
(* between them and a running balance; on one day trades come first.       *)
TradeEntry(t)  == [day |-> t.day, rank |-> 0, units |-> IF t.complete THEN Signed(t) ELSE 0,
                   num |-> 1, den |-> 1]
ReceiptEntry(day, units) == [day |-> day, rank |-> 1, units |-> units, num |-> 1, den |-> 1]
ScaleEntry(e)  == [day |-> e.day, rank |-> 2, units |-> 0, num |-> e.num, den |-> e.den]

(* What a merger brought is read off the finished projection.              *)
MergedIn(s, sec, from) ==
  LET lots == Keep(s.rows, LAMBDA t : t.sec = from /\ t.complete)
  IN NetUnits(Keep(Replay(NetIntraday(lots), Touching(s.log, {from, sec}, NoFolio)),
                   LAMBDA t : t.sec = sec /\ t.type # "bonus"))

Chronological(all) ==
  Placed(all, Ordered(DOMAIN all, LAMBDA j, k :
    \/ all[j].day < all[k].day
    \/ all[j].day = all[k].day /\ all[j].rank < all[k].rank
    \/ <<all[j].day, all[j].rank>> = <<all[k].day, all[k].rank>> /\ j < k))
Timeline(s, sec) ==
  LET rows    == Keep(s.rows, LAMBDA t : t.sec = sec)
      trades  == [k \in DOMAIN rows |-> TradeEntry(rows[k])]
      mergers == {e \in s.log : e.kind = "merger" /\ e.into = sec}
      scales  == {e \in s.log : e.kind \in Scaling /\ e.sec = sec}
      byDay(a, b) == a.day < b.day \/ (a.day = b.day /\ a.ref < b.ref)
      receipts == LET m == Ordered(mergers, byDay)
                  IN [k \in DOMAIN m |-> ReceiptEntry(m[k].day, MergedIn(s, sec, m[k].sec))]
      scaled   == LET e == Ordered(scales, byDay) IN [k \in DOMAIN e |-> ScaleEntry(e[k])]
  IN Chronological(trades \o receipts \o scaled)

EntryOnly(balance, entry) == balance + entry.units            \* mistaken: no scaling
RunningBalance(balance, entry) ==
  ((balance + entry.units) * entry.num) \div entry.den
SchemeBalance(s, sec) == FoldLeft(RunningBalance, 0, Timeline(s, sec))

-----------------------------------------------------------------------------
(* Tax.  Only folios whose integrity status vouches for their cost reach   *)
(* FIFO; forced, all but acknowledged gaps and snapshots do.               *)
FolioTaxReady(status, force) ==
  IF force THEN status \in {"full_history", "reconciled", "mismatch"}
  ELSE status \in {"full_history", "reconciled"}

ReadyFolios(s, force) == {p \in Pairs : FolioTaxReady(s.integrity[p].status, force)}

Disposed(s, p) ==
  Fifo(Keep(ProjectedTransactions(s), LAMBDA t : <<t.folio, t.sec>> = p), Reductions(s, p[2]))

GainLines(s, force) ==
  UNION {{<<p, k, Disposed(s, p).sold[k]>> : k \in DOMAIN Disposed(s, p).sold} :
           p \in ReadyFolios(s, force)}
Slice(line) == line[3]

LongTerm(d) == d.sold > d.acquired + TwelveMonths
Term(d) ==
  CASE d.buyback /\ d.sold <= ExemptUntil -> "exempt"
    [] ~(d.buyback /\ d.sold <= ExemptUntil) /\ d.sec \in Eligible /\ LongTerm(d) -> "long"
    [] OTHER -> "short"

(* Lots bought up to the cutoff may cost what they were worth at it, but   *)
(* not more than they were sold for.                                       *)
FmvOfSlice(d) == (d.units * Fmv[d.sec]) \div Share
CappedAlways(d) == Fmv[d.sec] # NoPrice                  \* mistaken: whenever bought
CappedAtFmv(d) == d.acquired <= Grandfather /\ Fmv[d.sec] # NoPrice

AdjustedCost(d) ==
  IF Term(d) = "long" /\ d.acquired <= Grandfather /\ Fmv[d.sec] # NoPrice
  THEN Most(d.cost, Least(FmvOfSlice(d), d.price)) ELSE d.cost
Gain(d) == d.price - AdjustedCost(d)

InYear(lines, year) == {l \in lines : Slice(l).sold >= year[1] /\ Slice(l).sold <= year[2]}

(* build_capital_gains: totals by term.                                    *)
TotalGain(lines, term) ==
  SumOver({l \in lines : Term(Slice(l)) = term}, LAMBDA l : Gain(Slice(l)))
CapitalGains(s, year) ==
  [term \in {"short", "long", "exempt"} |-> TotalGain(InYear(GainLines(s, FALSE), year), term)]

(* build_schedule_112a: column 14 of each row is 6 less 13.                *)
CostCap(d) == Least(FmvOfSlice(d), d.price)
Balance112A(d) ==
  d.price - IF CappedAtFmv(d) THEN Most(d.cost, CostCap(d)) ELSE d.cost
Schedule112A(s, year) ==
  {l \in InYear(GainLines(s, FALSE), year) :
     Term(Slice(l)) = "long" /\ Slice(l).sec \in Eligible}

-----------------------------------------------------------------------------
(* Properties.                                                             *)

(* A holding is valued at the units its invested capital, day change and   *)
(* return are computed from: the netting of /summary and the FIFO of       *)
(* _holding_extras agree, for ledgers, snapshots and both.  The last point *)
(* of the chart is that value too, once no folio is known by its snapshot  *)
(* alone.                                                                  *)
AllLedgered ==
  \A sec \in Securities : Unledgered(store, ProjectedTransactions(store), sec) = {}
ValuedAsInvested ==
  /\ \A sec \in Securities :
       CurrentUnits(store, sec) = Most(0, HoldingExtras(store, sec, Horizon).units)
  /\ AllLedgered =>
       ValueSeries(store, Horizon)
         = SumOver(Securities, LAMBDA sec : Worth(CurrentUnits(store, sec), sec, Horizon))

(* The scheme page's running balance reaches the held quantity             *)
(* (_scheme_ledger), for splits and bonuses that leave no fraction, are    *)
(* recorded once, with no trade and no other action on their ex-date, and  *)
(* find no folio oversold: the page multiplies the balance of all folios,  *)
(* a bonus credits each folio that holds units.                            *)
WholeRows(s, sec) ==
  \A k \in DOMAIN s.rows : s.rows[k].sec = sec => s.rows[k].units % Share = 0
ActsPlainly(sec) ==
  /\ WholeRows(store, sec)
  /\ \A e \in {e \in store.log : sec \in {e.sec, e.into}} :
       /\ e.kind \in Scaling /\ e.num >= e.den /\ e.num % e.den = 0
       /\ \A other \in store.log :
            other.sec = sec /\ (other.ref = e.ref \/ other.day = e.day) => other = e
       /\ \A k \in DOMAIN store.rows : store.rows[k].sec = sec => store.rows[k].day # e.day
       /\ \A f \in Folios : HeldUnits(ProjectedTransactions(store), sec, f, e.day) >= 0
PageReachesHeld ==
  \A sec \in Securities :
    ActsPlainly(sec) => SchemeBalance(store, sec) = InvestorUnits(store, sec)

(* No folio the tax exports accept, forced or not, sells more than it      *)
(* holds: they run FIFO over it with nothing to catch an oversell.  Its    *)
(* trades are judged folio by folio, as they stand, so three are left out: *)
(* lots from before the years whose cost is trusted, which applying an     *)
(* action takes out of cost basis without their sales; offers of a         *)
(* security in several folios, which the whole ledger credits to none; and *)
(* trades renamed away from the actions that made up for their sales.      *)
Offered(secs) ==
  /\ \E e \in store.log : e.sec \in secs /\ e.kind \in {"rights", "buyback"}
  /\ ~\E f \in Folios : \A sec \in secs : NamedFolios(store.rows, sec) \subseteq {f}
Renamed(folio, sec) ==
  \E r \in here.renames : <<r[1], r[3]>> = <<folio, sec>> /\ \E e \in store.log : e.sec = r[2]
JudgedAsHeld(folio, secs) ==
  ~Offered(secs) /\ \A sec \in secs : Trusted(store, folio, sec) /\ ~Renamed(folio, sec)
TaxReadyNeverOversells ==
  \A force \in BOOLEAN : \A p \in ReadyFolios(store, force) :
    JudgedAsHeld(p[1], Linked(store.log, p[2], NoFolio)) => ~Disposed(store, p).short

(* The two tax reports agree: the long-term total of a year is the sum of  *)
(* column 14 of its Schedule 112A, grandfathered lots included.            *)
ReportsAgree ==
  \A year \in Years :
    CapitalGains(store, year)["long"]
      = SumOver(Schedule112A(store, year), LAMBDA l : Balance112A(Slice(l)))
=============================================================================
