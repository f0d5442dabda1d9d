--------------------------- MODULE ProjectedLedger ---------------------------
(***************************************************************************)
(* The ledger as consumers read it: the stored trades, never rewritten,    *)
(* with the log of applied corporate actions replayed over them            *)
(* (core/corporate_actions.py, core/fifo.py, services/projected_ledger.py).*)
(*                                                                         *)
(* A row is [sec, folio, day, type, units, value, ref, complete].  Units   *)
(* are counted in parts of a share, Share of them to the whole one.  value *)
(* is the row's total in rupees: the cost of what was bought, the gross    *)
(* price of what was sold.  A sale into a buyback has a type of its own.   *)
(* An event is [folio, sec, kind, day, num, den, exact, into, units,       *)
(* value, ref]: num/den is the multiplier or the swap ratio, exact says    *)
(* that the feed gave the bonus as a ratio of whole numbers.  Refs are     *)
(* numbers, NoRef for none.                                                *)
(***************************************************************************)
EXTENDS Integers, Sequences, FiniteSets, SequencesExt, Functions

CONSTANTS
  Share,      \* units of account in one share
  NoFolio,    \* the folio of rows that belong to none
  NoSecurity

ASSUME ShareAssumption == Share \in Nat \ {0}

NoRef == 0

(* The elements of a set, none before an earlier one (R has the pairs of   *)
(* an element and a later one); the rows at some places of a ledger; a     *)
(* ledger with rows of its own for the members of a set.                   *)
Sorted(S, R) ==
  LET order[T \in SUBSET S] ==
        LET first == CHOOSE x \in T : \A y \in T : <<y, x>> \notin R
        IN IF T = {} THEN <<>> ELSE <<first>> \o order[T \ {first}]
  IN order[S]
Ordered(S, before(_, _)) == Sorted(S, {p \in S \X S : before(p[1], p[2])})
Placed(rows, order) == [i \in DOMAIN order |-> rows[order[i]]]

Picked(rows, places) == Placed(rows, Ordered(places, <))
Keep(rows, test(_)) == Picked(rows, {k \in DOMAIN rows : test(rows[k])})
AppendEach(rows, row) == FoldSet(LAMBDA x, out : Append(out, row[x]), rows, DOMAIN row)

Inflows  == {"buy", "bonus", "transfer_in"}
Outflows == {"sell", "buyback", "transfer_out"}

Signed(t) == IF t.type \in Inflows THEN t.units
             ELSE IF t.type \in Outflows THEN 0 - t.units ELSE 0
NetUnits(ledger) == SumFunction([k \in DOMAIN ledger |-> Signed(ledger[k])])

RowsOf(ledger, sec, folio) ==
  Keep(ledger, LAMBDA t : t.sec = sec /\ folio \in {NoFolio, t.folio})
Before(ledger, day) == Keep(ledger, LAMBDA t : t.day < day)

(* The entitlement at an ex-date: what was held strictly before it.        *)
HeldUnits(ledger, sec, folio, day) == NetUnits(Before(RowsOf(ledger, sec, folio), day))

WholeShares(units) == (units \div Share) * Share

-----------------------------------------------------------------------------
(* Applying one event.  A ref that is already in the ledger says that the  *)
(* event is in the rows, and applying it again changes nothing.            *)
HasRef(ledger, ref) == \E k \in DOMAIN ledger : ledger[k].ref = ref

EngineRow(ev, sec, folio, type, units, value) ==
  [sec |-> sec, folio |-> folio, day |-> ev.day, type |-> type, units |-> units,
   value |-> value, ref |-> ev.ref, complete |-> TRUE]
Marker(ev, sec, type) == EngineRow(ev, sec, NoFolio, type, 0, 0)

ScaleAllRows(ledger, ev) ==                 \* mistaken: later trades too
  [k \in DOMAIN ledger |->
     IF ledger[k].sec = ev.sec
     THEN [ledger[k] EXCEPT !.units = (@ * ev.num) \div ev.den] ELSE ledger[k]]
ScaleRows(ledger, ev) ==
  [k \in DOMAIN ledger |->
     IF ledger[k].sec = ev.sec /\ ledger[k].day < ev.day
     THEN [ledger[k] EXCEPT !.units = (@ * ev.num) \div ev.den] ELSE ledger[k]]

ApplySplit(ledger, ev) ==
  IF HasRef(ledger, ev.ref) THEN ledger
  ELSE Append(ScaleRows(ledger, ev), Marker(ev, ev.sec, "split"))

(* The fraction of the scaled holding leaves by a sale without proceeds.   *)
WithoutFraction(scaled, ev) ==
  LET fraction == HeldUnits(scaled, ev.sec, NoFolio, ev.day) % Share
  IN IF fraction = 0 THEN scaled
     ELSE Append(scaled, EngineRow(ev, ev.sec, NoFolio, "sell", fraction, 0))
ApplyReverseSplit(ledger, ev) ==
  IF HasRef(ledger, ev.ref) THEN ledger ELSE WithoutFraction(ApplySplit(ledger, ev), ev)

(* Every folio that names the security is credited on its own.             *)
NamedFolios(ledger, sec) ==
  {ledger[k].folio : k \in {k \in DOMAIN ledger : ledger[k].sec = sec}} \ {NoFolio}
SoleFolio(ledger, sec) ==
  LET named == NamedFolios(ledger, sec)
  IN IF \E f \in named : named = {f} THEN CHOOSE f \in named : TRUE ELSE NoFolio

BonusUnits(held, ev) ==
  IF ev.exact THEN WholeShares((held * (ev.num - ev.den)) \div ev.den)
  ELSE (held * (ev.num - ev.den)) \div ev.den

ApplyBonus(ledger, ev) ==
  LET named == NamedFolios(ledger, ev.sec)
      credited == IF named = {} THEN {NoFolio} ELSE named
      due(f) == BonusUnits(HeldUnits(ledger, ev.sec, f, ev.day), ev)
      issued == {f \in credited : HeldUnits(ledger, ev.sec, f, ev.day) > 0 /\ due(f) > 0}
  IN IF HasRef(ledger, ev.ref) THEN ledger
     ELSE AppendEach(ledger, [f \in issued |-> EngineRow(ev, ev.sec, f, "bonus", due(f), 0)])

(* Lots of the merged-away security become lots of the acquirer: their     *)
(* dates and totals stay, a second time finds nothing left to convert.     *)
ApplyMerger(ledger, ev) ==
  LET converted == [k \in DOMAIN ledger |->
        IF ledger[k].sec = ev.sec
        THEN [ledger[k] EXCEPT !.sec = ev.into, !.units = (@ * ev.num) \div ev.den,
                               !.ref = IF @ = NoRef THEN ev.ref ELSE @]
        ELSE ledger[k]]
  IN IF \E k \in DOMAIN ledger : ledger[k].sec = ev.sec
     THEN Append(converted, Marker(ev, ev.into, "merger")) ELSE converted

ApplyOffer(ledger, ev, type) ==            \* rights are bought, buybacks sold
  Append(ledger, EngineRow(ev, ev.sec, SoleFolio(ledger, ev.sec), type, ev.units, ev.value))

(* Every rewrite but a demerger's leaves the ledger in trading order.      *)
TypeOrder == [shed |-> 0, split |-> 1, merger |-> 2, bonus |-> 3, transfer_in |-> 4,
              buy |-> 5, dividend |-> 6, sell |-> 7, buyback |-> 7, transfer_out |-> 8]
InTradingOrder(ledger) ==
  LET sooner(j, k) ==
        LET a == ledger[j]  b == ledger[k]
        IN \/ a.day < b.day
           \/ a.day = b.day /\ TypeOrder[a.type] < TypeOrder[b.type]
           \/ a.day = b.day /\ TypeOrder[a.type] = TypeOrder[b.type] /\ a.ref < b.ref
           \/ <<a.day, TypeOrder[a.type], a.ref>> = <<b.day, TypeOrder[b.type], b.ref>>
                /\ j < k
  IN Placed(ledger, Ordered(DOMAIN ledger, sooner))

Rewritten(ledger, ev) ==
  CASE ev.kind = "split"   -> IF ev.num < ev.den THEN ApplyReverseSplit(ledger, ev)
                              ELSE ApplySplit(ledger, ev)
    [] ev.kind = "merger"  -> ApplyMerger(ledger, ev)
    [] ev.kind = "bonus"   -> ApplyBonus(ledger, ev)
    [] ev.kind = "rights"  -> ApplyOffer(ledger, ev, "buy")
    [] ev.kind = "buyback" -> ApplyOffer(ledger, ev, "buyback")

ApplyEvent(ledger, ev) ==                  \* a demerger only moves costs, in FIFO
  IF ev.kind = "demerger" THEN ledger ELSE InTradingOrder(Rewritten(ledger, ev))

EventOrder == [split |-> 0, merger |-> 1, demerger |-> 2, bonus |-> 3,
               rights |-> 5, buyback |-> 6]
Earlier(a, b) == \/ a.day < b.day
                 \/ a.day = b.day /\ EventOrder[a.kind] < EventOrder[b.kind]
                 \/ a.day = b.day /\ a.kind = b.kind /\ a.ref < b.ref
InExDateOrder(events) == Ordered(events, Earlier)

Replay(raw, events) ==
  FoldLeft(ApplyEvent, raw, InExDateOrder(events))

-----------------------------------------------------------------------------
(* Same-day purchases and sales of one folio settle against each other and *)
(* never reach FIFO: what is left of a row is what its day did not offset. *)
DayTrades(raw, k, type) ==
  {j \in DOMAIN raw : /\ raw[j].sec = raw[k].sec /\ raw[j].folio = raw[k].folio
                      /\ raw[j].day = raw[k].day /\ raw[j].type = type}
UnitsAt(raw, places) == SumFunctionOnSet([j \in DOMAIN raw |-> raw[j].units], places)
Least(a, b) == IF a < b THEN a ELSE b
Most(a, b)  == IF a < b THEN b ELSE a
(* How much of the next `units` is taken when `pending` is, and `ahead` of *)
(* it are served first.                                                    *)
Taken(units, ahead, pending) == Least(units, Most(0, pending - ahead))

OffsetAt(raw, k) ==
  LET offset == Least(UnitsAt(raw, DayTrades(raw, k, "buy")),
                      UnitsAt(raw, DayTrades(raw, k, "sell")))
      ahead == UnitsAt(raw, {j \in DayTrades(raw, k, raw[k].type) : j < k})
  IN IF raw[k].type \in {"buy", "sell"} THEN Taken(raw[k].units, ahead, offset) ELSE 0

Trimmed(t, offset) ==
  IF offset = 0 THEN t
  ELSE [t EXCEPT !.units = @ - offset, !.value = (@ * (t.units - offset)) \div t.units]
NetIntraday(raw) ==
  LET left == {k \in DOMAIN raw : OffsetAt(raw, k) < raw[k].units \/ raw[k].units = 0}
  IN Picked([k \in DOMAIN raw |-> Trimmed(raw[k], OffsetAt(raw, k))], left)

-----------------------------------------------------------------------------
(* FIFO over one bucket, by date; rows of one day keep their places.  The  *)
(* costs a demerger moved away (rows of type "shed") come first on theirs. *)
ByDay(bucket) ==
  LET sooner(j, k) ==
        \/ bucket[j].day < bucket[k].day
        \/ bucket[j].day = bucket[k].day /\ j < k
  IN Placed(bucket, Ordered(DOMAIN bucket, sooner))

LotUnits(lots) == SumFunction([k \in DOMAIN lots |-> lots[k].units])
LotCost(lots)  == SumFunction([k \in DOMAIN lots |-> lots[k].cost])

Empty == [lots |-> <<>>, sold |-> <<>>, short |-> FALSE]

Buy(book, t) ==                            \* what was rounded away is no lot
  IF t.units = 0 THEN book
  ELSE [book EXCEPT !.lots = Append(@, [units |-> t.units, cost |-> t.value, day |-> t.day])]

TakenFrom(lots, k, units) == Taken(lots[k].units, LotUnits(SubSeq(lots, 1, k - 1)), units)
OldestLots(lots, units) == [k \in DOMAIN lots |-> TakenFrom(lots, k, units)]

Disposal(book, t, from) ==
  LET lots == book.lots
      cost(k) == (lots[k].cost * from[k]) \div lots[k].units
      rest == [k \in DOMAIN lots |-> [lots[k] EXCEPT !.units = @ - from[k],
                                                     !.cost = @ - cost(k)]]
      slice(k) == [acquired |-> lots[k].day, sold |-> t.day, units |-> from[k],
                   cost |-> cost(k), price |-> (t.value * from[k]) \div t.units,
                   sec |-> t.sec, ref |-> t.ref, buyback |-> t.type = "buyback"]
      used == Ordered({k \in DOMAIN lots : from[k] > 0}, <)
  IN [book EXCEPT !.lots = Keep(rest, LAMBDA lot : lot.units > 0),
                  !.sold = @ \o [i \in DOMAIN used |-> slice(used[i])]]
Sell(book, t) ==
  IF LotUnits(book.lots) < t.units THEN [book EXCEPT !.short = TRUE]
  ELSE Disposal(book, t, OldestLots(book.lots, t.units))

(* A demerger takes cost from the lots of an acquisition day still open.   *)
Shed(book, r) ==
  LET lots == book.lots
      open == Keep(lots, LAMBDA lot : lot.day = r.acquired)
      less(lot) == (r.value * lot.units) \div LotUnits(open)
  IN IF open = <<>> THEN book
     ELSE [book EXCEPT !.lots = [k \in DOMAIN lots |->
             IF lots[k].day = r.acquired
             THEN [lots[k] EXCEPT !.cost = @ - less(lots[k])] ELSE lots[k]]]

BookRow(book, t) ==
  CASE t.type \in Inflows  -> Buy(book, t)
    [] t.type \in Outflows -> IF book.short THEN book ELSE Sell(book, t)
    [] t.type = "shed"     -> Shed(book, t)
    [] OTHER               -> book

Fifo(bucket, reductions) == FoldLeft(BookRow, Empty, ByDay(reductions \o bucket))
=============================================================================
