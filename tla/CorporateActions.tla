--------------------------- MODULE CorporateActions ---------------------------
(***************************************************************************)
(* One investor's ledger and the log of the corporate actions applied to   *)
(* it (services/corporate_actions.py, projected_ledger.py, dividends.py,   *)
(* opening_lots.py, identity_remap.py, tasks/reconcile.py).  Trades are    *)
(* stored as imported; an action is one entry of the log, of one folio,    *)
(* replayed whenever the ledger is read.  Reconciliation compares what is  *)
(* read with the eCAS holding and offers the cached references that would  *)
(* close the gap.                                                          *)
(*                                                                         *)
(* Every request is one transaction and one step here.  `store` holds the  *)
(* tables: rows, log, holdings, blocks (PartialBlock) and integrity        *)
(* (SecurityIntegrityStatus, with the suggestion in its issues), and what  *)
(* all investors share: cached (CorporateActionReference) and synced.      *)
(***************************************************************************)
EXTENDS ProjectedLedger

CONSTANTS
  Folios, Securities,
  Worlds,        \* what may reach the investor, one world per behaviour:
                 \*   books       tradebooks, sequences of rows, imported once each
                 \*   references  what NSE and BSE publish
                 \*   anchors     eCAS lines [folio, sec, units]
                 \*   authored    events the user types in
                 \*   receipts    demerger receipts [folio, child, lots, day]
                 \*   renames     identity remaps <<folio, from, to>>
  ReliableSince, \* COST_BASIS_RELIABLE_SINCE
  Moods          \* model bound: acknowledgements and withdrawn receipts together

(* References are rows with an id; where both exchanges list an action, the*)
(* NSE row is stored first.  What the user types in is named by its kind,  *)
(* day and security; it, the lots of a receipt and a fraction paid out     *)
(* carry refs of a form of their own.                                      *)
SameAction(r, q) == r.day = q.day /\ r.num * q.den = q.num * r.den
LotRef(sec)    == 900       \* opening-lot:{folio}:{security}
SettleRef(sec) == 990       \* fractional-entitlement:{isin}
RefsOf(w) == {r.ref : r \in w.references}

ASSUME TablesAssumption ==
  /\ IsFiniteSet(Folios) /\ IsFiniteSet(Securities) /\ Moods \in Nat
  /\ NoFolio \notin Folios /\ NoSecurity \notin Securities
(* A trade of a tradebook; what an event of the log is made of.            *)
Trades == [sec : Securities, folio : Folios, day : Nat, type : Inflows \cup Outflows,
           units : Nat, value : Nat, ref : {NoRef}, complete : BOOLEAN]
IsEvent(e) ==
  /\ e.folio \in Folios /\ e.sec \in Securities /\ e.into \in Securities \cup {NoSecurity}
  /\ e.kind \in DOMAIN EventOrder /\ e.exact \in BOOLEAN
  /\ {e.day, e.num, e.den, e.units, e.value, e.ref} \subseteq Nat /\ e.den # 0
  /\ IsFiniteSet(e.sheds) /\ \A r \in e.sheds : {r.day, r.value} \subseteq Nat

ASSUME WorldAssumption ==
  \A i \in DOMAIN Worlds :
    LET w == Worlds[i]
    IN /\ w.books \subseteq Seq(Trades)
       /\ w.anchors \subseteq [folio : Folios, sec : Securities, units : Nat]
       /\ \A e \in w.authored : IsEvent(e) /\ e.ref \notin RefsOf(w)
       /\ \A rc \in w.receipts :
            /\ rc.folio \in Folios /\ rc.child \in Securities /\ rc.day \in Nat
            /\ IsFiniteSet(rc.lots) /\ \A a \in rc.lots : {a.day, a.units, a.value} \subseteq Nat
       /\ w.renames \subseteq Folios \X Securities \X Securities
       /\ IsFiniteSet(w.books) /\ IsFiniteSet(w.references)
       /\ IsFiniteSet(w.authored) /\ IsFiniteSet(w.receipts)
ASSUME RefsAssumption ==
  \A i \in DOMAIN Worlds :
    LET w == Worlds[i]
        kept == {NoRef} \cup UNION {{LotRef(sec), SettleRef(sec)} : sec \in Securities}
    IN /\ kept \cap (RefsOf(w) \cup {e.ref : e \in w.authored}) = {}
       /\ \A a, b \in w.authored : a.ref = b.ref =>
            <<a.kind, a.day, a.sec>> = <<b.kind, b.day, b.sec>>
ASSUME ReferencesAssumption ==
  \A i \in DOMAIN Worlds : \A r \in Worlds[i].references :
    /\ r.sec \in Securities /\ r.exchange \in {"NSE", "BSE"}
    /\ {r.ref, r.day, r.num, r.den, r.perShare} \subseteq Nat /\ r.den # 0
    /\ \A q \in Worlds[i].references :
         /\ r.ref = q.ref => r = q
         /\ (r.exchange = "NSE" /\ q.exchange = "BSE" /\ r.sec = q.sec /\ SameAction(r, q))
              => r.ref < q.ref

VARIABLES store, imported, moods, world
vars == <<store, imported, moods, world>>

here == Worlds[world]
NotHeld == 0 - 1
NoIssue == [refs |-> {}, partial |-> FALSE]
NoRow   == [status |-> "none", offer |-> NoIssue]
Scaling == {"split", "bonus"}
Pairs   == Folios \X Securities

Statuses == {"none", "full_history", "reconciled", "snapshot_only", "mismatch",
             "user_acknowledged"}

Init ==
  /\ store = [rows |-> <<>>, log |-> {}, blocks |-> {},
              holdings |-> [p \in Pairs |-> NotHeld],
              integrity |-> [p \in Pairs |-> NoRow],
              cached |-> {}, synced |-> {}]
  /\ imported = {} /\ moods = 0 /\ world \in DOMAIN Worlds

RowsIn(s, folio, sec) == Keep(s.rows, LAMBDA t : t.folio = folio /\ t.sec = sec)

-----------------------------------------------------------------------------
(* The projection.  One security's ledger replays the events of every      *)
(* security linked to it by one of its own: a merger's lots arrive with    *)
(* them.                                                                   *)
InScope(e, folio) == folio \in {NoFolio, e.folio}
Touching(log, secs, folio) ==
  {e \in log : InScope(e, folio) /\ (e.sec \in secs \/ e.into \in secs)}
OnlyOwn(log, sec, folio) == {sec}           \* mistaken: mergers forgotten
Linked(log, sec, folio) ==
  {sec} \cup ((UNION {{e.sec, e.into} : e \in Touching(log, {sec}, folio)}) \ {NoSecurity})

ComputeLedger(s, sec, folio, withIncomplete) ==
  LET secs == Linked(s.log, sec, folio)
      raw  == Keep(s.rows, LAMBDA t : /\ t.sec \in secs
                                      /\ folio \in {NoFolio, t.folio}
                                      /\ (t.complete \/ withIncomplete))
  IN Keep(Replay(NetIntraday(raw), Touching(s.log, secs, folio)), LAMBDA t : t.sec = sec)

ProjectedTransactions(s) ==
  Replay(NetIntraday(Keep(s.rows, LAMBDA t : t.complete)), s.log)

Reductions(s, sec) ==
  LET shed(e, r) == [type |-> "shed", day |-> e.day, acquired |-> r.day, value |-> r.value]
      all == UNION {{shed(e, r) : r \in e.sheds} :
                      e \in {e \in s.log : e.kind = "demerger" /\ e.sec = sec}}
  IN Ordered(all, LAMBDA a, b : \/ a.day < b.day
                                \/ (a.day = b.day /\ a.acquired < b.acquired))

-----------------------------------------------------------------------------
(* What the cached references could explain.                               *)
CachedFor(s, sec) == {r \in s.cached : r.sec = sec}
Applicable(s, sec) == {r \in CachedFor(s, sec) : r.kind \in Scaling /\ ~r.review}

AllScaling(s, sec) == Applicable(s, sec)          \* mistaken: NSE and BSE both
DedupeScaling(s, sec) ==
  {r \in Applicable(s, sec) : \A q \in Applicable(s, sec) : SameAction(r, q) => r.ref <= q.ref}

EventOf(r, folio) ==
  [folio |-> folio, sec |-> r.sec, kind |-> r.kind, day |-> r.day, num |-> r.num,
   den |-> r.den, exact |-> r.kind = "bonus", into |-> NoSecurity, units |-> 0,
   value |-> 0, ref |-> r.ref, sheds |-> {}]

AppliedRefs(s, sec) == {e.ref : e \in {e \in s.log : e.sec = sec}}

(* The outstanding references in ex-date order; those that move the        *)
(* holding are told by the ledger they find and the one they leave.        *)
ReplayCached(s, sec, folio, base) ==
  LET due  == {r \in DedupeScaling(s, sec) : r.ref \notin AppliedRefs(s, sec)}
      before(a, b) == a.day < b.day \/ (a.day = b.day /\ a.ref < b.ref)
      apply(ledger, r) == ApplyEvent(ledger, EventOf(r, folio))
      after(steps) == FoldLeft(apply, base, Ordered(steps, before))
      moves(r) ==
        LET found == {q \in due : before(q, r)}
        IN HeldUnits(after(found), sec, NoFolio, r.day)
             # HeldUnits(after(found \cup {r}), sec, NoFolio, r.day + 1)
  IN [ledger |-> after(due), tried |-> {r.ref : r \in due},
      moved |-> {r.ref : r \in {r \in due : moves(r)}}]

Offer(refs, partial) == [refs |-> refs, partial |-> partial]

(* With nothing left to replay, a gap that is a whole multiple of the      *)
(* ledger is put down to the latest action of that multiple, applied or    *)
(* not; of one day's rows to the first, which is the one DedupeScaling has.*)
ByRatio(s, sec, net, anchor) ==
  LET fits == {r \in DedupeScaling(s, sec) :
                 net > 0 /\ anchor * r.den = net * r.num /\ r.num % r.den = 0}
  IN Offer({r.ref : r \in {r \in fits : \A q \in fits : q.day <= r.day}}, FALSE)

(* What a replay explains of the gap between ledger and holding.           *)
Explained(s, sec, gap, base, replay) ==
  LET result == NetUnits(replay.ledger)
      short  == gap.partial \/ (gap.known /\ gap.net < 0)
      above  == gap.known /\ gap.anchor > gap.net
      probed == base # <<>> /\ replay.tried # {} /\ (short \/ above)
  IN CASE probed /\ result = gap.anchor ->
            Offer(IF replay.moved = {} THEN replay.tried ELSE replay.moved, FALSE)
       [] probed /\ short /\ result >= 0 /\ replay.moved # {} /\ result # gap.anchor ->
            Offer(replay.moved, TRUE)
       [] ~probed /\ ~short /\ above -> ByRatio(s, sec, gap.net, gap.anchor)
       [] OTHER -> NoIssue
Probe(s, sec, folio, gap, base) ==
  Explained(s, sec, gap, base, ReplayCached(s, sec, folio, base))
OrElse(whole, rows) == IF whole = <<>> THEN rows ELSE whole

Detect(s, sec, folio, gap) ==
  IF gap.anchor = NotHeld \/ (gap.known /\ gap.net = gap.anchor) THEN NoIssue
  ELSE Probe(s, sec, folio, gap,
             OrElse(ComputeLedger(s, sec, folio, TRUE), RowsIn(s, folio, sec)))

-----------------------------------------------------------------------------
(* Reconciling one folio of a security, and all of them.                   *)
StickyAck(old) == old \in {"user_acknowledged", "reconciled"}       \* mistaken
KeepsAck(old)  == old = "user_acknowledged"

GapOf(s, sec, folio, txns) ==
  LET mine == RowsIn(s, folio, sec) # <<>>
      held == s.holdings[folio, sec]
  IN [known |-> txns # <<>>, net |-> NetUnits(txns), mine |-> mine,
      partial |-> <<folio, sec>> \in s.blocks,
      anchor |-> IF ~mine /\ held = 0 THEN NotHeld ELSE held]
Verdict(gap, acked) ==
  IF ~gap.known THEN IF gap.anchor # NotHeld \/ (gap.partial /\ gap.mine)
                     THEN "snapshot_only" ELSE "none"
  ELSE IF gap.anchor = NotHeld THEN "full_history"
  ELSE IF gap.net = gap.anchor THEN "reconciled"
  ELSE IF acked THEN "user_acknowledged" ELSE "mismatch"

RowFor(s, sec, folio, gap, acked) ==
  IF Verdict(gap, acked) = "none" THEN NoRow
  ELSE [status |-> Verdict(gap, acked), offer |-> Detect(s, sec, folio, gap)]
ReconciledRow(s, sec, folio, acknowledge, clear) ==
  RowFor(s, sec, folio, GapOf(s, sec, folio, ComputeLedger(s, sec, folio, FALSE)),
         ~clear /\ (KeepsAck(s.integrity[folio, sec].status) \/ acknowledge))

ReconcileFolio(s, sec, folio, acknowledge, clear) ==
  [s EXCEPT !.integrity[<<folio, sec>>] = ReconciledRow(s, sec, folio, acknowledge, clear)]

(* Dividends: one cash row per folio and reference, for the units held at  *)
(* its ex-date; repriced when those change, dropped when there are none.   *)
Schedule(s, sec) == {r \in CachedFor(s, sec) : r.kind = "dividend" /\ ~r.review}

Attributed(s, sec, folio, ledger) ==
  LET held(r) == HeldUnits(ledger, sec, folio, r.day)
      due     == {r \in Schedule(s, sec) : held(r) > 0}
      cash(r) == (held(r) * r.perShare) \div Share
      isMine(t)  == t.type = "dividend" /\ t.sec = sec /\ t.folio = folio
      refOf(t)   == CHOOSE r \in Schedule(s, sec) : r.ref = t.ref
      stays   == Keep(s.rows, LAMBDA t : isMine(t) => \E r \in due : r.ref = t.ref)
      repriced == [k \in DOMAIN stays |->
        IF isMine(stays[k]) THEN [stays[k] EXCEPT !.value = cash(refOf(stays[k]))]
        ELSE stays[k]]
      missing == {r \in due : ~\E k \in DOMAIN stays : isMine(stays[k]) /\ stays[k].ref = r.ref}
      row(r)  == [sec |-> sec, folio |-> folio, day |-> r.day, type |-> "dividend",
                  units |-> 0, value |-> cash(r), ref |-> r.ref, complete |-> TRUE]
  IN [s EXCEPT !.rows = AppendEach(repriced, [r \in missing |-> row(r)])]
AttributeDividends(s, sec, folio) ==
  IF \/ RowsIn(s, folio, sec) = <<>> \/ Schedule(s, sec) = {}
     \/ s.integrity[folio, sec].status = "snapshot_only" THEN s
  ELSE Attributed(s, sec, folio, ComputeLedger(s, sec, folio, FALSE))

Holds(s, sec, folio) == RowsIn(s, folio, sec) # <<>> \/ s.holdings[folio, sec] # NotHeld

StaleRow(s, p) == s.integrity[p]             \* mistaken
EmptyRow(s, p) == NoRow
ReconcileSecurity(s, sec) ==
  LET rows == [p \in Pairs |->
        IF p[2] # sec THEN s.integrity[p]
        ELSE IF Holds(s, sec, p[1]) THEN ReconciledRow(s, sec, p[1], FALSE, FALSE)
        ELSE EmptyRow(s, p)]
  IN FoldSet(LAMBDA f, acc : AttributeDividends(acc, sec, f),
             [s EXCEPT !.integrity = rows], Folios)
Reconciled(s, secs) == FoldSet(LAMBDA sec, acc : ReconcileSecurity(acc, sec), s, secs)

-----------------------------------------------------------------------------
(* Cost basis is complete when the folio's own trades, with the events on  *)
(* this very security replayed over them, never oversell.                  *)
RawSolvent(s, sec, folio) == ~Fifo(RowsIn(s, folio, sec), <<>>).short     \* mistaken
NetSolvent(s, sec, folio) == NetUnits(RowsIn(s, folio, sec)) >= 0         \* mistaken
Solvent(s, sec, folio) ==
  ~Fifo(Replay(RowsIn(s, folio, sec), {e \in s.log : e.sec = sec}), <<>>).short

Completeness(s, sec) ==
  LET named == {f \in Folios : RowsIn(s, f, sec) # <<>>}
      good  == {f \in named : Solvent(s, sec, f)}
  IN [s EXCEPT
       !.rows = [k \in DOMAIN @ |->
                   IF s.rows[k].sec = sec
                   THEN [s.rows[k] EXCEPT !.complete = s.rows[k].folio \in good]
                   ELSE s.rows[k]],
       !.blocks = (@ \ {<<f, sec>> : f \in good}) \cup {<<f, sec>> : f \in named \ good}]

FlagPre2016(s, folio, secs) ==
  [s EXCEPT !.rows = [k \in DOMAIN @ |->
     IF /\ @[k].folio = folio /\ @[k].sec \in secs
        /\ @[k].type \in Inflows /\ @[k].day < ReliableSince
     THEN [@[k] EXCEPT !.complete = FALSE] ELSE @[k]]]

(* A fraction the registrar paid out in cash leaves at its own cost.       *)
LastDay(ledger) ==
  CHOOSE d \in {ledger[k].day : k \in DOMAIN ledger} :
    \A k \in DOMAIN ledger : ledger[k].day <= d

NewestLot(lots) == lots[Len(lots)]           \* mistaken
OldestLot(lots) == lots[1]

AnyShortfall(excess) == excess < Share       \* mistaken
SubShare(excess) == excess > 0 /\ excess < Share

LeftIn(s, sec, folio, ledger) ==
  LET anchor == s.holdings[folio, sec]
      excess == NetUnits(ledger) - anchor
      due    == /\ anchor # NotHeld /\ anchor % Share = 0
                /\ ledger # <<>> /\ SubShare(excess)
                /\ ~HasRef(RowsIn(s, folio, sec), SettleRef(sec))
      book   == Fifo(RowsOf(ledger, sec, folio), <<>>)
  IN [raises |-> due /\ book.short, due |-> due /\ book.lots # <<>>,
      ledger |-> ledger, units |-> excess, lots |-> book.lots]
Remainder(s, sec, folio) == LeftIn(s, sec, folio, ComputeLedger(s, sec, folio, FALSE))

PaidOut(s, sec, folio, left) ==
  LET lot  == OldestLot(left.lots)
      row  == [sec |-> sec, folio |-> folio, day |-> LastDay(left.ledger), type |-> "sell",
               units |-> left.units, value |-> (left.units * lot.cost) \div lot.units,
               ref |-> SettleRef(sec), complete |-> TRUE]
  IN IF left.due THEN [s EXCEPT !.rows = Append(@, row)] ELSE s
Settle(s, sec, folio) == PaidOut(s, sec, folio, Remainder(s, sec, folio))

SecuritiesOf(events) == (UNION {{e.sec, e.into} : e \in events}) \ {NoSecurity}

Unapplied(s, folio, events) ==
  {e \in events : ~\E l \in s.log : l.folio = folio /\ l.ref = e.ref}
Recorded(s, events) == [s EXCEPT !.log = @ \cup events]

SettleAll(s, secs, folio) ==
  FoldSet(LAMBDA sec, acc : ReconcileSecurity(Settle(acc, sec, folio), sec), s, secs)

(* A ledger that FIFO cannot follow raises, and the request leaves nothing.*)
ApplyActions(s, folio, events) ==
  LET fresh    == Unapplied(s, folio, events)
      affected == SecuritiesOf(fresh)
      logged   == FoldSet(LAMBDA sec, acc : Completeness(acc, sec), Recorded(s, fresh), affected)
      flagged  == FlagPre2016(logged, folio, affected)
  IN IF \E sec \in affected : Remainder(flagged, sec, folio).raises THEN s
     ELSE SettleAll(flagged, affected, folio)

-----------------------------------------------------------------------------
(* A demerger receipt looks for the parent whose open lots have the same   *)
(* dates, in one proportion.                                               *)
OpenUnits(s, sec, folio, day) ==
  LotUnits(Keep(Fifo(ComputeLedger(s, sec, folio, FALSE), <<>>).lots,
                LAMBDA lot : lot.day = day))

Fits(s, rc, parent) ==
  LET open(lot) == OpenUnits(s, parent, rc.folio, lot.day)
  IN /\ parent # rc.child
     /\ RowsIn(s, rc.folio, parent) # <<>>
     /\ \A a \in rc.lots : open(a) > 0
     /\ \A a, b \in rc.lots : a.units * open(b) = b.units * open(a)

ParentsOf(s, rc) == {p \in Securities : Fits(s, rc, p)}

LinkOf(rc, parent) ==
  [folio |-> rc.folio, sec |-> parent, kind |-> "demerger", day |-> rc.day, num |-> 1,
   den |-> 1, exact |-> FALSE, into |-> rc.child, units |-> 0, value |-> 0,
   ref |-> LotRef(rc.child), sheds |-> {[day |-> a.day, value |-> a.value] : a \in rc.lots}]

LotRows(rc) ==
  LET row(a) == [sec |-> rc.child, folio |-> rc.folio, day |-> a.day,
                 type |-> "transfer_in", units |-> a.units, value |-> a.value,
                 ref |-> LotRef(rc.child), complete |-> TRUE]
      lots == Ordered(rc.lots, LAMBDA a, b : a.day < b.day)
  IN [i \in DOMAIN lots |-> row(lots[i])]

ReconcileAll(s, secs, folio) ==
  FoldSet(LAMBDA sec, acc : ReconcileFolio(acc, sec, folio, FALSE, FALSE), s, secs)

(* The parent is linked when it is the only one that fits.                 *)
LinkedTo(s, rc, parents) ==
  LET sole   == {p \in parents : parents = {p}}
      linked == Recorded(s, {LinkOf(rc, p) : p \in sole})
  IN ReconcileAll(Completeness(linked, rc.child), sole \cup {rc.child}, rc.folio)
WithLots(s, rc) == [s EXCEPT !.rows = @ \o LotRows(rc)]
Received(s, rc) == LinkedTo(WithLots(s, rc), rc, ParentsOf(WithLots(s, rc), rc))

LeaveLinked(s, rc) == s                        \* mistaken
Unlinked(s, rc) ==
  [s EXCEPT !.log = {e \in @ : ~(e.kind = "demerger" /\ e.into = rc.child)}]

Withdrawn(s, rc) ==
  LET links == s.log \ Unlinked(s, rc).log
      bare  == [s EXCEPT !.rows = Keep(@, LAMBDA t : ~(/\ t.folio = rc.folio
                                                       /\ t.sec = rc.child
                                                       /\ t.ref = LotRef(rc.child)))]
  IN ReconcileAll(Completeness(Unlinked(bare, rc), rc.child),
                  {rc.child} \cup {e.sec : e \in links}, rc.folio)

(* A tradebook's own purchases replace a placeholder lot, but never the    *)
(* lots of a demerger.                                                     *)
Superseded(s, sec) ==
  LET bought == {f \in Folios : \E k \in DOMAIN s.rows :
                   /\ s.rows[k].folio = f /\ s.rows[k].sec = sec
                   /\ s.rows[k].ref = NoRef /\ s.rows[k].type \in {"buy", "transfer_in"}}
  IN IF \E e \in s.log : e.kind = "demerger" /\ e.into = sec THEN s
     ELSE [s EXCEPT !.rows = Keep(@, LAMBDA t : ~(/\ t.sec = sec /\ t.folio \in bought
                                                  /\ t.ref = LotRef(sec)))]

-----------------------------------------------------------------------------
Listed(s, folio, sec) == s.integrity[folio, sec].status # "none"
Mismatched == {sec \in Securities : \E f \in Folios : store.integrity[f, sec].status = "mismatch"}

ImportBook(b) ==
  LET secs == {b[k].sec : k \in DOMAIN b}
      taken == [store EXCEPT !.rows = @ \o b]
      tidy == FoldSet(LAMBDA sec, acc : Completeness(Superseded(acc, sec), sec), taken, secs)
  IN /\ b \notin imported
     /\ imported' = imported \cup {b}
     /\ store' = Reconciled(tidy, secs)
     /\ UNCHANGED <<moods, world>>

ObserveHolding(a) ==
  /\ store.holdings[a.folio, a.sec] # a.units
  /\ store' = ReconcileSecurity([store EXCEPT !.holdings[<<a.folio, a.sec>>] = a.units], a.sec)
  /\ UNCHANGED <<imported, moods, world>>

(* NSE answers first, BSE adds to it; with no answer nothing is stamped.   *)
Answers == {{}, {"NSE"}, {"NSE", "BSE"}}
Fetched(s, secs, answer) ==
  [s EXCEPT !.cached = @ \cup {r \in here.references : r.sec \in secs /\ r.exchange \in answer},
            !.synced = IF answer = {} THEN @ ELSE @ \cup secs]

(* The endpoint reconciles what it has just fetched, the scheduler's tick  *)
(* does not.                                                               *)
RefreshNow(answer) ==
  /\ Mismatched # {}
  /\ store' = Reconciled(Fetched(store, Mismatched, answer), Mismatched)
  /\ UNCHANGED <<imported, moods, world>>

NeverSynced == {sec \in Securities \ store.synced :
                  \E k \in DOMAIN store.rows : store.rows[k].sec = sec}
RefreshTick(answer) ==
  /\ Mismatched \cup NeverSynced # {}
  /\ store' = Fetched(store, Mismatched \cup NeverSynced, answer)
  /\ UNCHANGED <<imported, moods, world>>

ApplySuggested(folio, sec) ==
  LET refs == store.integrity[folio, sec].offer.refs
  IN /\ refs # {}
     /\ store' = ApplyActions(store, folio, {EventOf(r, folio) : r \in {r \in store.cached : r.ref \in refs}})
     /\ UNCHANGED <<imported, moods, world>>

ApplyManual(ev) ==
  /\ Listed(store, ev.folio, ev.sec)
  /\ Unapplied(store, ev.folio, {ev}) # {}
  /\ store' = ApplyActions(store, ev.folio, {ev})
  /\ UNCHANGED <<imported, moods, world>>

RecordReceipt(rc) ==
  /\ Listed(store, rc.folio, rc.child)
  /\ ~HasRef(RowsIn(store, rc.folio, rc.child), LotRef(rc.child))
  /\ store' = Received(store, rc)
  /\ UNCHANGED <<imported, moods, world>>

RemoveReceipt(rc) ==
  /\ moods < Moods
  /\ HasRef(RowsIn(store, rc.folio, rc.child), LotRef(rc.child))
  /\ store' = Withdrawn(store, rc)
  /\ moods' = moods + 1
  /\ UNCHANGED <<imported, world>>

Remap(folio, from, to) ==
  LET moved == [store EXCEPT
        !.rows = [k \in DOMAIN @ |-> IF @[k].folio = folio /\ @[k].sec = from
                                     THEN [@[k] EXCEPT !.sec = to] ELSE @[k]],
        !.holdings[<<folio, to>>] = store.holdings[folio, from],
        !.holdings[<<folio, from>>] = NotHeld]
  IN /\ Listed(store, folio, from)
     /\ store.holdings[folio, to] = NotHeld
     /\ store' = ReconcileSecurity(ReconcileSecurity(moved, from), to)
     /\ UNCHANGED <<imported, moods, world>>

Acknowledge(folio, sec) ==
  /\ moods < Moods
  /\ store.integrity[folio, sec].status = "mismatch"
  /\ store' = ReconcileFolio(store, sec, folio, TRUE, FALSE)
  /\ moods' = moods + 1
  /\ UNCHANGED <<imported, world>>

Unacknowledge(folio, sec) ==
  /\ moods < Moods
  /\ Listed(store, folio, sec)
  /\ store' = ReconcileFolio(store, sec, folio, FALSE, TRUE)
  /\ moods' = moods + 1
  /\ UNCHANGED <<imported, world>>

Recompute ==
  /\ store' = Reconciled(store, Securities)
  /\ UNCHANGED <<imported, moods, world>>

Next ==
  \/ \E b \in here.books : ImportBook(b)
  \/ \E a \in here.anchors : ObserveHolding(a)
  \/ \E answer \in Answers : RefreshNow(answer)
  \/ \E answer \in Answers : RefreshTick(answer)
  \/ \E p \in Pairs : ApplySuggested(p[1], p[2])
  \/ \E ev \in here.authored : ApplyManual(ev)
  \/ \E rc \in here.receipts : RecordReceipt(rc)
  \/ \E rc \in here.receipts : RemoveReceipt(rc)
  \/ \E r \in here.renames : Remap(r[1], r[2], r[3])
  \/ \E p \in Pairs : Acknowledge(p[1], p[2])
  \/ \E p \in Pairs : Unacknowledge(p[1], p[2])
  \/ Recompute

Spec == Init /\ [][Next]_vars

-----------------------------------------------------------------------------
(* Properties.                                                             *)

Days == (UNION {{b[k].day : k \in DOMAIN b} : b \in here.books})
        \cup {e.day : e \in here.references \cup here.authored \cup here.receipts}
        \cup (UNION {{a.day : a \in rc.lots} : rc \in here.receipts})
Horizon == CHOOSE d \in Days : \A e \in Days : e <= d

TablesOK ==
  /\ imported \subseteq here.books /\ moods \in 0 .. Moods
  /\ store.cached \subseteq here.references /\ store.synced \subseteq Securities
  /\ store.blocks \subseteq Pairs
  /\ \A p \in Pairs : /\ store.integrity[p].status \in Statuses
                       /\ store.integrity[p].offer.refs \subseteq {r.ref : r \in store.cached}
TypeOK ==
  /\ TablesOK
  /\ \A k \in DOMAIN store.rows : /\ store.rows[k].units \in Nat
                                  /\ store.rows[k].value \in Nat

Merged(sec) == \E e \in store.log : e.kind = "merger" /\ sec \in {e.sec, e.into}

(* What a holder sees from day to day: on an ex-date the event acts on     *)
(* what was held the day before, then the day's trades happen.             *)
EventsOn(folio, sec, day) ==
  InExDateOrder({e \in store.log : e.folio = folio /\ e.sec = sec /\ e.day = day})
Acted(held, e) ==
  CASE e.kind = "split" -> IF e.num < e.den THEN WholeShares((held * e.num) \div e.den)
                           ELSE (held * e.num) \div e.den
    [] e.kind = "bonus" -> IF held > 0 THEN held + BonusUnits(held, e) ELSE held
    [] e.kind = "rights"  -> held + e.units
    [] e.kind = "buyback" -> held - e.units
    [] OTHER              -> held
TradedOn(folio, sec, day) ==
  NetUnits(Keep(RowsIn(store, folio, sec), LAMBDA t : t.day = day))
DayWalk(folio, sec) ==
  LET held[d \in 0 .. Horizon] ==
        FoldLeft(Acted, IF d = 0 THEN 0 ELSE held[d - 1], EventsOn(folio, sec, d))
          + TradedOn(folio, sec, d)
  IN held

(* The projection of a folio, which rewrites the trades before each ex-    *)
(* date, ends at what the holder sees by living through the days one by    *)
(* one (securities no merger joined): apply_corporate_action_events.       *)
ReplayIsDayWalk ==
  \A p \in Pairs :
    ~Merged(p[2]) => NetUnits(ComputeLedger(store, p[2], p[1], TRUE)) = DayWalk(p[1], p[2])[Horizon]

(* However many exchanges report a split or a bonus, and in whatever order *)
(* their rows arrive, suggestions enter it into a folio's log once.        *)
ActionScalesOnce ==
  \A a, b \in store.log :
    /\ a.folio = b.folio /\ a.sec = b.sec /\ SameAction(a, b)
    /\ {a.ref, b.ref} \subseteq {r.ref : r \in here.references}
    => a = b

(* The costs paid are neither lost nor made by replaying splits, bonuses,  *)
(* mergers and demergers: open lots and disposals carry all of them.       *)
Buckets(ledger) == {<<ledger[k].folio, ledger[k].sec>> : k \in DOMAIN ledger}
BookOf(s, ledger, b) ==
  Fifo(Keep(ledger, LAMBDA t : <<t.folio, t.sec>> = b), Reductions(s, b[2]))
CarriedCost(book) == LotCost(book.lots) + LotCost(book.sold)
PaidFor(s, t) ==
  t.type \in Inflows /\ ~\E e \in s.log : e.kind = "demerger" /\ e.into = t.sec /\ e.ref = t.ref
CostIsKept ==
  LET ledger == ProjectedTransactions(store)
      books  == [b \in Buckets(ledger) |-> BookOf(store, ledger, b)]
      raw    == NetIntraday(Keep(store.rows, LAMBDA t : t.complete))
  IN (\A b \in DOMAIN books : ~books[b].short) =>
       SumFunction([b \in DOMAIN books |-> CarriedCost(books[b])])
         = LotCost([k \in DOMAIN raw |-> [cost |-> IF PaidFor(store, raw[k]) THEN raw[k].value ELSE 0]])
           + SumFunction([e \in {e \in store.log : e.kind = "rights"} |-> e.value])

(* Reading one security and reading the whole ledger give the same units,  *)
(* a merger's lots included: compute_ledger and projected_transactions,    *)
(* as far as mergers are followed (one hop).                               *)
InvestorUnits(s, sec) ==
  NetUnits(Keep(ProjectedTransactions(s), LAMBDA t : t.sec = sec))
Chained(sec) ==
  \E e, g \in store.log : /\ e.kind = "merger" /\ g.kind = "merger"
                          /\ e.into = sec /\ g.into = e.sec
ViewsAgree ==
  \A sec \in Securities : Chained(sec) \/
    NetUnits(ComputeLedger(store, sec, NoFolio, FALSE)) = InvestorUnits(store, sec)

(* A ref of the user's own is a kind, a day and a security.  That two      *)
(* folios which enter one action enter it with the same ratio and amounts  *)
(* is what the proof of ViewsAgree takes for granted: without it, which of *)
(* the two a merged holding meets first is left to the database.           *)
SameTerms(a, b) ==
  /\ a.sec = b.sec /\ a.kind = b.kind /\ a.day = b.day /\ a.num = b.num /\ a.den = b.den
  /\ a.exact = b.exact /\ a.into = b.into /\ a.units = b.units /\ a.value = b.value
  /\ a.ref = b.ref
OneTerms ==
  \A i \in DOMAIN Worlds : \A a, b \in Worlds[i].authored : a.ref = b.ref => SameTerms(a, b)

(* Applying a suggestion that claims to explain the gap closes it: the     *)
(* folio reconciles to the eCAS holding, unless its lots predate the years *)
(* whose cost is trusted, or the offer repeats what another folio applied. *)
Trusted(s, folio, sec) ==
  \A k \in DOMAIN s.rows :
    s.rows[k].folio = folio /\ s.rows[k].sec = sec => s.rows[k].day >= ReliableSince
SuggestionCloses ==
  [][\A p \in Pairs :
       LET offer == store.integrity[p].offer
           new   == store'.log \ store.log
       IN (/\ new # {} /\ \A e \in new : e.folio = p[1] /\ e.sec = p[2]
           /\ {e.ref : e \in new} = offer.refs /\ ~offer.partial
           /\ offer.refs \cap AppliedRefs(store, p[2]) = {}
           /\ Trusted(store, p[1], p[2]))
          => store'.integrity[p].status = "reconciled"]_vars

(* A sub-share remainder leaves once, at its own cost, and only to make    *)
(* the ledger whole: no gain is realised on it.  One that spans two lots   *)
(* is priced by the older (services/corporate_actions.py:174).             *)
Settlements(s) == {k \in DOMAIN s.rows : s.rows[k].ref = SettleRef(s.rows[k].sec)}
SettledFreely(s, t) ==
  LET ledger == ComputeLedger(s, t.sec, t.folio, FALSE)
      slices == Keep(Fifo(ledger, <<>>).sold, LAMBDA x : x.ref = t.ref)
  IN /\ NetUnits(ledger) = s.holdings[t.folio, t.sec]
     /\ Len(slices) > 1 \/ LotCost(slices) = t.value
FractionLeavesFreely ==
  [][\A k \in Settlements(store') :
       k \in DOMAIN store.rows \/ SettledFreely(store', store'.rows[k])]_vars

(* A folio is acknowledged by the user only: a gap that closed and opened  *)
(* again, or one that appears later, asks again.                           *)
OnlyTheUserAcknowledges ==
  [][\A p \in Pairs :
       /\ store'.integrity[p].status = "user_acknowledged"
       /\ store.integrity[p].status # "user_acknowledged"
       => Acknowledge(p[1], p[2])]_vars

(* The status on record is the one a recompute would give now: whatever    *)
(* changes a folio reconciles it in the same request (securities no merger *)
(* joined).  Two folios are left out: one whose last cost basis was the    *)
(* dividends that its reconciliation then dropped, and one whose           *)
(* completeness another folio's receipt judges anew (opening_lots.py).     *)
Drained(p) ==
  Schedule(store, p[2]) # {} /\ ComputeLedger(store, p[2], p[1], FALSE) = <<>>
Rejudged(p) == \E rc \in here.receipts : rc.child = p[2] /\ rc.folio # p[1]
Current(p) ==
  store.integrity[p].status =
    IF Holds(store, p[2], p[1])
    THEN ReconciledRow(store, p[2], p[1], FALSE, FALSE).status ELSE "none"
StatusIsCurrent ==
  \A p \in Pairs : Merged(p[2]) \/ Drained(p) \/ Rejudged(p) \/ Current(p)

(* Reported by dividend_attribution.py: units held on ex-date x DPS.       *)
DividendsOnUnitsHeld ==
  \A k \in DOMAIN store.rows :
    LET t == store.rows[k]
    IN t.type = "dividend" /\ t.complete =>
         \A r \in store.cached : r.ref = t.ref =>
           t.value = (DayWalk(t.folio, t.sec)[t.day - 1] * r.perShare) \div Share

(* Promised by reconcile.py: an applied event does not come back as an     *)
(* outstanding step.                                                       *)
AppliedIsSettled ==
  \A p \in Pairs : \A e \in store.log :
    e.folio = p[1] /\ e.sec = p[2] => e.ref \notin store.integrity[p].offer.refs

(* api/integrity.py: a remap re-points rows without changing units.        *)
RemapKeepsUnits ==
  [][\A r \in here.renames :
       RowsIn(store, r[1], r[2]) # <<>> /\ RowsIn(store', r[1], r[2]) = <<>>
       => InvestorUnits(store', r[2]) + InvestorUnits(store', r[3])
            = InvestorUnits(store, r[2]) + InvestorUnits(store, r[3])]_vars
=============================================================================
