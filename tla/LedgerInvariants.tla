--------------------------- MODULE LedgerInvariants ---------------------------
(***************************************************************************)
(* What the proofs in CorporateActionsProofs say of CorporateActions and   *)
(* LedgerViews: the loops of the model under one name, what rows, lots and *)
(* stores are typed as, the inductive invariant (IInv, Typed), what makes  *)
(* two ledgers alike, and the replay and the scheme page in numbers.       *)
(***************************************************************************)
EXTENDS LedgerViews, SumTheorems

(* The loops of the model, numbered by name: what a round does with the    *)
(* member it takes up, and which member of the rest comes last.            *)
Body(loop, arg, x, s) ==
  CASE loop = "sort"      -> <<x>> \o s
    [] loop = "append"    -> Append(s, arg[x])
    [] loop = "replay"    -> ApplyEvent(s, arg[x])
    [] loop = "fifo"      -> BookRow(s, arg[x])
    [] loop = "balance"   -> RunningBalance(s, arg[x])
    [] loop = "attribute" -> AttributeDividends(s, arg, x)
    [] loop = "reconcile" -> ReconcileSecurity(s, x)
    [] loop = "complete"  -> Completeness(s, x)
    [] loop = "tidy"      -> Completeness(Superseded(s, x), x)
    [] loop = "apply"     -> ReconcileSecurity(Settle(s, x, arg), x)
    [] loop = "folio"     -> ReconcileFolio(s, x, arg, FALSE, FALSE)
Pick(loop, arg, T) ==
  CASE loop = "sort" -> CHOOSE x \in T : \A y \in T : <<y, x>> \notin arg
    [] loop \in {"replay", "fifo", "balance"} -> Max(T)
    [] OTHER -> Chosen(T)
Picks(loop, arg, S) == \A T \in SUBSET S : T # {} => Pick(loop, arg, T) \in T
IsLoop(loop, arg, base, S, g) ==
  g = [T \in SUBSET S |->
         IF T = {} THEN base
         ELSE Body(loop, arg, Pick(loop, arg, T), g[T \ {Pick(loop, arg, T)}])]
Loop(loop, arg, base, S) == (CHOOSE g : IsLoop(loop, arg, base, S, g))[S]

-----------------------------------------------------------------------------
(* Rows and what they add up to, whatever order they are put in.           *)
RowTypes == Inflows \cup Outflows \cup {"split", "merger", "dividend"}
Rows(days) == [sec : Securities \cup {NoSecurity}, folio : Folios \cup {NoFolio},
               day : days, type : RowTypes, units : Nat, value : Nat, ref : Nat,
               complete : BOOLEAN]
UnitsIn(rows, P) == SumFunctionOnSet([k \in DOMAIN rows |-> Signed(rows[k])], P)

-----------------------------------------------------------------------------
(* FIFO.  The lots of a bucket hold its net units for as long as it does   *)
(* not oversell; without a demerger they cost nothing less than zero.      *)
Lots(C, D)  == [units : Nat \ {0}, cost : C, day : D]
Sheds(D)    == [type : {"shed"}, day : D, acquired : Nat, value : Nat]
IsBook(book, C, D) ==
  /\ book = [lots |-> book.lots, sold |-> book.sold, short |-> book.short]
  /\ book.lots \in Seq(Lots(C, D)) /\ book.short \in BOOLEAN
UnitsOf(lots) == [k \in DOMAIN lots |-> lots[k].units]

(* What is left of lots from which some units are taken.                   *)
LotsLeft(C, D) == [units : Nat, cost : C, day : D]
Remaining(rest) == {k \in DOMAIN rest : rest[k].units > 0}
Booked(book, next, t) ==
  ~next.short => ~book.short /\ LotUnits(next.lots) = LotUnits(book.lots) + Signed(t)

-----------------------------------------------------------------------------
(* The tables of a store, and what a loop over folios or securities may do *)
(* to them: the log and the references stay, a pair's row stays or is      *)
(* judged anew, from the references of its security.                       *)
IsStore(s) ==
  /\ s = [rows |-> s.rows, log |-> s.log, blocks |-> s.blocks, holdings |-> s.holdings,
          integrity |-> s.integrity, cached |-> s.cached, synced |-> s.synced]
  /\ s.integrity = [p \in Pairs |-> s.integrity[p]]
  /\ s.blocks \subseteq Pairs
RefsFor(s, sec) == {r.ref : r \in DedupeScaling(s, sec)}
Judged(s, p, row) ==
  /\ row.status \in Statuses /\ row.offer.refs \subseteq RefsFor(s, p[2])
  /\ row.status = "user_acknowledged" => s.integrity[p].status = "user_acknowledged"
Kept(s, t) ==
  /\ IsStore(t) /\ t.log = s.log /\ t.cached = s.cached /\ t.synced = s.synced
  /\ \A p \in Pairs : t.integrity[p] = s.integrity[p] \/ Judged(s, p, t.integrity[p])

-----------------------------------------------------------------------------
(* The inductive invariant.  Of the rows that list one action, whatever    *)
(* the exchange, the first is the one that can be offered, and the only    *)
(* one the log can have.  It takes that the cache is closed: who answers,  *)
(* answers with everything, and never without NSE.                         *)
FirstListed(w) ==
  {r \in w.references :
     /\ r.kind \in Scaling /\ ~r.review
     /\ \A q \in w.references :
          (q.sec = r.sec /\ q.kind \in Scaling /\ ~q.review /\ SameAction(r, q)) => r.ref <= q.ref}
CacheClosed(s, w) ==
  /\ s.cached \subseteq w.references
  /\ \A r \in s.cached : \A q \in w.references :
       (q.sec = r.sec /\ q.exchange \in {r.exchange, "NSE"}) => q \in s.cached
Offerable(s, w) == {r.ref : r \in s.cached \cap FirstListed(w)}
OffersListed(s, w) ==
  \A p \in Pairs : /\ s.integrity[p].status \in Statuses
                   /\ s.integrity[p].offer.refs \subseteq Offerable(s, w)
EventKnown(e, w) ==
  /\ e.sec \in Securities /\ e.into \in Securities \cup {NoSecurity}
  /\ e.ref \in RefsOf(w) => \E r \in FirstListed(w) : e = EventOf(r, e.folio)
  /\ \/ e.kind = "demerger"
     \/ e \in w.authored
     \/ \E r \in FirstListed(w) : e = EventOf(r, e.folio)
StoreInv(s, w) ==
  /\ IsStore(s) /\ s.synced \subseteq Securities
  /\ CacheClosed(s, w) /\ OffersListed(s, w) /\ \A e \in s.log : EventKnown(e, w)

(* A step of a request: the invariant, and no acknowledgement of its own.  *)
Sound(s, t, w) ==
  /\ StoreInv(t, w)
  /\ \A p \in Pairs : t.integrity[p].status = "user_acknowledged"
                        => s.integrity[p].status = "user_acknowledged"
IInv ==
  /\ StoreInv(store, here) /\ world \in DOMAIN Worlds
  /\ imported \subseteq here.books /\ moods \in 0 .. Moods

-----------------------------------------------------------------------------
(* The amounts.  A store is typed over a set of days when its rows are     *)
(* rows of those days, with natural units and values and no ref but those  *)
(* of receipts, settlements and cached dividends, and its log and its      *)
(* cache have what the replay can work with.                               *)
IsReference(r, D) == {r.ref, r.perShare} \subseteq Nat /\ r.day \in D
KeptRefs == {NoRef} \cup UNION {{LotRef(sec), SettleRef(sec)} : sec \in Securities}
BookedRefs(s) == KeptRefs \cup {r.ref : r \in {r \in s.cached : r.kind = "dividend"}}
StoredRows(s, D) == {t \in Rows(D) : t.ref \in BookedRefs(s) /\ t.folio \in Folios}
Typed(s, D) ==
  /\ IsStore(s) /\ s.rows \in Seq(StoredRows(s, D)) /\ s.holdings \in [Pairs -> Int]
  /\ IsFiniteSet(s.log) /\ \A e \in s.log : IsEvent(e) /\ e.day \in D
  /\ IsFiniteSet(s.cached) /\ \A r \in s.cached : IsReference(r, D)
  /\ \A r, q \in s.cached : r.ref = q.ref => r = q

-----------------------------------------------------------------------------
(* The days a world knows; what happens in it happens on one of them.      *)
DaysOf(w) ==
  (UNION {{b[k].day : k \in DOMAIN b} : b \in w.books})
    \cup {e.day : e \in w.references \cup w.authored \cup w.receipts}
    \cup (UNION {{a.day : a \in rc.lots} : rc \in w.receipts})

-----------------------------------------------------------------------------
(* The views.  Netting a security's rows at once and running FIFO folio by *)
(* folio give the same units: a bucket's lots hold its net units, and one  *)
(* that oversells is shown at its net units.                               *)
SomeDays(shed, day) == Keep(shed, LAMBDA r : r.day <= day)
FolioRows(ledger, sec, f, day) ==
  Keep(ledger, LAMBDA t : t.sec = sec /\ t.folio = f /\ t.day <= day)
OwnedUnits(s, ledger, sec, day, shed) ==
  SumFunction([f \in Owned(ledger, sec) |->
                 BucketAsOf(s, FolioRows(ledger, sec, f, day), SomeDays(shed, day)).units])
SnapshotUnits(s, sec, folios) == SumFunction([f \in folios |-> s.holdings[f, sec]])
PlacesOf(ledger, sec) == {k \in DOMAIN ledger : ledger[k].sec = sec}

-----------------------------------------------------------------------------
(* What is sorted is in order: no element comes after a later one.         *)
InOrder(order, R) ==
  \A i, j \in DOMAIN order : i < j => <<order[j], order[i]>> \notin R

(* The places picked from a ledger come in the order they had.             *)
Rising(order) == \A i, j \in DOMAIN order : i < j <=> order[i] < order[j]

(* Reading one security.  Its units depend only on its rows, those of the  *)
(* securities merged into it, and the events of these.  Two ledgers are    *)
(* alike in some securities when their rows of these securities are the    *)
(* same, wherever they stand, and they have the same of the refs in R.     *)
PlacesIn(L, K) == {k \in DOMAIN L : L[k].sec \in K}
Matches(f, g, L, M, K) ==
  /\ \A k \in PlacesIn(L, K) : f[k] \in PlacesIn(M, K) /\ M[f[k]] = L[k] /\ g[f[k]] = k
  /\ \A j \in PlacesIn(M, K) : g[j] \in PlacesIn(L, K) /\ f[g[j]] = j
SameRefs(L, M, R) == \A r \in R : HasRef(L, r) <=> HasRef(M, r)
Alike(L, M, K, R) == (\E f, g : Matches(f, g, L, M, K)) /\ SameRefs(L, M, R)

(* What is held is the sum over the places of the trades it counts.        *)
HeldPlaces(L, sec, folio, day) ==
  {k \in DOMAIN L : L[k].sec = sec /\ folio \in {NoFolio, L[k].folio} /\ L[k].day < day}

-----------------------------------------------------------------------------
(* What a merger makes of a row of the security merged away.               *)
Converted(t, e) == [t EXCEPT !.sec = e.into, !.units = (@ * e.num) \div e.den,
                             !.ref = IF @ = NoRef THEN e.ref ELSE @]
ConvertRows(L, e) ==
  [k \in DOMAIN L |-> IF L[k].sec = e.sec THEN Converted(L[k], e) ELSE L[k]]

-----------------------------------------------------------------------------
(* The ledger after the first i events of a replay.                        *)
Upto(q, raw, i) == Loop("replay", q, raw, 1 .. i)

(* The events that move units of K, and how two replays pair them up: the  *)
(* first i events of q, as far as they move K, with the first j of p.      *)
Moving(e, K) == e.sec \in K /\ e.kind # "demerger"
PairedBy(b, c, i, j, q, p, K) ==
  /\ \A k \in 1 .. i : Moving(q[k], K) =>
       b[k] \in 1 .. j /\ c[b[k]] = k /\ SameTerms(q[k], p[b[k]])
  /\ \A l \in 1 .. j : c[l] \in 1 .. i /\ Moving(q[c[l]], K) /\ b[c[l]] = l
Paired(i, j, q, p, K) == \E b, c : PairedBy(b, c, i, j, q, p, K)

(* Events that move K and rank alike are the same but for the folio; the   *)
(* others leave K and its refs alone.                                      *)
Ranked(E, K) ==
  \A x, y \in E : (/\ Moving(x, K) /\ Moving(y, K)
                   /\ x.kind = y.kind /\ x.day = y.day /\ x.ref = y.ref) => SameTerms(x, y)
Confined(E, K, R) ==
  \A e \in E : \/ e.kind = "demerger"
               \/ Moving(e, K) /\ e.ref \in R
               \/ e.sec \notin K /\ e.ref \notin R /\ (e.kind = "merger" => e.into \notin K)

-----------------------------------------------------------------------------
(* A match that keeps the order of the rows of K.                          *)
InStep(f, L, K) == \A j, k \in PlacesIn(L, K) : j < k <=> f[j] < f[k]

-----------------------------------------------------------------------------
(* One security's ledger reads it, the securities merged into it, and      *)
(* whatever else an event links to it.  The first two are those whose rows *)
(* decide its units; among them no event is missed, and none from outside  *)
(* interferes.                                                             *)
Sources(log, sec) ==
  {sec} \cup {e.sec : e \in {e \in log : e.kind = "merger" /\ e.into = sec}}
MovingRefs(log, K) == {e.ref : e \in {e \in log : Moving(e, K)}}

(* The stored rows that the two readings begin with, and the rows of a     *)
(* security that they end with.                                            *)
WholeRaw(s) == NetIntraday(Keep(s.rows, LAMBDA t : t.complete))
LinkedRaw(s, secs) ==
  NetIntraday(Keep(s.rows, LAMBDA t : /\ t.sec \in secs
                                      /\ NoFolio \in {NoFolio, t.folio}
                                      /\ (t.complete \/ FALSE)))
OwnRows(L, sec) == Keep(L, LAMBDA t : t.sec = sec)

-----------------------------------------------------------------------------
(* Units taken from the places T in turn, n in all: what stands ahead of a *)
(* place is taken first.                                                   *)
AheadOf(u, T, k) == SumFunctionOnSet(u, {j \in T : j < k})
TakenBy(u, T, n) == [k \in T |-> Taken(u[k], AheadOf(u, T, k), n)]

-----------------------------------------------------------------------------
(* Same-day netting leaves what was held on every day as it was: what a    *)
(* day's purchases lose, its sales lose too.                               *)
DayOffset(L, k) ==
  Least(UnitsAt(L, DayTrades(L, k, "buy")), UnitsAt(L, DayTrades(L, k, "sell")))
OffsetSigned(L, k) ==
  IF L[k].type = "buy" THEN OffsetAt(L, k)
  ELSE IF L[k].type = "sell" THEN 0 - OffsetAt(L, k) ELSE 0

-----------------------------------------------------------------------------
(* Ledgers that a plain action finds: the rows of the security in whole    *)
(* shares, and what belongs to no folio moves nothing.                     *)
Whole(x) == \E c \in Int : x = Share * c
PlainRows(D, sec) ==
  {t \in Rows(D) : t.sec = sec => Whole(t.units) /\ (t.folio \in Folios \/ Signed(t) = 0)}

(* What all folios hold is the sum of what each of them holds.             *)
FolioHeld(L, sec, day) == [f \in Folios |-> HeldUnits(L, sec, f, day)]

-----------------------------------------------------------------------------
(* What a row more, and rows for the members of a set, add to the holding. *)
Counted(t, sec, folio, day) ==
  IF t.sec = sec /\ folio \in {NoFolio, t.folio} /\ t.day < day THEN Signed(t) ELSE 0
CountedOf(row, sec, folio, day) == [x \in DOMAIN row |-> Counted(row[x], sec, folio, day)]

-----------------------------------------------------------------------------
(* A plain split or bonus multiplies what was held at its ex-date.         *)
PlainEvent(e, sec, m) ==
  /\ IsEvent(e) /\ e.sec = sec /\ e.kind \in Scaling
  /\ m \in Nat /\ m >= 1 /\ e.num = m * e.den
Effect(L, M, sec, folio, e, m, c) ==
  /\ \A day \in Int : day <= e.day =>
       HeldUnits(M, sec, folio, day) = c * HeldUnits(L, sec, folio, day)
  /\ \A day \in Int : day > e.day =>
       HeldUnits(M, sec, folio, day)
         = HeldUnits(L, sec, folio, day) + (m - 1) * HeldUnits(L, sec, folio, e.day)

-----------------------------------------------------------------------------
(* What one event does to a plain ledger: a plain one of the security      *)
(* multiplies, by c, what was held up to its ex-date, and where no folio   *)
(* is oversold adds m - 1 times the entitlement to what is held after it.  *)
Grown(L, M, sec, e, m) ==
  \A day \in Int : day > e.day =>
    HeldUnits(M, sec, NoFolio, day)
      = HeldUnits(L, sec, NoFolio, day) + (m - 1) * HeldUnits(L, sec, NoFolio, e.day)
Multiplied(L, M, sec, e, c) ==
  \A folio \in Folios : \A day \in Int : day <= e.day =>
    HeldUnits(M, sec, folio, day) = c * HeldUnits(L, sec, folio, day)
Unmoved(L, M, sec) ==
  \A folio, day : HeldUnits(M, sec, folio, day) = HeldUnits(L, sec, folio, day)

-----------------------------------------------------------------------------
(* The log as a plain security has it: every action of it multiplies by a  *)
(* whole number, under a reference and on a day of its own, and nothing is *)
(* merged into it.                                                         *)
Factor(e) == e.num \div e.den
Scales(e, sec) == e.kind # "demerger" /\ e.sec = sec
PlainLog(E, sec) ==
  /\ \A e \in E : e.kind = "merger" => e.into # sec
  /\ \A e \in E : Scales(e, sec) =>
       /\ PlainEvent(e, sec, Factor(e)) /\ e.ref # NoRef
       /\ \A x \in E : x.kind # "demerger" /\ x.ref = e.ref => x = e
       /\ \A x \in E : Scales(x, sec) /\ x.day = e.day => x = e

-----------------------------------------------------------------------------
(* The page walks its entries.  Its balance after the first k of them.     *)
Running(tl, k) == Loop("balance", tl, 0, 1 .. k)

(* A page shows the trades, and every event once, in the order of their    *)
(* days, trades on days of their own; before any day it has what was held. *)
EntryUnits(tl) == [a \in DOMAIN tl |-> tl[a].units]
EntriesBefore(tl, day) == {a \in DOMAIN tl : tl[a].day < day}
PageOf(tl, F, raw, sec) ==
  /\ \A a \in DOMAIN tl : tl[a].day \in Int /\ tl[a].units \in Int
  /\ \A a, b \in DOMAIN tl : a < b => tl[a].day <= tl[b].day
  /\ \A a \in DOMAIN tl :
       \/ tl[a].num = 1 /\ tl[a].den = 1 /\ \A e \in F : tl[a].day # e.day
       \/ \E e \in F : tl[a] = ScaleEntry(e)
  /\ \A e \in F : \E a \in DOMAIN tl : tl[a] = ScaleEntry(e)
  /\ \A e \in F : \A a, b \in DOMAIN tl :
       tl[a] = ScaleEntry(e) /\ tl[b] = ScaleEntry(e) => a = b
  /\ \A day \in Int : SumFunctionOnSet(EntryUnits(tl), EntriesBefore(tl, day))
                        = HeldUnits(raw, sec, NoFolio, day)
ShownUnits(tl, k) == SumFunctionOnSet(EntryUnits(tl), 1 .. k)

(* The replay of plain events, in numbers: held[i] is what is held after   *)
(* the first i of them.                                                    *)
HeldAfter(q, raw, sec, i, day) == HeldUnits(Upto(q, raw, i), sec, NoFolio, day)
ReplayOf(q, F, raw, sec) ==
  /\ DOMAIN q = 1 .. Len(q) /\ Len(q) \in Nat
  /\ \A i \in 0 .. Len(q) : \A day \in Int : HeldAfter(q, raw, sec, i, day) \in Int
  /\ \A day \in Int : HeldAfter(q, raw, sec, 0, day) = HeldUnits(raw, sec, NoFolio, day)
  /\ \A i \in 1 .. Len(q) : ~Scales(q[i], sec) =>
       \A day \in Int : HeldAfter(q, raw, sec, i, day) = HeldAfter(q, raw, sec, i - 1, day)
  /\ \A i \in 1 .. Len(q) : Scales(q[i], sec) =>
       /\ q[i] \in F /\ PlainEvent(q[i], sec, Factor(q[i]))
       /\ \A day \in Int : day > q[i].day =>
            HeldAfter(q, raw, sec, i, day)
              = HeldAfter(q, raw, sec, i - 1, day)
                  + (Factor(q[i]) - 1) * HeldAfter(q, raw, sec, i - 1, q[i].day)
  /\ \A i, j \in 1 .. Len(q) :
       i < j /\ Scales(q[i], sec) /\ Scales(q[j], sec) => q[i].day < q[j].day
  /\ \A e \in F : \E i \in 1 .. Len(q) : q[i] = e /\ Scales(e, sec)

(* The walk has passed k entries when the replay has passed i events: the  *)
(* same of the security, and the balance is what was traded and what the   *)
(* events added.                                                           *)
Shown(tl, k, e) == \E a \in 1 .. k : tl[a] = ScaleEntry(e)
Later(q, sec, i, day) == \A c \in 1 .. i : Scales(q[c], sec) => q[c].day < day
Walked(q, raw, sec, tl, k, i) ==
  /\ \A c \in 1 .. Len(q) : Scales(q[c], sec) => (c <= i <=> Shown(tl, k, q[c]))
  /\ \A day \in Int : Later(q, sec, i, day) =>
       Running(tl, k) = HeldAfter(q, raw, sec, i, day) - HeldAfter(q, raw, sec, 0, day)
                          + ShownUnits(tl, k)

-----------------------------------------------------------------------------
(* The entries of a page: a trade each for the rows, a scaling each for    *)
(* the events.                                                             *)
Entries(D, F) == {TradeEntry(t) : t \in Rows(D)} \cup {ScaleEntry(e) : e \in F}
StoredOf(L, sec) == Picked(L, {k \in DOMAIN L : L[k].sec = sec})
Entered(all, rows, q) ==
  /\ DOMAIN all = 1 .. (Len(rows) + Len(q)) /\ Len(rows) \in Nat /\ Len(q) \in Nat
  /\ DOMAIN rows = 1 .. Len(rows) /\ DOMAIN q = 1 .. Len(q)
  /\ \A k \in 1 .. Len(rows) : all[k] = TradeEntry(rows[k])
  /\ \A k \in 1 .. Len(q) : all[Len(rows) + k] = ScaleEntry(q[k])

(* Before any day the page shows the units that the ledger it begins with  *)
(* holds: stored rows that are not complete count nothing in either.       *)
CompleteOf(L) == NetIntraday(Picked(L, {k \in DOMAIN L : L[k].complete}))
CompletePlaces(L, sec, day) == {k \in DOMAIN L : L[k].sec = sec /\ L[k].complete /\ L[k].day < day}
PutInOrder(tl, all, order) ==
  /\ IsFiniteSet(DOMAIN all) /\ \A k \in DOMAIN all : all[k].units \in Int
  /\ Enumerates(order, DOMAIN all) /\ DOMAIN tl = DOMAIN order
  /\ \A i \in DOMAIN order : order[i] \in DOMAIN all /\ tl[i] = all[order[i]]
=============================================================================
