-------------------------- MODULE TradebookImport --------------------------
(***************************************************************************)
(* Importing broker tradebooks of one equity in one demat account          *)
(* (app/tasks/import_csv.py), with the opening lots entered by hand for    *)
(* history no tradebook covers (app/services/opening_lots.py).             *)
(*                                                                         *)
(* The account has one true sequence of trades; a tradebook is a period of *)
(* it, listed oldest or newest first.  Rows are stored one transaction     *)
(* each; the passes that follow (drop superseded opening lots, re-derive   *)
(* completeness, queue the recompute) run outside them, one by one.        *)
(***************************************************************************)
EXTENDS Integers, Sequences, FiniteSets, FiniteSetsExt, Functions

CONSTANTS
  Requests,   \* import requests that can run at the same time
  Trades,     \* bound: how many trades the account really made
  Sizes,      \* bound: the units of one trade, signed
  SameDay,    \* whether two trades can share a day
  Lots,       \* opening lots that can be entered: [day, units, costKnown]
  MaxImports, \* bound: tradebook uploads
  MaxFaults   \* bound: requests that die between two steps

ASSUME TradebookAssumption ==
  /\ Trades \in Nat \ {0} /\ Sizes \subseteq Int \ {0}
  /\ SameDay \in BOOLEAN /\ MaxImports \in Nat /\ MaxFaults \in Nat
  /\ \A lot \in Lots : /\ lot.day \in 1..Trades /\ lot.units \in Nat \ {0}
                        /\ lot.costKnown \in BOOLEAN

Numbers == 1..Trades
Days    == 1..Trades
NoDay   == 0
NoBlock == [opening |-> 0, closing |-> 0]

VARIABLES
  history,  \* the true trades, in order: day and units
  rows,     \* the stored transactions, by id
  block,    \* the PartialBlock of the pair
  req,      \* per request: its step, what it has still to store, its verdict
  uncovered,\* history: days an import changed and no recompute is queued for
  disturbed,\* history: what else than one import after another has happened
  imports, faults

vars == <<history, rows, block, req, uncovered, disturbed, imports, faults>>
budget == <<imports, faults>>

(* A stored row: trade n of the history, or an opening lot, whose          *)
(* source_ref tells a single lot from the lots of a receipt.               *)
SingleLot  == 0
ReceiptLot == 0 - 1
IsLot(stored) == stored.n \notin Numbers

TradeRow(n) == [n |-> n, day |-> history[n].day, units |-> history[n].units,
                costKnown |-> TRUE, complete |-> TRUE]
LotRow(kind, lot) == [n |-> kind, day |-> lot.day, units |-> lot.units,
                costKnown |-> lot.costKnown, complete |-> lot.costKnown]

NoRows == [k \in {} |-> 0]
NewId(b) == Max(DOMAIN b \union {0}) + 1
Added(b, stored) ==
  [k \in DOMAIN b \union {NewId(b)} |-> IF k \in DOMAIN b THEN b[k] ELSE stored]

UnitsOf(b) == [k \in DOMAIN b |-> b[k].units]
BalanceOf(h, n) == SumFunctionOnSet(UnitsOf(h), 1..n)
Holding == BalanceOf(history, Trades)      \* units an eCAS observes
Stored  == {rows[k].n : k \in DOMAIN rows} \intersect Numbers

Verdict == [solvent : BOOLEAN, opening : Nat, closing : Int]
NoVerdict == [solvent |-> TRUE, opening |-> 0, closing |-> 0]
Idle == [pc |-> "idle", todo |-> <<>>, verdict |-> NoVerdict]

Row == [n : Numbers \union {SingleLot, ReceiptLot}, day : Days, units : Int,
        costKnown : BOOLEAN, complete : BOOLEAN]
Steps == {"idle", "rows", "supersede", "judge", "mark", "queue"}

TypeOK ==
  /\ history \in [Numbers -> [day : Days, units : Sizes]]
  /\ DOMAIN rows \subseteq Nat \ {0} /\ IsFiniteSet(DOMAIN rows)
  /\ rows \in [DOMAIN rows -> Row]
  /\ block \in [opening : Nat, closing : Int]
  /\ req \in [Requests -> [pc : Steps, todo : Seq(Numbers), verdict : Verdict]]
  /\ uncovered \subseteq Days /\ disturbed \subseteq {"overlap", "death", "lot"}
  /\ imports \in 0..MaxImports /\ faults \in 0..MaxFaults

Init ==
  /\ history \in
       {h \in [Numbers -> [day : Days, units : Sizes]] :
          /\ \A n \in Numbers : IF SameDay THEN n > 1 => h[n-1].day <= h[n].day
                                ELSE h[n].day = n
          /\ \A n \in Numbers : BalanceOf(h, n) >= 0}
  /\ rows = NoRows /\ block = NoBlock
  /\ req = [r \in Requests |-> Idle]
  /\ uncovered = {} /\ disturbed = {} /\ imports = 0 /\ faults = 0

-----------------------------------------------------------------------------
(* FIFO replay: by date, rows of one date in the order of their ids.       *)
UpTo(b, k) ==
  {j \in DOMAIN b : b[j].day < b[k].day \/ (b[j].day = b[k].day /\ j <= k)}
Running(b)  == {SumFunctionOnSet(UnitsOf(b), UpTo(b, k)) : k \in DOMAIN b}
Solvent(b)  == \A x \in Running(b) : x >= 0
Overhang(b) == 0 - Min(Running(b) \union {0})
NetUnits(b) == SumFunction(UnitsOf(b))

JudgedByNet(b) ==                                \* mistaken: only the end balance
  [solvent |-> NetUnits(b) >= 0, closing |-> NetUnits(b), opening |-> 0]
Judged(b) == [solvent |-> Solvent(b), closing |-> NetUnits(b),
              opening |-> IF Solvent(b) THEN 0 ELSE Overhang(b)]

MarkNewRows(b, flag) == [k \in DOMAIN b |->      \* mistaken: never re-opens a row
                           [b[k] EXCEPT !.complete = @ /\ flag]]
Marked(b, flag) == [k \in DOMAIN b |-> [b[k] EXCEPT !.complete = flag]]
BlockOf(v) == IF v.solvent THEN NoBlock
              ELSE [opening |-> v.opening, closing |-> v.closing]

(* A lot is a placeholder: real imported buys make it redundant.           *)
WithoutLots(b) == Restrict(b, {k \in DOMAIN b : ~IsLot(b[k])})
HasRealBuys(b) == \E k \in DOMAIN b : ~IsLot(b[k]) /\ b[k].units > 0
CostBasisDays(b) == {b[k].day : k \in {k \in DOMAIN b : b[k].complete}}

-----------------------------------------------------------------------------
(* An import.                                                              *)

AtRest == \A r \in Requests : req[r].pc = "idle"
Meanwhile(d) == IF AtRest THEN d ELSE d \union {"overlap"}

Period(lo, hi, newestFirst) ==
  [k \in 1..(hi - lo + 1) |-> IF newestFirst THEN hi - k + 1 ELSE lo + k - 1]

StartImport(r, lo, hi, newestFirst) ==
  /\ req[r].pc = "idle"
  /\ imports < MaxImports
  /\ imports' = imports + 1
  /\ req' = [req EXCEPT ![r] = [pc |-> "rows", todo |-> Period(lo, hi, newestFirst),
                                verdict |-> NoVerdict]]
  /\ disturbed' = Meanwhile(disturbed)
  /\ UNCHANGED <<history, rows, block, uncovered, faults>>

(* One row, in a transaction of its own; one already stored is skipped.    *)
StoreAgain(n) == Added(rows, TradeRow(n))         \* mistaken: no dedup key
StoreRow(n) == IF n \in Stored THEN rows ELSE Added(rows, TradeRow(n))

ProcessRow(r) ==
  LET n == Head(req[r].todo) IN
  /\ req[r].pc = "rows" /\ req[r].todo # <<>>
  /\ rows' = StoreRow(n)
  /\ uncovered' = IF rows' = rows THEN uncovered ELSE uncovered \union {history[n].day}
  /\ req' = [req EXCEPT ![r].todo = Tail(@),
                        ![r].pc = IF Len(req[r].todo) = 1 THEN "supersede" ELSE "rows"]
  /\ UNCHANGED <<history, block, disturbed, budget>>

SupersedeOpeningLots(r) ==
  /\ req[r].pc = "supersede"
  /\ rows' = IF HasRealBuys(rows) THEN WithoutLots(rows) ELSE rows
  /\ uncovered' = uncovered \union (CostBasisDays(rows) \ CostBasisDays(rows'))
  /\ req' = [req EXCEPT ![r].pc = "judge"]
  /\ UNCHANGED <<history, block, disturbed, budget>>

(* Completeness is judged on one read of the bucket and written by later   *)
(* statements to whatever the bucket then holds.                           *)
JudgeCompleteness(r) ==
  /\ req[r].pc = "judge"
  /\ req' = [req EXCEPT ![r].pc = "mark", ![r].verdict = Judged(rows)]
  /\ UNCHANGED <<history, rows, block, uncovered, disturbed, budget>>

MarkCompleteness(r) ==
  LET v == req[r].verdict IN
  /\ req[r].pc = "mark"
  /\ rows' = Marked(rows, v.solvent)
  /\ block' = BlockOf(v)
  /\ uncovered' = uncovered \union
       {rows[k].day : k \in {k \in DOMAIN rows : rows[k].complete # v.solvent}}
  /\ req' = [req EXCEPT ![r] = [Idle EXCEPT !.pc = "queue"]]
  /\ UNCHANGED <<history, disturbed, budget>>

(* The recompute starts at the earliest stored transaction.                *)
LatestImportedDay == Max({rows[k].day : k \in DOMAIN rows})  \* mistaken: the last
EarliestDay == Min({rows[k].day : k \in DOMAIN rows})

QueueRecompute(r) ==
  /\ req[r].pc = "queue"
  /\ uncovered' = {d \in uncovered : d < EarliestDay}
  /\ req' = [req EXCEPT ![r] = Idle]
  /\ UNCHANGED <<history, rows, block, disturbed, budget>>

RequestDies(r) ==
  /\ req[r].pc # "idle"
  /\ faults < MaxFaults
  /\ faults' = faults + 1
  /\ req' = [req EXCEPT ![r] = Idle]
  /\ disturbed' = disturbed \union {"death"}
  /\ UNCHANGED <<history, rows, block, uncovered, imports>>

-----------------------------------------------------------------------------
(* Opening lots.  One lot must equal the observed holding and is not       *)
(* judged; a demerger receipt has several, needs no holding, and is.       *)

HasLots == \E k \in DOMAIN rows : IsLot(rows[k])
HasSingleLot == \E k \in DOMAIN rows : rows[k].n = SingleLot

RecordOpeningLot(lot) ==
  /\ ~HasSingleLot /\ Holding > 0 /\ lot.units = Holding
  /\ rows' = Added(rows, LotRow(SingleLot, lot))
  /\ disturbed' = Meanwhile(disturbed \union {"lot"})
  /\ UNCHANGED <<history, block, req, uncovered, budget>>

Rederive(b) == /\ rows' = Marked(b, Solvent(b))
               /\ block' = IF DOMAIN b = {} THEN block ELSE BlockOf(Judged(b))

RecordOpeningLots(lot) ==
  /\ ~HasLots
  /\ Rederive(Added(rows, LotRow(ReceiptLot, lot)))
  /\ disturbed' = Meanwhile(disturbed \union {"lot"})
  /\ UNCHANGED <<history, req, uncovered, budget>>

RemoveOpeningLots ==
  /\ HasLots
  /\ Rederive(WithoutLots(rows))
  /\ disturbed' = Meanwhile(disturbed \union {"lot"})
  /\ UNCHANGED <<history, req, uncovered, budget>>

Next ==
  \/ \E r \in Requests :
       \/ \E lo \in Numbers : \E hi \in lo..Trades : \E newestFirst \in BOOLEAN :
            StartImport(r, lo, hi, newestFirst)
       \/ ProcessRow(r) \/ SupersedeOpeningLots(r) \/ JudgeCompleteness(r)
       \/ MarkCompleteness(r) \/ QueueRecompute(r) \/ RequestDies(r)
  \/ \E lot \in Lots : RecordOpeningLot(lot) \/ RecordOpeningLots(lot)
  \/ RemoveOpeningLots

Spec == Init /\ [][Next]_vars
-----------------------------------------------------------------------------
(* Properties.                                                             *)

CostBasis == Restrict(rows, {k \in DOMAIN rows : rows[k].complete})

(* Completeness is a property of the ledger, whatever the order of the     *)
(* imports and whatever opening lots came and went between them (the       *)
(* docstring of _reconcile_cost_basis_completeness): once every trade up   *)
(* to the last stored one is there, all of them carry cost basis and no    *)
(* block is left.                                                          *)
OneByOne == AtRest /\ disturbed \subseteq {"lot"}
NothingMissing == Stored = 1..Cardinality(Stored)
OrderIndependent ==
  OneByOne /\ ~HasLots /\ NothingMissing =>
    block = NoBlock /\ \A k \in DOMAIN rows : rows[k].complete

(* The rows that feed FIFO never oversell: valuation, gains and tax replay *)
(* them without the missing buys.                                          *)
CostBasisIsSolvent == OneByOne => Solvent(CostBasis)

(* A row without a known cost never becomes cost basis (the comment on     *)
(* cost_basis_complete and on TransactionQuerySet.cost_basis).             *)
UnknownCostStaysOut ==
  \A k \in DOMAIN rows : rows[k].complete => rows[k].costKnown

(* An import queues a recompute that reaches every day it changed (the     *)
(* comment in process_csv on queueing "the full equity history"), unless   *)
(* it superseded an opening lot.                                           *)
RecomputeReachesChanges == AtRest /\ disturbed = {} => uncovered = {}

(* Re-uploading a period, whatever died half way before, stores no trade   *)
(* twice (the dedup key of _process_row).                                  *)
Trade(k) == rows[k].n
TradesStoredOnce ==
  \A j, k \in DOMAIN rows : j # k /\ ~IsLot(rows[j]) => Trade(j) # Trade(k)

(* The opening history of a holding is recorded once (the "already         *)
(* recorded" refusals of both entry points).                               *)
OpeningRecordedOnce ==
  \A j, k \in DOMAIN rows : IsLot(rows[j]) /\ IsLot(rows[k]) => j = k
=============================================================================
