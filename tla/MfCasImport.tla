---------------------------- MODULE MfCasImport ----------------------------
(***************************************************************************)
(* Importing CAMS/KFin statements of one scheme in one folio               *)
(* (app/tasks/import_cas.py) and reconciling it afterwards                 *)
(* (app/tasks/reconcile.py).                                               *)
(*                                                                         *)
(* The fund has one true history, a change of units per day.  A statement  *)
(* is a window onto it: the balance carried in, the rows of the window and *)
(* the balance carried out; a parser that cannot map a row loses it.  The  *)
(* importer keeps a statement's rows as cost basis only when they chain    *)
(* onto the ledger, and otherwise as partial rows with a closing snapshot  *)
(* and one PartialBlock to re-evaluate later.  Ledgers of different        *)
(* (security, folio) pairs never meet in this code, so one pair is enough. *)
(***************************************************************************)
EXTENDS Integers, FiniteSets, Functions

CONSTANTS
  Requests,   \* import requests that can run at the same time
  LastDay,    \* bound: the history has days 1..LastDay
  Deltas,     \* bound: what a day can add to or take from the units
  Windows,    \* the statement periods <<from, to>> that can be uploaded
  LossyParser,\* whether a parse may lose a row
  MaxFaults   \* bound: reconciles that raise, requests that die

ASSUME ImportAssumption ==
  /\ LastDay \in Nat \ {0} /\ Deltas \subseteq Int /\ 0 \in Deltas
  /\ Windows \subseteq {w \in (1..LastDay) \X (1..LastDay) : w[1] <= w[2]}
  /\ LossyParser \in BOOLEAN /\ MaxFaults \in Nat

Days == 1..LastDay

NoUnits == 0 - 1                                  \* no snapshot of that day
NoBlock == [opening |-> 0, closing |-> 0, from |-> 0]

VARIABLES
  history,   \* the units the fund really gained or lost each day
  account,   \* rows, CAS snapshots and PartialBlock stored for the pair
  integrity, \* the stored SecurityIntegrityStatus
  req,       \* per request: idle, or the status it is about to write
  uploads,   \* history: the windows imported without a lost row
  lossless,  \* history: no parse has lost a row so far
  faults

vars == <<history, account, integrity, req, uploads, lossless, faults>>

Statuses == {"full_history", "reconciled", "mismatch", "snapshot_only", "none"}

(* The true balance at the end of a day; day 0 is before the fund.         *)
UnitsOf(h, days) == SumFunctionOnSet(h, days)
Net(days)  == UnitsOf(history, days)
Balance(d) == Net(1..d)
Balances   == {Balance(d) : d \in 0..LastDay}
Blocks     == [opening : Balances, closing : Balances, from : Days]

Statements ==
  [period : Windows, lost : IF LossyParser THEN {0} \union Days ELSE {0}]
From(s)    == s.period[1]
To(s)      == s.period[2]
Opening(s) == Balance(From(s) - 1)
Closing(s) == Balance(To(s))
Lines(s)   == {d \in From(s)..To(s) : history[d] # 0} \ {s.lost}

Complete(a) == {d \in Days : a.rows[d] = "complete"}
Partial(a)  == {d \in Days : a.rows[d] = "partial"}
Snapshots(a) == {d \in Days : a.snapshot[d] # NoUnits}

(* Every number on file is a balance the fund really had, also when a      *)
(* parse has lost a row.                                                   *)
TypeOK ==
  /\ history \in [Days -> Deltas]
  /\ account \in [rows : [Days -> {"absent", "complete", "partial"}],
                  snapshot : [Days -> Balances \union {NoUnits}],
                  block : Blocks \union {NoBlock}]
  /\ integrity \in Statuses
  /\ req \in [Requests -> [pc : {"idle", "reconcile", "write"}, result : Statuses]]
  /\ uploads \subseteq Windows /\ lossless \in BOOLEAN /\ faults \in 0..MaxFaults

NoSnapshots == [d \in Days |-> NoUnits]

Init ==
  /\ history \in {h \in [Days -> Deltas] :
                   \A d \in Days : UnitsOf(h, 1..d) >= 0}
  /\ account = [rows |-> [d \in Days |-> "absent"], snapshot |-> NoSnapshots,
                block |-> NoBlock]
  /\ integrity = "none"
  /\ req = [r \in Requests |-> [pc |-> "idle", result |-> "none"]]
  /\ uploads = {} /\ lossless = TRUE /\ faults = 0

-----------------------------------------------------------------------------
(* Net units of the complete ledger before a day: what an opening balance  *)
(* must equal for a statement to chain.                                    *)
PriorBalance(a, from) == Net({d \in Complete(a) : d < from})

HistoryGap(s, prior) ==
  \/ Opening(s) # prior
  \/ Opening(s) + Net(Lines(s)) # Closing(s)

(* get_or_create by content: a row already stored keeps its flag.          *)
OverwriteRows(rows, days, flag) ==               \* mistaken: update_or_create
  [d \in Days |-> IF d \in days THEN flag ELSE rows[d]]
AddRows(rows, days, flag) ==
  [d \in Days |-> IF d \in days /\ rows[d] = "absent" THEN flag ELSE rows[d]]

PersistSchemeRowsOnly(a, s) ==                   \* mistaken: no snapshot, no block
  [a EXCEPT !.rows = AddRows(@, Lines(s),
      IF HistoryGap(s, PriorBalance(a, From(s))) THEN "partial" ELSE "complete")]
PersistScheme(a, s) ==
  IF ~HistoryGap(s, PriorBalance(a, From(s)))
  THEN [a EXCEPT !.rows = AddRows(@, Lines(s), "complete")]
  ELSE [rows |-> AddRows(a.rows, Lines(s), "partial"),
        snapshot |-> [a.snapshot EXCEPT ![To(s)] = Closing(s)],
        block |-> [opening |-> Opening(s), closing |-> Closing(s), from |-> From(s)]]

(* A partial block that now chains becomes cost basis, and its snapshots   *)
(* go; one with no partial rows left is a stale record.                    *)
RowsAddUp(a) ==                                  \* mistaken: ignores the prior ledger
  a.block.opening + Net(Partial(a)) = a.block.closing
BlockChains(a) ==
  /\ PriorBalance(a, a.block.from) = a.block.opening
  /\ a.block.opening + Net(Partial(a)) = a.block.closing
ForgetPartials(a) == a                           \* mistaken: no upgrade pass
UpgradeChainedPartials(a) ==
  IF a.block = NoBlock THEN a
  ELSE IF Partial(a) = {} THEN [a EXCEPT !.block = NoBlock]
  ELSE IF BlockChains(a)
  THEN [rows |-> [d \in Days |-> IF a.rows[d] = "partial" THEN "complete" ELSE a.rows[d]],
        snapshot |-> NoSnapshots, block |-> NoBlock]
  ELSE a

(* The whole statement is persisted, and the partials re-evaluated, in one *)
(* transaction.                                                            *)
PersistStatement(r, s) ==
  /\ req[r].pc = "idle"
  /\ account' = UpgradeChainedPartials(PersistScheme(account, s))
  /\ LET losesRow == s.lost \in From(s)..To(s) /\ history[s.lost] # 0
     IN /\ uploads' = IF losesRow THEN uploads ELSE uploads \union {s.period}
        /\ lossless' = (lossless /\ ~losesRow)
  /\ req' = [req EXCEPT ![r].pc = "reconcile"]
  /\ UNCHANGED <<history, integrity, faults>>

-----------------------------------------------------------------------------
(* Reconciliation.  A CAS snapshot on or before the last ledger row is a   *)
(* superseded self-snapshot; a later one is a check on the ledger.         *)
Latest(days) == CHOOSE d \in days : \A e \in days : e <= d

Relevant(a) ==
  {d \in Snapshots(a) :
     IF Complete(a) # {} THEN d > Latest(Complete(a))
     ELSE Partial(a) # {} \/ a.snapshot[d] > 0}

Reconcile(a) ==
  IF Complete(a) = {}
  THEN IF Relevant(a) # {} \/ (a.block # NoBlock /\ Partial(a) # {})
       THEN "snapshot_only" ELSE "none"
  ELSE IF Relevant(a) = {} THEN "full_history"
  ELSE IF a.snapshot[Latest(Relevant(a))] = Net(Complete(a))
       THEN "reconciled" ELSE "mismatch"

ReconcileSecurity(r) ==
  /\ req[r].pc = "reconcile"
  /\ req' = [req EXCEPT ![r] = [pc |-> "write", result |-> Reconcile(account)]]
  /\ UNCHANGED <<history, account, integrity, uploads, lossless, faults>>

WriteStatus(r) ==
  /\ req[r].pc = "write"
  /\ integrity' = req[r].result
  /\ req' = [req EXCEPT ![r] = [pc |-> "idle", result |-> "none"]]
  /\ UNCHANGED <<history, account, uploads, lossless, faults>>

(* A reconcile that raises is recorded on the job; the import stands.      *)
ReconcileFails(r) ==
  /\ req[r].pc \in {"reconcile", "write"}
  /\ faults < MaxFaults
  /\ faults' = faults + 1
  /\ req' = [req EXCEPT ![r] = [pc |-> "idle", result |-> "none"]]
  /\ UNCHANGED <<history, account, integrity, uploads, lossless>>

Next ==
  \E r \in Requests :
    \/ \E s \in Statements : PersistStatement(r, s)
    \/ ReconcileSecurity(r)
    \/ WriteStatus(r)
    \/ ReconcileFails(r)

Spec == Init /\ [][Next]_vars
-----------------------------------------------------------------------------
(* Properties.                                                             *)

TaxSafe == integrity \in {"full_history", "reconciled"}
AtRest  == \A r \in Requests : req[r].pc = "idle"

(* Contiguous statements converge to one complete ledger in any order: a   *)
(* day whose whole past has been uploaded is never left as a partial row,  *)
(* as long as no parse has lost a row                                      *)
(* (test_history_converges_regardless_of_import_order and the docstrings   *)
(* of upgrade_chained_partials and PartialBlock).                          *)
Reached(d) == \A e \in 1..d : \E w \in uploads : w[1] <= e /\ e <= w[2]
AnyOrderConverges ==
  lossless => \A d \in Days : Reached(d) => account.rows[d] # "partial"

(* The cost-basis rows never misstate the fund: at every complete row the  *)
(* complete ledger sums to the true balance (TransactionQuerySet.          *)
(* cost_basis: "rows that carry a verified cost basis"), as long as no     *)
(* parse has lost a row.                                                   *)
CostBasisIsTrue ==
  lossless => \A d \in Complete(account) :
                Net({e \in Complete(account) : e <= d}) = Balance(d)

(* Importing is additive: no statement, however it overlaps or fails to    *)
(* chain, removes a row or takes a verified cost basis away.               *)
NeverDowngraded ==
  [][\A d \in Days :
       /\ account.rows[d] # "absent" => account'.rows[d] # "absent"
       /\ account.rows[d] = "complete" => account'.rows[d] = "complete"]_vars

(* Rows without cost basis never drop out of the net worth: as long as     *)
(* some are partial, a statement's closing snapshot is kept, and the block *)
(* that can still upgrade them.                                            *)
PartialKeepsSnapshot ==
  Partial(account) # {} => account.block # NoBlock /\ Snapshots(account) # {}

(* A failed reconcile keeps the pair out of any tax filing (the docstring  *)
(* of reconcile_after_import): a stored tax-safe status always describes   *)
(* the ledger it stands for.                                               *)
StaleIsNotTaxSafe == AtRest /\ TaxSafe => integrity = Reconcile(account)
=============================================================================
